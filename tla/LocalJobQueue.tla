---------------------------- MODULE LocalJobQueue ----------------------------
(***************************************************************************)
(* LocalSqliteJobQueue (adapters/local/src/index.ts): several processes on *)
(* one SQLite file.  enqueue() reads and then inserts, re-reading when the *)
(* unique index refuses the insert; lease() takes one timestamp and runs   *)
(* three autocommit statements with it.                                    *)
(***************************************************************************)
EXTENDS SqlJobs

CONSTANT MaxPause   \* how far time may run while a lease() call is under way

ASSUME MaxPauseAssumption == MaxPause \in Nat

-----------------------------------------------------------------------------
(* enqueue(), enqueueSync() and schedule(), in whatever process.            *)

RowOf(r) == {id \in Rows : SameKey(request[id], r)}

Answer(r, id) ==
  /\ answers' = [answers EXCEPT ![r] = @ \cup {id}]
  /\ UNCHANGED <<now, issued, pc, stamp, lease, recoveries, completions>>

\* The first SELECT finds the job: it is returned in whatever state it is.
EnqueueFound(r) ==
  /\ \E id \in RowOf(r) : Answer(r, id)
  /\ UNCHANGED <<row, asked>>

\* The first SELECT finds nothing.
EnqueueMissing(r) ==
  /\ RowOf(r) = {}
  /\ asked' = asked \cup {r}
  /\ UNCHANGED <<row, now, issued, pc, stamp, lease, history>>

Insert(r, id, delay) ==
  /\ request' = [request EXCEPT ![id] = r]
  /\ state' = [state EXCEPT ![id] = "queued"]
  /\ availableAt' = [availableAt EXCEPT ![id] = now + delay]
  /\ UNCHANGED <<attempt, leaseToken, leaseExpiresAt>>

EnqueueInsert_NoUniqueIndex(r, delay) ==
  /\ r \in asked
  /\ asked' = asked \ {r}
  /\ \E id \in Ids \ Rows : Insert(r, id, delay) /\ Answer(r, id)

\* The INSERT, under UNIQUE (cell_id, idempotency_key): a process that lost
\* the race reads the winner's row.
EnqueueInsert(r, delay) ==
  /\ r \in asked
  /\ asked' = asked \ {r}
  /\ \/ /\ RowOf(r) = {}
        /\ \E id \in Ids \ Rows : Insert(r, id, delay) /\ Answer(r, id)
     \/ /\ \E id \in RowOf(r) : Answer(r, id)
        /\ UNCHANGED row

-----------------------------------------------------------------------------
(* lease()                                                                  *)

Lapse(jobs, outcome) ==
  /\ state' = [id \in Ids |-> IF id \in jobs THEN outcome ELSE state[id]]
  /\ leaseToken' = [id \in Ids |-> IF id \in jobs THEN 0 ELSE leaseToken[id]]
  /\ leaseExpiresAt' = [id \in Ids |-> IF id \in jobs THEN 0 ELSE leaseExpiresAt[id]]
  /\ UNCHANGED <<request, attempt, now, issued, lease, asked, history>>

LeaseDeadLetter_KeepExhausted(w) ==
  /\ pc[w] = "idle"
  /\ pc' = [pc EXCEPT ![w] = "reclaim"]
  /\ stamp' = [stamp EXCEPT ![w] = now]
  /\ UNCHANGED <<row, now, issued, lease, asked, history>>

\* First statement: expired leases that spent the last attempt.
LeaseDeadLetter(w) ==
  /\ pc[w] = "idle"
  /\ pc' = [pc EXCEPT ![w] = "reclaim"]
  /\ stamp' = [stamp EXCEPT ![w] = now]
  /\ Lapse({id \in ExpiredAt(w, now) : Exhausted(id)}, "dead_lettered")
  /\ UNCHANGED availableAt

LeaseReclaim_Unexpired(w) ==
  LET jobs == {id \in Rows : request[id].cell = CellOf[w] /\ state[id] = "leased"}
  IN  /\ pc[w] = "reclaim"
      /\ pc' = [pc EXCEPT ![w] = "claim"]
      /\ Lapse(jobs, "retry_scheduled")
      /\ availableAt' = [id \in Ids |-> IF id \in jobs THEN stamp[w] ELSE availableAt[id]]
      /\ UNCHANGED stamp

LeaseReclaim_Never(w) ==
  /\ pc[w] = "reclaim"
  /\ pc' = [pc EXCEPT ![w] = "claim"]
  /\ UNCHANGED <<row, stamp, now, issued, lease, asked, history>>

\* Second statement: the other expired leases become available again.
LeaseReclaim(w) ==
  LET jobs == ExpiredAt(w, stamp[w])
  IN  /\ pc[w] = "reclaim"
      /\ pc' = [pc EXCEPT ![w] = "claim"]
      /\ Lapse(jobs, "retry_scheduled")
      /\ availableAt' = [id \in Ids |-> IF id \in jobs THEN stamp[w] ELSE availableAt[id]]
      /\ UNCHANGED stamp

\* Third statement: the oldest available job in scope, under a fresh token.
LeaseClaim(w) ==
  LET jobs == Leasable(w, stamp[w])
  IN  /\ pc[w] = "claim"
      /\ \E id \in jobs :
           /\ \A j \in jobs : Before(id, j)
           /\ state' = [state EXCEPT ![id] = "leased"]
           /\ attempt' = [attempt EXCEPT ![id] = @ + 1]
           /\ leaseToken' = [leaseToken EXCEPT ![id] = issued + 1]
           /\ leaseExpiresAt' = [leaseExpiresAt EXCEPT ![id] = stamp[w] + LeaseDuration]
           /\ lease' = [lease EXCEPT ![w] =
                [id |-> id, token |-> issued + 1, until |-> stamp[w] + LeaseDuration]]
      /\ issued' = issued + 1
      /\ pc' = [pc EXCEPT ![w] = "work"]
      /\ UNCHANGED <<request, availableAt, now, stamp, asked, history>>

\* ... or no row: lease() returns undefined and the loop polls again later.
LeaseNone(w) ==
  /\ pc[w] = "claim"
  /\ Leasable(w, stamp[w]) = {}
  /\ pc' = [pc EXCEPT ![w] = "idle"]
  /\ UNCHANGED <<row, now, issued, stamp, lease, asked, history>>

-----------------------------------------------------------------------------
\* Time passes.  A lease() call under way is never stopped for longer than
\* MaxPause between the timestamp it takes and its last statement.
Tick ==
  /\ \A w \in Workers : pc[w] \in {"reclaim", "claim"} => now - stamp[w] < MaxPause
  /\ now' = now + 1
  /\ UNCHANGED <<row, issued, pc, stamp, lease, asked, history>>

Worker(w) ==
  \/ LeaseDeadLetter(w) \/ LeaseReclaim(w) \/ LeaseClaim(w) \/ LeaseNone(w)
  \/ Complete(w) \/ (\E delay \in Delays : Retry(w, delay)) \/ DeadLetter(w)
  \/ LeaseLost(w)

Enqueue(r) ==
  \/ EnqueueFound(r) \/ EnqueueMissing(r)
  \/ \E delay \in Delays : EnqueueInsert(r, delay)

Operator(id) == Cancel(id) \/ \E delay \in Delays : Recover(id, delay)

Next ==
  \/ \E w \in Workers : Worker(w) \/ Crash(w)
  \/ \E r \in Requests : Enqueue(r)
  \/ \E id \in Ids : Operator(id)
  \/ Tick

Spec == Init /\ [][Next]_vars

-----------------------------------------------------------------------------
(* The queue implements the job lifecycle.                                  *)

Left(id) == IF attempt[id] < MaxAttempts THEN MaxAttempts - attempt[id] ELSE 0

\* What is left of a job's budget: a queued job that has spent its attempts
\* was put back by an operator and may be leased once more.
Budget(id) ==
  IF state[id] \in {"absent", "completed", "cancelled"} THEN 0
  ELSE IF state[id] = "queued" /\ Left(id) = 0 THEN 1 ELSE Left(id)

Lifecycle == INSTANCE JobLifecycle WITH
  holder <- [id \in Ids |-> IF state[id] = "leased" THEN leaseToken[id] ELSE 0],
  budget <- [id \in Ids |-> Budget(id)]

\* Every step of the three-statement lease, of the read-then-insert enqueue
\* and of the fenced updates is a step of the lifecycle, or changes nothing of it.
ImplementsLifecycle == Lifecycle!Spec
=============================================================================
