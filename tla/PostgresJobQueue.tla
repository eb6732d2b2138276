--------------------------- MODULE PostgresJobQueue ---------------------------
(***************************************************************************)
(* PostgresJobQueue (adapters/machine/src/index.ts): horizontally scaled   *)
(* workers on one PostgreSQL database.  enqueue() is one upsert; lease()   *)
(* is one transaction that reclaims the expired leases of the cell and     *)
(* takes the oldest available job FOR UPDATE SKIP LOCKED, so that each     *)
(* call is one step here: its row locks keep every other transaction off   *)
(* the rows it changes, and NOW() is the time the transaction began.       *)
(***************************************************************************)
EXTENDS SqlJobs

CONSTANT MaxPause   \* how far behind the clock a transaction's NOW() may be

Enqueue_NoConflictClause(r, delay) ==
  /\ \E id \in Ids \ Rows :
       /\ request' = [request EXCEPT ![id] = r]
       /\ state' = [state EXCEPT ![id] = "queued"]
       /\ availableAt' = [availableAt EXCEPT ![id] = now + delay]
       /\ answers' = [answers EXCEPT ![r] = @ \cup {id}]
  /\ UNCHANGED <<attempt, leaseToken, leaseExpiresAt, now, issued, pc, stamp,
                 lease, asked, recoveries, completions>>

\* INSERT ... ON CONFLICT (cell_id, idempotency_key) DO UPDATE ... RETURNING *
Enqueue(r, delay) ==
  LET found == {id \in Rows : SameKey(request[id], r)}
      answer(id) == answers' = [answers EXCEPT ![r] = @ \cup {id}]
  IN  /\ \/ /\ \E id \in found : answer(id)
            /\ UNCHANGED row
         \/ /\ found = {}
            /\ \E id \in Ids \ Rows :
                 /\ request' = [request EXCEPT ![id] = r]
                 /\ state' = [state EXCEPT ![id] = "queued"]
                 /\ availableAt' = [availableAt EXCEPT ![id] = now + delay]
                 /\ answer(id)
            /\ UNCHANGED <<attempt, leaseToken, leaseExpiresAt>>
      /\ UNCHANGED <<now, issued, pc, stamp, lease, asked, recoveries, completions>>

Reclaimed_AllLeased(w, at) ==
  {id \in Rows : request[id].cell = CellOf[w] /\ state[id] = "leased"}

\* The rows an expired lease gives back, whatever attempt they are on: the
\* UPDATE has no condition on the attempt budget.
Reclaimed(w, at) == ExpiredAt(w, at)

\* available_at of a row once the expired leases are given back
DueAt(w, at, id) == IF id \in Reclaimed(w, at) THEN at ELSE availableAt[id]

Candidates(w, at) ==
  {id \in Rows : /\ InScope(w, id)
                 /\ state[id] \in {"queued", "retry_scheduled"} \/ id \in Reclaimed(w, at)
                 /\ DueAt(w, at, id) <= at}

\* The first UPDATE of the transaction, with `claimed' (a set of at most one
\* job) leased by its second one.
LeaseRows(w, at, claimed) ==
  LET back == Reclaimed(w, at) \ claimed
      until == at + LeaseDuration
      column(old, given, taken) ==
        [id \in Ids |-> IF id \in claimed THEN taken
                        ELSE IF id \in back THEN given ELSE old[id]]
  IN  /\ state' = column(state, "retry_scheduled", "leased")
      /\ leaseToken' = column(leaseToken, 0, issued + 1)
      /\ leaseExpiresAt' = column(leaseExpiresAt, 0, until)
      /\ attempt' = [id \in Ids |-> IF id \in claimed THEN attempt[id] + 1 ELSE attempt[id]]
      /\ availableAt' = [id \in Ids |-> DueAt(w, at, id)]
      /\ UNCHANGED request

\* `free' are the candidates that no other transaction has locked: SKIP LOCKED
\* passes over the others, even when that transaction leaves them as they are.
LeaseTaken(w, at, free) ==
  /\ pc[w] = "idle"
  /\ \E id \in free :
       /\ \A j \in free :
            \/ DueAt(w, at, id) < DueAt(w, at, j)
            \/ DueAt(w, at, id) = DueAt(w, at, j) /\ id <= j
       /\ LeaseRows(w, at, {id})
       /\ lease' = [lease EXCEPT ![w] =
            [id |-> id, token |-> issued + 1, until |-> at + LeaseDuration]]
  /\ issued' = issued + 1
  /\ pc' = [pc EXCEPT ![w] = "work"]
  /\ UNCHANGED <<now, stamp, asked, history>>

LeaseNone(w, at, free) ==
  /\ pc[w] = "idle"
  /\ free = {}
  /\ LeaseRows(w, at, {})
  /\ UNCHANGED <<now, issued, pc, stamp, lease, asked, history>>

Tick ==
  /\ now' = now + 1
  /\ UNCHANGED <<row, issued, pc, stamp, lease, asked, history>>

\* the times at which a transaction that acts now may have begun
Began == {t \in 0..now : now - t <= MaxPause}

LeaseCall(w) ==
  \E at \in Began : \E free \in SUBSET Candidates(w, at) :
    LeaseTaken(w, at, free) \/ LeaseNone(w, at, free)

Worker(w) ==
  \/ Complete(w) \/ (\E delay \in Delays : Retry(w, delay)) \/ DeadLetter(w)
  \/ LeaseLost(w) \/ Crash(w)

Next ==
  \/ \E w \in Workers : LeaseCall(w) \/ Worker(w)
  \/ \E r \in Requests, delay \in Delays : Enqueue(r, delay)
  \/ \E id \in Ids : Cancel(id) \/ \E delay \in Delays : Recover(id, delay)
  \/ Tick

Spec == Init /\ [][Next]_vars
=============================================================================
