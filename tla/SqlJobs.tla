------------------------------- MODULE SqlJobs -------------------------------
(***************************************************************************)
(* The ubeeq_jobs table of the SQL queue adapters and the statements that  *)
(* the SQLite adapter (adapters/local/src/index.ts, LocalSqliteJobQueue)   *)
(* and the PostgreSQL adapter (adapters/machine/src/index.ts,              *)
(* PostgresJobQueue) run alike: settling a leased job, cancelling,         *)
(* recovering.  Enqueueing and leasing differ and are in LocalJobQueue and *)
(* PostgresJobQueue.                                                       *)
(*                                                                         *)
(* Workers are the poll loops that lease jobs of one cell and of the types *)
(* they handle (server.ts runNextJob, creator-asset-worker.ts runNext).  A *)
(* statement is atomic; anything may happen between two statements of a    *)
(* call, time passing included.  Time is an integer; 0 stands for NULL in  *)
(* lease_token and lease_expires_at.                                       *)
(***************************************************************************)
EXTENDS Naturals, FiniteSets

CONSTANTS Ids,            \* the job ids (random UUIDs, ordered as numbers)
          Requests,       \* what may be enqueued: [cell, key, type]
          NoRequest,      \* the request of an id that has no row
          Workers,        \* the poll loops, each in a process of its own
          NoLease,        \* lease of a worker that holds none
          CellOf,         \* the cell a worker is scoped to
          TypesOf,        \* the job types it leases; {} means every type
          MaxAttempts,    \* maxAttempts
          LeaseDuration,  \* leaseDurationSeconds
          Delays          \* delays of availableAt, runAt and retryAt

ASSUME SqlJobsAssumption ==
  /\ Ids \subseteq Nat
  /\ NoRequest \notin Requests
  /\ MaxAttempts \in Nat \ {0}
  /\ LeaseDuration \in Nat \ {0}
  /\ Delays \subseteq Nat

Lease == [id : Ids, token : Nat, until : Nat]

ASSUME NoLeaseAssumption == NoLease \notin Lease

VARIABLES
  \* the table, by id
  request,         \* cell_id, idempotency_key, type
  state, attempt,
  availableAt,     \* available_at
  leaseToken,      \* lease_token
  leaseExpiresAt,  \* lease_expires_at
  \* the processes
  now,             \* the clock
  issued,          \* lease tokens drawn so far
  pc, stamp,       \* where a worker is, and the timestamp its call took
  lease,           \* the JobLease a worker was handed
  asked,           \* a request that was read as absent and is not inserted yet
  \* history, for the properties
  answers,         \* ids returned for each request
  recoveries,      \* successful recover() calls per job
  completions      \* successful complete() calls per job

row == <<request, state, attempt, availableAt, leaseToken, leaseExpiresAt>>
history == <<answers, recoveries, completions>>
vars == <<row, now, issued, pc, stamp, lease, asked, history>>

JobState == {"queued", "leased", "completed", "retry_scheduled",
             "dead_lettered", "cancelled"}

Rows == {id \in Ids : request[id] # NoRequest}
SameKey(r, s) == r.cell = s.cell /\ r.key = s.key

Init ==
  /\ request = [id \in Ids |-> NoRequest]
  /\ state = [id \in Ids |-> "absent"]
  /\ attempt = [id \in Ids |-> 0]
  /\ availableAt = [id \in Ids |-> 0]
  /\ leaseToken = [id \in Ids |-> 0]
  /\ leaseExpiresAt = [id \in Ids |-> 0]
  /\ now = 1
  /\ issued = 0
  /\ pc = [w \in Workers |-> "idle"]
  /\ stamp = [w \in Workers |-> 0]
  /\ lease = [w \in Workers |-> NoLease]
  /\ asked = {}
  /\ answers = [r \in Requests |-> {}]
  /\ recoveries = [id \in Ids |-> 0]
  /\ completions = [id \in Ids |-> 0]

-----------------------------------------------------------------------------
(* Settling a leased job: UPDATE ... WHERE id = ? AND state = 'leased' AND  *)
(* lease_token = ? AND lease_expires_at > ?                                 *)

Holds_AnyToken(w) ==
  LET id == lease[w].id IN state[id] = "leased" /\ leaseExpiresAt[id] > now

Holds(w) ==
  LET id == lease[w].id
  IN  /\ state[id] = "leased"
      /\ leaseToken[id] = lease[w].token
      /\ leaseExpiresAt[id] > now

\* The worker is done with its lease, whatever the database said.
Release(w) ==
  /\ pc' = [pc EXCEPT ![w] = "idle"]
  /\ lease' = [lease EXCEPT ![w] = NoLease]
  /\ UNCHANGED <<stamp, now, issued, asked, answers, recoveries>>

Settle(w, outcome) ==
  LET id == lease[w].id
  IN  /\ pc[w] = "work"
      /\ Holds(w)
      /\ state' = [state EXCEPT ![id] = outcome]
      /\ leaseToken' = [leaseToken EXCEPT ![id] = 0]
      /\ leaseExpiresAt' = [leaseExpiresAt EXCEPT ![id] = 0]
      /\ UNCHANGED <<request, attempt>>
      /\ Release(w)

Complete(w) ==
  /\ Settle(w, "completed")
  /\ completions' = [completions EXCEPT ![lease[w].id] = @ + 1]
  /\ UNCHANGED availableAt

Exhausted_OffByOne(id) == attempt[id] > MaxAttempts

Exhausted(id) == attempt[id] >= MaxAttempts

\* A retry of an exhausted job dead-letters it and leaves available_at alone.
Retry(w, delay) ==
  LET id == lease[w].id
  IN  /\ Settle(w, IF Exhausted(id) THEN "dead_lettered" ELSE "retry_scheduled")
      /\ availableAt' = IF Exhausted(id) THEN availableAt
                        ELSE [availableAt EXCEPT ![id] = now + delay]
      /\ UNCHANGED completions

DeadLetter(w) ==
  /\ Settle(w, "dead_lettered")
  /\ UNCHANGED <<availableAt, completions>>

\* "Job lease is no longer valid.": the statement changed no row.
LeaseLost(w) ==
  /\ pc[w] = "work"
  /\ ~Holds(w)
  /\ Release(w)
  /\ UNCHANGED <<row, completions>>

\* The process of a worker dies, between statements or while it works.
Crash(w) ==
  /\ pc[w] # "idle"
  /\ Release(w)
  /\ UNCHANGED <<row, completions>>

-----------------------------------------------------------------------------
(* Operators and schedulers.                                                *)

Cancel_MissingRow(id) ==
  /\ state' = [state EXCEPT ![id] = "cancelled"]
  /\ UNCHANGED <<request, attempt, availableAt, leaseToken, leaseExpiresAt,
                 now, issued, pc, stamp, lease, asked, history>>

\* cancel(id) and cancelSchedule(cell, key): whatever the state, and without
\* touching the lease columns.
Cancel(id) ==
  /\ id \in Rows
  /\ state' = [state EXCEPT ![id] = "cancelled"]
  /\ UNCHANGED <<request, attempt, availableAt, leaseToken, leaseExpiresAt,
                 now, issued, pc, stamp, lease, asked, history>>

Recover_AnyState(id, delay) ==
  /\ id \in Rows
  /\ state' = [state EXCEPT ![id] = "queued"]
  /\ availableAt' = [availableAt EXCEPT ![id] = now + delay]
  /\ leaseToken' = [leaseToken EXCEPT ![id] = 0]
  /\ leaseExpiresAt' = [leaseExpiresAt EXCEPT ![id] = 0]
  /\ recoveries' = [recoveries EXCEPT ![id] = @ + 1]
  /\ UNCHANGED <<request, attempt, now, issued, pc, stamp, lease, asked,
                 answers, completions>>

Recover(id, delay) ==
  /\ state[id] \in {"retry_scheduled", "dead_lettered"}
  /\ state' = [state EXCEPT ![id] = "queued"]
  /\ availableAt' = [availableAt EXCEPT ![id] = now + delay]
  /\ leaseToken' = [leaseToken EXCEPT ![id] = 0]
  /\ leaseExpiresAt' = [leaseExpiresAt EXCEPT ![id] = 0]
  /\ recoveries' = [recoveries EXCEPT ![id] = @ + 1]
  /\ UNCHANGED <<request, attempt, now, issued, pc, stamp, lease, asked,
                 answers, completions>>

-----------------------------------------------------------------------------
(* Leasing: the parts both adapters share.                                  *)

InScope_AnyType(w, id) == id \in Rows /\ request[id].cell = CellOf[w]

\* cell_id = ? and the optional type filter
InScope(w, id) ==
  /\ id \in Rows
  /\ request[id].cell = CellOf[w]
  /\ TypesOf[w] = {} \/ request[id].type \in TypesOf[w]

\* leased and expired at t, in the worker's cell (no type filter here)
ExpiredAt(w, t) ==
  {id \in Rows : /\ request[id].cell = CellOf[w]
                 /\ state[id] = "leased"
                 /\ leaseExpiresAt[id] <= t}

Leasable(w, t) ==
  {id \in Rows : /\ InScope(w, id)
                 /\ state[id] \in {"queued", "retry_scheduled"}
                 /\ availableAt[id] <= t}

\* ORDER BY available_at, id
Before(i, j) ==
  \/ availableAt[i] < availableAt[j]
  \/ availableAt[i] = availableAt[j] /\ i <= j

-----------------------------------------------------------------------------
(* Properties.                                                              *)

TypeOK ==
  /\ request \in [Ids -> Requests \cup {NoRequest}]
  /\ state \in [Ids -> JobState \cup {"absent"}]
  /\ \A id \in Ids : state[id] = "absent" <=> request[id] = NoRequest
  /\ attempt \in [Ids -> Nat]
  /\ availableAt \in [Ids -> Nat]
  /\ leaseToken \in [Ids -> Nat]
  /\ leaseExpiresAt \in [Ids -> Nat]
  /\ now \in Nat
  /\ issued \in Nat
  /\ pc \in [Workers -> {"idle", "reclaim", "claim", "work"}]
  /\ stamp \in [Workers -> Nat]
  /\ lease \in [Workers -> Lease \cup {NoLease}]
  /\ \A w \in Workers : pc[w] = "work" <=> lease[w] # NoLease
  /\ asked \subseteq Requests
  /\ answers \in [Requests -> SUBSET Ids]
  /\ recoveries \in [Ids -> Nat]
  /\ completions \in [Ids -> Nat]

Live(w) == pc[w] = "work" /\ lease[w].until > now

\* While the lease a worker was handed has not run out, nobody can take the
\* job from it, and nobody but it can settle the job: the row still carries
\* its token, unless the job was cancelled (transition() and lease() fencing).
LiveLeaseKept ==
  \A w \in Workers : Live(w) =>
    LET id == lease[w].id
    IN  \/ state[id] = "leased" /\ leaseToken[id] = lease[w].token
        \/ state[id] = "cancelled"

\* Two workers never work on the same job under leases that are both alive:
\* a slow worker and the one that took its job over are never both entitled.
LiveLeasesDisjoint ==
  \A v, w \in Workers :
    v # w /\ Live(v) /\ Live(w) => lease[v].id # lease[w].id

\* A worker is handed only jobs of its own cell and of the types it asked for.
CellIsolation ==
  \A w \in Workers : pc[w] = "work" =>
    LET r == request[lease[w].id]
    IN  /\ r # NoRequest
        /\ r.cell = CellOf[w]
        /\ TypesOf[w] # {} => r.type \in TypesOf[w]

\* "bounded retries" (packages/jobs/README.md): crashed and reported attempts
\* together never exceed maxAttempts, but for one more per explicit recovery.
AttemptsBounded ==
  \A id \in Ids : attempt[id] <= MaxAttempts + recoveries[id]

\* Through crashes, lapses, recoveries and late answers a job is reported
\* complete to at most one worker, and a completed job is never run again.
CompletedOnce ==
  \A id \in Ids :
    /\ completions[id] <= 1
    /\ completions[id] = 1 => state[id] \in {"completed", "cancelled"}

\* Every caller that enqueues the same key in the same cell is answered with
\* the same job, whichever process inserted it and whatever became of it.
EnqueueIdempotent ==
  \A r, s \in Requests : SameKey(r, s) =>
    \A i \in answers[r], j \in answers[s] : i = j

\* A cancelled job stays cancelled and a completed one can only be cancelled:
\* neither a recovery nor a late worker revives it ("Never revive
\* cancellation, completion or an active lease", packages/jobs/src/index.ts).
NoneRevived ==
  \A id \in Ids :
    /\ state[id] = "cancelled" => state'[id] = "cancelled"
    /\ state[id] = "completed" => state'[id] \in {"completed", "cancelled"}
NeverRevived == [][NoneRevived]_vars

Settled(id) == state[id] \in {"completed", "dead_lettered", "cancelled"}

\* Every job that was enqueued is eventually completed, dead-lettered or
\* cancelled: no job is leased, lapsed and retried for ever.
JobsSettle == \A id \in Ids : state[id] = "queued" ~> Settled(id)
=============================================================================
