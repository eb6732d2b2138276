---------------------------- MODULE JobLifecycle ----------------------------
(***************************************************************************)
(* What a durable job queue promises, whatever store it keeps its jobs in  *)
(* (packages/jobs/src/index.ts): a job is handed to one lease at a time,   *)
(* only the holder of that lease settles it, every lease spends one        *)
(* attempt of a bounded budget, an exhausted job is dead-lettered instead  *)
(* of being leased again, and only retry_scheduled and dead_lettered jobs  *)
(* can be brought back, by an explicit recovery.                           *)
(***************************************************************************)
EXTENDS Naturals

CONSTANTS Ids,          \* identifiers a job may be given
          MaxAttempts   \* maxAttempts of every job

VARIABLES state,    \* state of each job, "absent" before it is enqueued
          holder,   \* the lease that owns a leased job, 0 for the others
          budget,   \* leases that may still be granted before a recovery
          issued    \* leases granted so far: the tokens are 1..issued

vars == <<state, holder, budget, issued>>

Init ==
  /\ state = [id \in Ids |-> "absent"]
  /\ holder = [id \in Ids |-> 0]
  /\ budget = [id \in Ids |-> 0]
  /\ issued = 0

Enqueue(id) ==
  /\ state[id] = "absent"
  /\ state' = [state EXCEPT ![id] = "queued"]
  /\ budget' = [budget EXCEPT ![id] = MaxAttempts]
  /\ UNCHANGED <<holder, issued>>

Claim(id) ==
  /\ state[id] \in {"queued", "retry_scheduled"}
  /\ budget[id] > 0
  /\ state' = [state EXCEPT ![id] = "leased"]
  /\ holder' = [holder EXCEPT ![id] = issued + 1]
  /\ budget' = [budget EXCEPT ![id] = @ - 1]
  /\ issued' = issued + 1

\* The holder of lease t reports its outcome.
Settle(id, t, outcome) ==
  /\ state[id] = "leased"
  /\ holder[id] = t
  /\ outcome = "retry_scheduled" => budget[id] > 0
  /\ state' = [state EXCEPT ![id] = outcome]
  /\ holder' = [holder EXCEPT ![id] = 0]
  /\ budget' = IF outcome = "completed" THEN [budget EXCEPT ![id] = 0] ELSE budget
  /\ UNCHANGED issued

\* The leases of some jobs lapse: their holders crashed or are too slow.
Lapse(jobs) ==
  /\ \A id \in jobs : state[id] = "leased"
  /\ state' = [id \in Ids |-> IF id \notin jobs THEN state[id]
                              ELSE IF budget[id] > 0 THEN "retry_scheduled"
                                                     ELSE "dead_lettered"]
  /\ holder' = [id \in Ids |-> IF id \in jobs THEN 0 ELSE holder[id]]
  /\ UNCHANGED <<budget, issued>>

Cancel(id) ==
  /\ state[id] # "absent"
  /\ state' = [state EXCEPT ![id] = "cancelled"]
  /\ holder' = [holder EXCEPT ![id] = 0]
  /\ budget' = [budget EXCEPT ![id] = 0]
  /\ UNCHANGED issued

\* An explicit recovery: an exhausted job gets one more lease, no more.
Recover(id) ==
  /\ state[id] \in {"retry_scheduled", "dead_lettered"}
  /\ state' = [state EXCEPT ![id] = "queued"]
  /\ budget' = [budget EXCEPT ![id] = IF @ = 0 THEN 1 ELSE @]
  /\ UNCHANGED <<holder, issued>>

Next ==
  \/ \E id \in Ids :
       \/ Enqueue(id) \/ Claim(id) \/ Cancel(id) \/ Recover(id)
       \/ \E outcome \in {"completed", "retry_scheduled", "dead_lettered"} :
            Settle(id, holder[id], outcome)
  \/ \E jobs \in SUBSET Ids : Lapse(jobs)

Spec == Init /\ [][Next]_vars
=============================================================================
