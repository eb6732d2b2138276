------------------------- MODULE MCPostgresJobQueue -------------------------
(* Small instances of PostgresJobQueue.                                     *)
EXTENDS PostgresJobQueue

CONSTANTS MaxTime,        \* the clock stops here
          MaxLeases,      \* leases granted in one behaviour
          MaxRecoveries   \* recoveries of one job

OneRequest == {[cell |-> "a", key |-> "k", type |-> "t"]}
SameCell == [w \in Workers |-> "a"]
AllTypes == [w \in Workers |-> {}]

MCNext ==
  \/ \E w \in Workers : Worker(w) \/ (issued < MaxLeases /\ LeaseCall(w))
  \/ \E r \in Requests, delay \in Delays : Enqueue(r, delay)
  \/ \E id \in Ids : Cancel(id)
  \/ \E id \in Ids, delay \in Delays :
       recoveries[id] < MaxRecoveries /\ Recover(id, delay)
  \/ now < MaxTime /\ Tick

MCSpec == Init /\ [][MCNext]_vars
=============================================================================
