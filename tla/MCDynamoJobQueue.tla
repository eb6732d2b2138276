-------------------------- MODULE MCDynamoJobQueue --------------------------
(* Small instances of DynamoJobQueue.                                       *)
EXTENDS DynamoJobQueue

CONSTANTS MaxTime,        \* the clock stops here
          MaxRevision,    \* an item cancelled over and over stops here
          MaxRecoveries   \* recoveries of one job

OneRequest == {[cell |-> "a", key |-> "k", type |-> "t"]}
\* two callers race for one key, under different types
OneKey == {[cell |-> "a", key |-> "k", type |-> "t"],
           [cell |-> "a", key |-> "k", type |-> "u"]}
TwoKeys == {[cell |-> "a", key |-> "k", type |-> "t"],
            [cell |-> "a", key |-> "l", type |-> "t"]}
SameCell == [w \in Workers |-> "a"]
AllTypes == [w \in Workers |-> {}]
ByKey == [r \in Requests |-> IF r.key = "k" THEN 1 ELSE 2]

MCNext ==
  \/ \E w \in Workers : Worker(w) \/ AwsCrash(w)
  \/ \E r \in Requests : Enqueue(r)
  \/ \E id \in Ids : revision[id] < MaxRevision /\ AwsCancel(id)
  \/ \E id \in Ids, delay \in Delays :
       recoveries[id] < MaxRecoveries /\ AwsRecover(id, delay)
  \/ now < MaxTime /\ Tick

MCSpec == DynamoInit /\ [][MCNext]_dynamoVars

-----------------------------------------------------------------------------
(* Time without end, as in MCLocalJobQueue.                                 *)

Earlier(t) == IF t = 0 THEN 0 ELSE t - 1

Slide ==
  /\ now = MaxTime
  /\ availableAt' = [id \in Ids |-> Earlier(availableAt[id])]
  /\ leaseExpiresAt' = [id \in Ids |-> Earlier(leaseExpiresAt[id])]
  /\ stamp' = [w \in Workers |-> Earlier(stamp[w])]
  /\ lease' = [w \in Workers |-> IF lease[w] = NoLease THEN NoLease
                                 ELSE [lease[w] EXCEPT !.until = Earlier(@)]]
  /\ UNCHANGED <<request, state, attempt, leaseToken, now, issued, pc, asked,
                 history, revision, seen>>

Answered(w) ==
  \/ AwsComplete(w) \/ (\E delay \in Delays : AwsRetry(w, delay))
  \/ AwsDeadLetter(w) \/ AwsLeaseLost(w)

\* A call that reads the whole page: the index catches up again and again.
FullList(w) == LeaseList(w) /\ {c.id : c \in seen'[w]} = Page

\* The poll loops keep polling and their handlers end; a worker may crash
\* again and again, but not for ever before it writes to a job it may take.
LiveSpec ==
  /\ DynamoInit /\ [][MCNext \/ Slide]_dynamoVars
  /\ \A w \in Workers :
       /\ SF_dynamoVars(FullList(w))
       /\ SF_dynamoVars(LeaseDeadLetter(w) \/ LeaseClaim(w))
       /\ WF_dynamoVars(LeasePass(w) \/ LeaseNone(w) \/ Answered(w))
  /\ WF_dynamoVars(Tick \/ Slide)
=============================================================================
