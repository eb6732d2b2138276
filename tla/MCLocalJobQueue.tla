--------------------------- MODULE MCLocalJobQueue ---------------------------
(* Small instances of LocalJobQueue: two worker processes on one file.      *)
EXTENDS LocalJobQueue

CONSTANTS MaxTime,        \* the clock stops here
          MaxRecoveries   \* recoveries of one job

\* one key enqueued by two callers under different types
OneKey == {[cell |-> "a", key |-> "k", type |-> "t"],
           [cell |-> "a", key |-> "k", type |-> "u"]}

SameCell == [w \in Workers |-> "a"]
AllTypes == [w \in Workers |-> {}]
OnlyT == [w \in Workers |-> IF w = "w1" THEN {"t"} ELSE {}]

MCNext ==
  \/ \E w \in Workers : Worker(w) \/ Crash(w)
  \/ \E r \in Requests : Enqueue(r)
  \/ \E id \in Ids : Cancel(id)
  \/ \E id \in Ids, delay \in Delays :
       recoveries[id] < MaxRecoveries /\ Recover(id, delay)
  \/ now < MaxTime /\ Tick

MCSpec == Init /\ [][MCNext]_vars

-----------------------------------------------------------------------------
(* Liveness needs time that never stops.  When the clock has reached        *)
(* MaxTime a tick moves every timestamp one unit into the past instead:     *)
(* only differences between timestamps matter, and those that fall off the  *)
(* window (to 0) are older than anything they are compared with.            *)

Earlier(t) == IF t = 0 THEN 0 ELSE t - 1

Slide ==
  /\ now = MaxTime
  /\ \A w \in Workers : pc[w] \in {"reclaim", "claim"} => now - stamp[w] < MaxPause
  /\ availableAt' = [id \in Ids |-> Earlier(availableAt[id])]
  /\ leaseExpiresAt' = [id \in Ids |-> Earlier(leaseExpiresAt[id])]
  /\ stamp' = [w \in Workers |-> Earlier(stamp[w])]
  /\ lease' = [w \in Workers |-> IF lease[w] = NoLease THEN NoLease
                                 ELSE [lease[w] EXCEPT !.until = Earlier(@)]]
  /\ UNCHANGED <<request, state, attempt, leaseToken, now, issued, pc, asked, history>>

LiveNext == MCNext \/ Slide

Answered(w) ==
  Complete(w) \/ (\E delay \in Delays : Retry(w, delay)) \/ DeadLetter(w) \/ LeaseLost(w)

\* The poll loops keep polling (setInterval), handlers end, time passes; a
\* worker may crash at any statement, but not before the same one for ever.
\* Nothing makes an operator cancel or recover, and no handler must succeed.
LiveSpec ==
  /\ Init /\ [][LiveNext]_vars
  /\ \A w \in Workers :
       /\ WF_vars(LeaseDeadLetter(w))
       /\ SF_vars(LeaseReclaim(w))
       /\ SF_vars(LeaseClaim(w) \/ LeaseNone(w))
       /\ WF_vars(Answered(w))
  /\ WF_vars(Tick \/ Slide)
=============================================================================
