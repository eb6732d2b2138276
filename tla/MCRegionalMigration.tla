------------------------- MODULE MCRegionalMigration -------------------------
(* Small instances of RegionalMigration: two cells, two workers.            *)
EXTENDS RegionalMigration

CONSTANTS MaxTime,    \* the clock stops here
          MaxWrites   \* acknowledged writes of the creator

Commands == {"resume", "rollback", "retire"}

Steps == \E w \in Workers : Step(w) \/ Stop(w)

Clock == now < MaxTime /\ Tick

SerialWrite(c) ==
  /\ written < MaxWrites
  /\ WriteAdmitted(c) \/ WriteDone(c)

Writes == \E c \in Cells : SerialWrite(c)

-----------------------------------------------------------------------------
(* Any command at any time, several migrations of the creator at once, and   *)
(* operators who release the holds of the first home.                        *)

AnyNext ==
  \/ \E m \in Migrations, c \in Cells : Request(m, c)
  \/ Steps
  \/ \E w \in Workers, m \in Migrations, what \in Commands : Begin(w, m, what)
  \/ \E m \in Migrations : OperatorRelease(Home, m)
  \/ Writes
  \/ Clock

AnySpec == Init /\ [][AnyNext]_vars

-----------------------------------------------------------------------------
(* Operators who request the next migration when the last one has ended and  *)
(* no worker is still at it, and who decide once whether a migration is      *)
(* rolled back or retired.                                                   *)

Ended(m) == checkpoint[m].state \in {"rolled_back", "retired"}

NothingUnderWay ==
  /\ \A m \in Requested : Ended(m)
  /\ \A w \in Workers : pc[w] = "idle"

\* the odd migrations are rolled back, the even ones retired
Decided(m, what) ==
  CASE what = "resume" -> TRUE
    [] what = "rollback" -> m % 2 = 1
    [] what = "retire" -> m % 2 = 0

CarefulCommand ==
  \/ NothingUnderWay /\ \E m \in Migrations, c \in Cells : Request(m, c)
  \/ Steps
  \/ \E w \in Workers, m \in Migrations, what \in Commands :
       Decided(m, what) /\ Begin(w, m, what)

\* ... who open the new home for writes once the route names it,
Open(m) ==
  /\ m \in Requested
  /\ route.home = checkpoint[m].destination
  /\ OperatorRelease(route.home, m)

\* ... and a creator who writes all the while, to either cell.
CarefulNext == CarefulCommand \/ (\E m \in Migrations : Open(m)) \/ Writes \/ Clock

CarefulSpec == Init /\ [][CarefulNext]_vars

-----------------------------------------------------------------------------
(* The resume command is delivered again and again (SQS), a call that can    *)
(* succeed is made, and a worker is interrupted only finitely often.         *)

Resume(w) == \E m \in Migrations : Begin(w, m, "resume")

\* the command has nothing left to do, or its call throws
GivesUp(w) == Stop(w) /\ ~ENABLED Step(w)

LiveSpec ==
  /\ CarefulSpec
  /\ \A w \in Workers :
       WF_vars(Resume(w)) /\ WF_vars(Step(w)) /\ WF_vars(GivesUp(w))
  /\ <>[][\A w \in Workers : Stop(w) => GivesUp(w)]_vars
=============================================================================
