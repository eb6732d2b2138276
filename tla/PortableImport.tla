---------------------------- MODULE PortableImport ----------------------------
(***************************************************************************)
(* A creator's export is imported through the reference API                *)
(* (apps/reference-api/src/server.ts, POST /v1/imports, with the plan of    *)
(* packages/portability/src/index.ts): a checkpoint bound to one creator    *)
(* and one manifest, then every record in one transaction of the local      *)
(* repositories (adapters/local/src/index.ts).  Requests are repeated,      *)
(* overlap, lose their answers and crash.                                  *)
(***************************************************************************)
EXTENDS Naturals

CONSTANTS Records,    \* identifiers of the records manifests are made of
          Manifests,  \* sets of them; a manifest's checksum stands for its content
          Creators, Imports, Requests,
          Nobody,     \* no creator
          MaxAsked,   \* requests
          MaxTrouble  \* failures and crashes

VARIABLES records,     \* record -> [owner, import] that made it
          checkpoints, \* import -> its checkpoint: see NoCheckpoint
          requests, asked, trouble

importVars == <<records, checkpoints, requests, asked, trouble>>

NoRecord == [owner |-> Nobody, import |-> 0]
NoCheckpoint == [creator |-> Nobody, cursor |-> {}, state |-> "none", revision |-> 0]
Idle == [pc |-> "idle", creator |-> Nobody, manifest |-> {}, import |-> 0, seen |-> NoCheckpoint, told |-> FALSE]

ImportInit ==
  /\ records = [x \in Records |-> NoRecord] /\ checkpoints = [i \in Imports |-> NoCheckpoint]
  /\ requests = [r \in Requests |-> Idle] /\ asked = 0 /\ trouble = 0

Becomes(r, next) == requests' = [requests EXCEPT ![r] = next]
Refuses(r) == Becomes(r, Idle)
Confirms(r) == Becomes(r, [requests[r] EXCEPT !.pc = "idle", !.seen = NoCheckpoint, !.told = TRUE])
Trouble == trouble < MaxTrouble /\ trouble' = trouble + 1
Checkpoint(r) == checkpoints[requests[r].import]
Update(r, next) == checkpoints' = [checkpoints EXCEPT ![requests[r].import] = next]

-----------------------------------------------------------------------------
Ask(r, c, m, i) ==
  /\ requests[r].pc = "idle" /\ asked < MaxAsked /\ asked' = asked + 1
  /\ Becomes(r, [Idle EXCEPT !.pc = "asked", !.creator = c, !.manifest = m, !.import = i])
  /\ UNCHANGED <<records, checkpoints, trouble>>

\* requireMatchingCheckpoint
SameImport_Manifest(r, checkpoint) == checkpoint.cursor = requests[r].manifest
SameImport(r, checkpoint) == checkpoint.creator = requests[r].creator /\ checkpoint.cursor = requests[r].manifest
LookUp(r) ==
  LET existing == Checkpoint(r)
  IN /\ requests[r].pc = "asked"
     /\ IF existing # NoCheckpoint /\ ~SameImport(r, existing) THEN Refuses(r)
        ELSE IF existing.state = "completed" THEN Confirms(r)
        ELSE Becomes(r, [requests[r] EXCEPT !.pc = "plan", !.seen = existing])
     /\ UNCHANGED <<records, checkpoints, asked, trouble>>
\* planCreatorImport: no identifier may be taken.  A plan with conflicts, and a dry run, is answered as it is.
Plan(r) ==
  /\ requests[r].pc = "plan"
  /\ \/ Refuses(r)
     \/ (\A x \in requests[r].manifest : records[x] = NoRecord) /\ Becomes(r, [requests[r] EXCEPT !.pc = "claim"])
  /\ UNCHANGED <<records, checkpoints, asked, trouble>>
\* Create answers with the checkpoint another request made under the key.
Claim(r) ==
  LET known == requests[r].seen
      made == [creator |-> requests[r].creator, cursor |-> requests[r].manifest, state |-> "planned", revision |-> 1]
      checkpoint == IF known # NoCheckpoint THEN known ELSE IF Checkpoint(r) # NoCheckpoint THEN Checkpoint(r) ELSE made
  IN /\ requests[r].pc = "claim"
     /\ IF Checkpoint(r) = NoCheckpoint THEN Update(r, made) ELSE UNCHANGED checkpoints
     /\ IF SameImport(r, checkpoint) THEN Becomes(r, [requests[r] EXCEPT !.pc = "start", !.seen = checkpoint]) ELSE Refuses(r)
     /\ UNCHANGED <<records, asked, trouble>>
Fresh_Any(r) == TRUE
Fresh(r) == Checkpoint(r).revision = requests[r].seen.revision
Moved(r, state) == [requests[r].seen EXCEPT !.state = state, !.revision = Checkpoint(r).revision + 1]
Start(r) ==
  /\ requests[r].pc = "start"
  /\ IF Fresh(r) THEN Update(r, Moved(r, "running")) /\ Becomes(r, [requests[r] EXCEPT !.pc = "running", !.seen = Moved(r, "running")])
     ELSE Refuses(r) /\ UNCHANGED checkpoints
  /\ UNCHANGED <<records, asked, trouble>>
\* One transaction: every record, created under a key of the import, then the checkpoint.
Creatable_Unowned(r) == TRUE
Creatable(r) == \A x \in requests[r].manifest : records[x] = NoRecord \/ records[x].import = requests[r].import
Commits(r) == Creatable(r) /\ Fresh(r)
Commit(r) ==
  /\ requests[r].pc = "running"
  /\ \/ /\ Commits(r) /\ Update(r, Moved(r, "completed"))
        /\ records' = [x \in Records |-> IF x \in requests[r].manifest THEN [owner |-> requests[r].creator, import |-> requests[r].import] ELSE records[x]]
        /\ \/ Confirms(r) /\ UNCHANGED trouble
           \/ Becomes(r, [requests[r] EXCEPT !.pc = "failing"]) /\ Trouble
     \/ /\ IF Commits(r) THEN Trouble ELSE UNCHANGED trouble
        /\ Becomes(r, [requests[r] EXCEPT !.pc = "failing"]) /\ UNCHANGED <<records, checkpoints>>
  /\ UNCHANGED asked
\* The catch: it may have been committed, by this request or another; what failed is marked.
Catch(r) ==
  /\ requests[r].pc = "failing"
  /\ IF Checkpoint(r).state = "completed" THEN (IF SameImport(r, Checkpoint(r)) THEN Confirms(r) ELSE Refuses(r)) /\ UNCHANGED checkpoints
     ELSE Becomes(r, [requests[r] EXCEPT !.pc = "mark"]) /\ UNCHANGED checkpoints
  /\ UNCHANGED <<records, asked, trouble>>
Marked_Always(r) == TRUE
Marked(r) == Fresh(r)
Mark(r) ==
  /\ requests[r].pc = "mark" /\ Refuses(r)
  /\ IF Marked(r) THEN Update(r, Moved(r, "failed")) ELSE UNCHANGED checkpoints
  /\ UNCHANGED <<records, asked, trouble>>
Crash(r) == requests[r].pc # "idle" /\ Trouble /\ Becomes(r, Idle) /\ UNCHANGED <<records, checkpoints, asked>>

ImportNext ==
  \E r \in Requests :
    \/ \E c \in Creators, m \in Manifests, i \in Imports : Ask(r, c, m, i)
    \/ LookUp(r) \/ Plan(r) \/ Claim(r) \/ Start(r) \/ Commit(r) \/ Catch(r) \/ Mark(r) \/ Crash(r)
ImportSpec == ImportInit /\ [][ImportNext]_importVars

-----------------------------------------------------------------------------
\* Types, and the counters within their bounds.
ImportTypeOK ==
  /\ \A x \in Records : records[x].owner \in Creators \cup {Nobody}
  /\ \A i \in Imports : checkpoints[i].state \in {"none", "planned", "running", "completed", "failed"} /\ checkpoints[i].revision \in Nat
  /\ \A r \in Requests : requests[r].pc \in {"idle", "asked", "plan", "claim", "start", "running", "failing", "mark"}
  /\ asked \in 0..MaxAsked /\ trouble \in 0..MaxTrouble

(* The records of an import come all together, for its creator, and are    *)
(* there when its checkpoint is completed, whatever requests ran beside it  *)
(* or died (the transaction of the import).                                *)
WholeOrNothing ==
  \A i \in Imports :
    LET made == {x \in Records : records[x].import = i}
    IN /\ made # {} => made = checkpoints[i].cursor /\ \A x \in made : records[x].owner = checkpoints[i].creator
       /\ checkpoints[i].state = "completed" => made # {}

(* A request told that the import is done finds that manifest imported for   *)
(* that creator, by itself or under the same identifier before.             *)
ToldTrue ==
  \A r \in Requests : requests[r].told =>
    SameImport(r, Checkpoint(r)) /\ \A x \in requests[r].manifest : records[x].owner = requests[r].creator

(* An import identifier stays with its creator and manifest, and a request   *)
(* that failed does not mark failed what a later one completed.             *)
BoundToOne ==
  \A i \in Imports : checkpoints[i] # NoCheckpoint =>
    /\ checkpoints'[i].creator = checkpoints[i].creator /\ checkpoints'[i].cursor = checkpoints[i].cursor
    /\ checkpoints[i].state = "completed" => checkpoints'[i].state # "failed"
=============================================================================
