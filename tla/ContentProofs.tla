----------------------------- MODULE ContentProofs -----------------------------
(***************************************************************************)
(* Theorems about what leaves the library and what enters it, each         *)
(* component by itself and for any values of its constants: the import of  *)
(* a creator's export, with any number of requests, failures and crashes;  *)
(* the copies of a Work elsewhere; the galleries elsewhere that follow a   *)
(* collection; and of the media of Works in between, with the jobs that    *)
(* process them.                                                           *)
(***************************************************************************)
EXTENDS PortableImport, PublicationCopies, CollectionDestinations, WorkAssets,
        FiniteSetTheorems, SequenceTheorems, FunctionTheorems, TLAPS

-----------------------------------------------------------------------------
(* A creator's export is imported.                                          *)

\* Every manifest names a record (an export holds its creator's), and identifiers of
\* imports are not the mark of a record that no import made.
ImportAssumption ==
  /\ 0 \notin Imports /\ Manifests \subseteq SUBSET Records /\ {} \notin Manifests
  /\ MaxAsked \in Nat /\ MaxTrouble \in Nat

Records0 == [owner : Creators \cup {Nobody}, import : Imports \cup {0}]
CheckpointRecord == [creator : Creators \cup {Nobody}, cursor : SUBSET Records,
                     state : {"none", "planned", "running", "completed", "failed"}, revision : Nat]
Stages == {"idle", "asked", "plan", "claim", "start", "running", "failing", "mark"}
RequestRecord == [pc : Stages, creator : Creators \cup {Nobody}, manifest : SUBSET Records,
                  import : Imports \cup {0}, seen : CheckpointRecord, told : BOOLEAN]

ImportType ==
  /\ records \in [Records -> Records0]
  /\ checkpoints \in [Imports -> CheckpointRecord]
  /\ requests \in [Requests -> RequestRecord]
  /\ asked \in 0..MaxAsked /\ trouble \in 0..MaxTrouble
  /\ \A i \in Imports : checkpoints[i].state # "none" <=> checkpoints[i] # NoCheckpoint

MadeBy(i) == {x \in Records : records[x].import = i}

\* What a request knows of its import: who asked for what, the version of the checkpoint it
\* has seen (a revision names one version), and that what it runs was running when it began.
RequestOK(q) ==
  /\ q.pc # "idle" \/ q.told => q.import \in Imports /\ q.creator \in Creators /\ q.manifest \in Manifests
  /\ q.pc \in {"plan", "claim", "start", "running", "failing", "mark"} /\ q.seen # NoCheckpoint =>
       LET now == checkpoints[q.import]
       IN /\ q.seen.creator = q.creator /\ q.seen.cursor = q.manifest /\ q.seen.state # "none"
          /\ now # NoCheckpoint /\ now.creator = q.creator /\ now.cursor = q.manifest
          /\ q.seen.revision <= now.revision /\ (q.seen.revision = now.revision => q.seen = now)
  /\ q.pc \in {"start", "running", "failing", "mark"} => q.seen # NoCheckpoint
  /\ q.pc \in {"running", "failing", "mark"} => q.seen.state = "running"
  /\ q.told => /\ q.pc = "idle" /\ checkpoints[q.import] # NoCheckpoint
               /\ checkpoints[q.import].creator = q.creator /\ checkpoints[q.import].cursor = q.manifest
               /\ MadeBy(q.import) # {}

RequestsOK == \A r \in Requests : RequestOK(requests[r])
ImportInv == ImportType /\ WholeOrNothing /\ RequestsOK

LEMMA ImportStart ==
  ASSUME ImportAssumption, ImportInit
  PROVE  ImportInv
  <1> USE DEF ImportAssumption, ImportInit
  <1>1. NoCheckpoint \in CheckpointRecord /\ NoRecord \in Records0 /\ NoCheckpoint.state = "none"
    BY DEF NoCheckpoint, CheckpointRecord, NoRecord, Records0
  <1>2. Idle \in RequestRecord /\ Idle.pc = "idle" /\ ~Idle.told
    BY <1>1 DEF Idle, RequestRecord, Stages
  <1>3. ImportType
    BY <1>1, <1>2 DEF ImportType
  <1>4. WholeOrNothing
    BY <1>1 DEF WholeOrNothing, NoRecord
  <1>5. RequestsOK
    BY <1>2 DEF RequestsOK, RequestOK
  <1>6. QED
    BY <1>3, <1>4, <1>5 DEF ImportInv

\* A checkpoint goes on: it is made, or its revision rises and it keeps whose and of what it is.
GoesOn(i) ==
  /\ checkpoints[i] # NoCheckpoint =>
       /\ checkpoints'[i].creator = checkpoints[i].creator /\ checkpoints'[i].cursor = checkpoints[i].cursor
       /\ checkpoints'[i] = checkpoints[i] \/ checkpoints'[i].revision > checkpoints[i].revision
  /\ checkpoints'[i] = NoCheckpoint => checkpoints[i] = NoCheckpoint
  /\ MadeBy(i) # {} => MadeBy(i)' # {}

\* Requests that do not move stay right while checkpoints go on.
LEMMA OthersStay ==
  ASSUME ImportAssumption, ImportInv, NEW q \in RequestRecord, RequestOK(q),
         ImportType', \A i \in Imports : GoesOn(i)
  PROVE  RequestOK(q)'
  <1>1. q.pc # "idle" \/ q.told => q.import \in Imports
    BY DEF RequestOK
  <1>2. ASSUME q.import \in Imports
        PROVE  checkpoints[q.import] \in CheckpointRecord /\ checkpoints'[q.import] \in CheckpointRecord /\ GoesOn(q.import)
    BY <1>2 DEF ImportInv, ImportType
  <1>3. q.seen \in CheckpointRecord /\ q.pc \in Stages
    BY DEF RequestRecord
  <1>4. q.pc \in {"plan", "claim", "start", "running", "failing", "mark"} /\ q.seen # NoCheckpoint =>
          LET now == checkpoints'[q.import]
          IN /\ now # NoCheckpoint /\ now.creator = q.creator /\ now.cursor = q.manifest
             /\ q.seen.revision <= now.revision /\ (q.seen.revision = now.revision => q.seen = now)
    BY <1>1, <1>2, <1>3 DEF RequestOK, GoesOn, CheckpointRecord
  <1>5. q.told => /\ checkpoints'[q.import] # NoCheckpoint
                  /\ checkpoints'[q.import].creator = q.creator /\ checkpoints'[q.import].cursor = q.manifest
                  /\ MadeBy(q.import)' # {}
    BY <1>1, <1>2 DEF RequestOK, GoesOn
  <1>6. QED
    BY <1>4, <1>5 DEF RequestOK

\* A step of one request: the checkpoints go on, and what the request becomes is right.
LEMMA RequestMoves ==
  ASSUME ImportAssumption, ImportInv, NEW r \in Requests, NEW q \in RequestRecord,
         requests' = [requests EXCEPT ![r] = q],
         records' \in [Records -> Records0], checkpoints' \in [Imports -> CheckpointRecord],
         asked' \in 0..MaxAsked, trouble' \in 0..MaxTrouble,
         \A i \in Imports : GoesOn(i) /\ (checkpoints'[i].state # "none" <=> checkpoints'[i] # NoCheckpoint),
         WholeOrNothing', RequestOK(q)'
  PROVE  ImportInv'
  <1>1. ImportType'
    BY DEF ImportInv, ImportType
  <1>2. ASSUME NEW s \in Requests PROVE RequestOK(requests[s])'
    <2>1. CASE s = r
      <3>1. requests'[s] = q
        BY <2>1 DEF ImportInv, ImportType
      <3>2. QED
        BY <3>1 DEF RequestOK
    <2>2. CASE s # r
      <3>1. PICK p \in RequestRecord : p = requests[s] /\ p = requests'[s]
        BY <2>2 DEF ImportInv, ImportType
      <3>2. RequestOK(p)
        BY <3>1 DEF ImportInv, RequestsOK
      <3>3. RequestOK(p)'
        BY <1>1, <3>2, OthersStay
      <3>4. QED
        BY <3>1, <3>3 DEF RequestOK
    <2>3. QED
      BY <2>1, <2>2
  <1>3. QED
    BY <1>1, <1>2 DEF ImportInv, RequestsOK

\* The records and the checkpoints stay as they are.
LEMMA NothingMade ==
  ASSUME ImportAssumption, ImportInv, UNCHANGED <<records, checkpoints>>
  PROVE  /\ records' \in [Records -> Records0] /\ checkpoints' \in [Imports -> CheckpointRecord]
         /\ \A i \in Imports : GoesOn(i) /\ (checkpoints'[i].state # "none" <=> checkpoints'[i] # NoCheckpoint)
         /\ WholeOrNothing'
  <1>1. \A i \in Imports : MadeBy(i)' = MadeBy(i)
    BY DEF MadeBy
  <1>2. WholeOrNothing'
    BY DEF ImportInv, WholeOrNothing
  <1>3. QED
    BY <1>1, <1>2 DEF ImportInv, ImportType, GoesOn

\* A request gives up: nothing is wrong about one that is idle and was told nothing.
LEMMA GivesUp ==
  ASSUME ImportAssumption
  PROVE  Idle \in RequestRecord /\ RequestOK(Idle)'
  <1>1. NoCheckpoint \in CheckpointRecord
    BY DEF NoCheckpoint, CheckpointRecord
  <1>2. QED
    BY <1>1 DEF Idle, RequestRecord, Stages, RequestOK

\* A step of a request that makes nothing.
LEMMA OnlyAsks ==
  ASSUME ImportAssumption, ImportInv, NEW r \in Requests, NEW q \in RequestRecord,
         Becomes(r, q), UNCHANGED <<records, checkpoints>>,
         asked' \in 0..MaxAsked, trouble' \in 0..MaxTrouble, RequestOK(q)'
  PROVE  ImportInv'
  BY NothingMade, RequestMoves DEF Becomes

LEMMA Looking ==
  ASSUME ImportAssumption, ImportInv, NEW r \in Requests,
         \/ \E c \in Creators, m \in Manifests, i \in Imports : Ask(r, c, m, i)
         \/ LookUp(r) \/ Plan(r) \/ Catch(r) \/ Crash(r)
  PROVE  ImportInv'
  <1>1. PICK q \in RequestRecord : q = requests[r] /\ RequestOK(q)
    BY DEF ImportInv, ImportType, RequestsOK
  <1>2. UNCHANGED <<records, checkpoints>> /\ asked' \in 0..MaxAsked /\ trouble' \in 0..MaxTrouble
    <2>1. asked \in 0..MaxAsked /\ trouble \in 0..MaxTrouble /\ MaxAsked \in Nat /\ MaxTrouble \in Nat
      BY DEF ImportInv, ImportType, ImportAssumption
    <2>2. /\ UNCHANGED <<records, checkpoints>>
          /\ asked' = asked \/ (asked < MaxAsked /\ asked' = asked + 1)
          /\ trouble' = trouble \/ (trouble < MaxTrouble /\ trouble' = trouble + 1)
      BY DEF Ask, LookUp, Plan, Catch, Crash, Trouble
    <2>3. QED
      BY <2>1, <2>2
  <1>3. Refuses(r) => ImportInv'
    BY <1>2, GivesUp, OnlyAsks DEF Refuses
  <1>4. ASSUME q.pc \in {"asked", "failing"}, Checkpoint(r).state = "completed", SameImport(r, Checkpoint(r)), Confirms(r)
        PROVE  ImportInv'
    <2> DEFINE new == [q EXCEPT !.pc = "idle", !.seen = NoCheckpoint, !.told = TRUE]
    <2>1. /\ new \in RequestRecord /\ new.pc = "idle" /\ new.import = q.import /\ new.creator = q.creator
          /\ new.manifest = q.manifest
      BY <1>1 DEF RequestRecord, Stages, NoCheckpoint, CheckpointRecord
    <2>2. /\ q.import \in Imports /\ q.creator \in Creators /\ q.manifest \in Manifests
          /\ checkpoints[q.import] # NoCheckpoint /\ MadeBy(q.import) # {}
          /\ checkpoints[q.import].creator = q.creator /\ checkpoints[q.import].cursor = q.manifest
      BY <1>1, <1>4 DEF RequestOK, ImportInv, ImportType, WholeOrNothing, Checkpoint, SameImport, MadeBy
    <2>3. RequestOK(new)'
      BY <1>2, <2>1, <2>2 DEF RequestOK, MadeBy
    <2>4. Becomes(r, new)
      BY <1>1, <1>4 DEF Confirms
    <2> HIDE DEF new
    <2>5. QED
      BY <1>2, <2>1, <2>3, <2>4, OnlyAsks
  <1>5. CASE \E c \in Creators, m \in Manifests, i \in Imports : Ask(r, c, m, i)
    <2>1. PICK c \in Creators, m \in Manifests, i \in Imports : Ask(r, c, m, i)
      BY <1>5
    <2> DEFINE new == [Idle EXCEPT !.pc = "asked", !.creator = c, !.manifest = m, !.import = i]
    <2>2. /\ new \in RequestRecord /\ new.pc = "asked" /\ new.told = FALSE /\ new.seen = NoCheckpoint
          /\ new.import = i /\ new.creator = c /\ new.manifest = m
      BY DEF Idle, RequestRecord, Stages, NoCheckpoint, CheckpointRecord, ImportAssumption
    <2>3. RequestOK(new)' /\ Becomes(r, new)
      BY <2>1, <2>2 DEF RequestOK, Ask
    <2> HIDE DEF new
    <2>4. QED
      BY <1>2, <2>2, <2>3, OnlyAsks
  <1>6. CASE LookUp(r)
    <2>1. q.pc = "asked" /\ q.import \in Imports
      BY <1>1, <1>6 DEF LookUp, RequestOK
    <2>2. CASE Checkpoint(r) # NoCheckpoint /\ ~SameImport(r, Checkpoint(r))
      BY <1>3, <1>6, <2>2 DEF LookUp
    <2>3. CASE Checkpoint(r).state = "completed" /\ SameImport(r, Checkpoint(r))
      BY <1>4, <1>6, <2>1, <2>3 DEF LookUp
    <2>4. CASE Checkpoint(r) = NoCheckpoint \/ (SameImport(r, Checkpoint(r)) /\ Checkpoint(r).state # "completed")
      <3>1. PICK now \in CheckpointRecord : now = checkpoints[q.import] /\ now = Checkpoint(r)
        BY <1>1, <2>1 DEF ImportInv, ImportType, Checkpoint
      <3> DEFINE new == [q EXCEPT !.pc = "plan", !.seen = now]
      <3>2. Becomes(r, new)
        BY <1>1, <1>6, <2>4, <3>1 DEF LookUp, NoCheckpoint
      <3>3. /\ new \in RequestRecord /\ new.pc = "plan" /\ new.seen = now /\ new.told = q.told
            /\ new.import = q.import /\ new.creator = q.creator /\ new.manifest = q.manifest
        BY DEF RequestRecord, Stages
      <3>4. now # NoCheckpoint => now.creator = q.creator /\ now.cursor = q.manifest /\ now.state # "none"
        BY <1>1, <2>1, <2>4, <3>1 DEF SameImport, ImportInv, ImportType
      <3> HIDE DEF new
      <3>5. now.revision <= now.revision
        BY DEF CheckpointRecord
      <3>6. ~q.told /\ q.creator \in Creators /\ q.manifest \in Manifests
        BY <1>1, <2>1 DEF RequestOK
      <3>7. RequestOK(new)'
        BY <1>2, <2>1, <3>1, <3>3, <3>4, <3>5, <3>6 DEF RequestOK
      <3>8. QED
        BY <1>2, <3>2, <3>3, <3>7, OnlyAsks
    <2>5. QED
      BY <2>2, <2>3, <2>4
  <1>7. CASE Plan(r)
    <2> DEFINE new == [q EXCEPT !.pc = "claim"]
    <2>1. q.pc = "plan" /\ (Refuses(r) \/ Becomes(r, new))
      BY <1>1, <1>7 DEF Plan
    <2>2. /\ new \in RequestRecord /\ new.pc = "claim" /\ new.seen = q.seen /\ new.told = q.told
          /\ new.import = q.import /\ new.creator = q.creator /\ new.manifest = q.manifest
      BY DEF RequestRecord, Stages
    <2>3. RequestOK(new)'
      BY <1>1, <1>2, <2>1, <2>2 DEF RequestOK
    <2> HIDE DEF new
    <2>4. QED
      BY <1>2, <1>3, <2>1, <2>2, <2>3, OnlyAsks
  <1>8. CASE Catch(r)
    <2> DEFINE new == [q EXCEPT !.pc = "mark"]
    <2>1. q.pc = "failing"
      BY <1>1, <1>8 DEF Catch
    <2>2. \/ Refuses(r) \/ Becomes(r, new)
          \/ Checkpoint(r).state = "completed" /\ SameImport(r, Checkpoint(r)) /\ Confirms(r)
      BY <1>1, <1>8 DEF Catch
    <2>3. /\ new \in RequestRecord /\ new.pc = "mark" /\ new.seen = q.seen /\ new.told = q.told
          /\ new.import = q.import /\ new.creator = q.creator /\ new.manifest = q.manifest
      BY DEF RequestRecord, Stages
    <2>4. RequestOK(new)'
      BY <1>1, <1>2, <2>1, <2>3 DEF RequestOK
    <2> HIDE DEF new
    <2>5. QED
      BY <1>2, <1>3, <1>4, <2>1, <2>2, <2>3, <2>4, OnlyAsks
  <1>9. CASE Crash(r)
    BY <1>3, <1>9 DEF Crash, Refuses
  <1>10. QED
    BY <1>5, <1>6, <1>7, <1>8, <1>9

\* A request writes its import's checkpoint, of the creator and manifest it asked for, and
\* perhaps, for them, the records of the import.
LEMMA Writes ==
  ASSUME ImportAssumption, ImportInv, NEW r \in Requests, NEW q \in RequestRecord, NEW next \in CheckpointRecord,
         q = requests[r], q.import \in Imports, q.creator \in Creators, q.manifest \in Manifests,
         NEW new \in RequestRecord, Becomes(r, new), RequestOK(new)', Update(r, next),
         asked' \in 0..MaxAsked, trouble' \in 0..MaxTrouble,
         next.creator = q.creator, next.cursor = q.manifest, next.state # "none",
         next.revision > Checkpoint(r).revision,
         Checkpoint(r) # NoCheckpoint => Checkpoint(r).creator = q.creator /\ Checkpoint(r).cursor = q.manifest,
         \/ records' = records /\ (next.state = "completed" => MadeBy(q.import) # {})
         \/ /\ Creatable(r)
            /\ records' = [x \in Records |-> IF x \in q.manifest THEN [owner |-> q.creator, import |-> q.import] ELSE records[x]]
  PROVE  ImportInv'
  <1> PICK i \in Imports : i = q.import
    OBVIOUS
  <1>1. checkpoints' = [checkpoints EXCEPT ![i] = next] /\ Checkpoint(r) = checkpoints[i]
    BY DEF Update, Checkpoint
  <1>2. /\ checkpoints' \in [Imports -> CheckpointRecord] /\ checkpoints'[i] = next
        /\ \A j \in Imports : j # i => checkpoints'[j] = checkpoints[j]
    BY <1>1 DEF ImportInv, ImportType
  <1>3. /\ q.manifest # {} /\ q.manifest \subseteq Records
    BY DEF ImportAssumption, RequestRecord
  <1>4. next # NoCheckpoint
    BY DEF NoCheckpoint
  <1>5. \A j \in Imports : j # i => MadeBy(j)' = MadeBy(j) /\ \A x \in MadeBy(j) : records'[x] = records[x]
    <2>1. ASSUME NEW j \in Imports, j # i, NEW x \in Records
          PROVE  /\ records'[x].import = j <=> records[x].import = j
                 /\ records[x].import = j => records'[x] = records[x]
      <3>1. CASE records' = records
        BY <3>1
      <3>2. CASE Creatable(r) /\ x \in q.manifest /\ records'[x] = [owner |-> q.creator, import |-> q.import]
        <4>1. records[x].import \in {0, i}
          BY <3>2 DEF Creatable, NoRecord
        <4>2. QED
          BY <2>1, <3>2, <4>1 DEF ImportAssumption
      <3>3. CASE records'[x] = records[x]
        BY <3>3
      <3>4. QED
        BY <3>1, <3>2, <3>3
    <2>2. QED
      BY <2>1 DEF MadeBy
  <1>6. MadeBy(i) # {} => /\ MadeBy(i) = q.manifest /\ \A x \in MadeBy(i) : records[x].owner = q.creator
    BY <1>1 DEF ImportInv, WholeOrNothing, MadeBy, NoCheckpoint
  <1>7. /\ MadeBy(i) # {} => MadeBy(i)' # {}
        /\ MadeBy(i)' # {} => MadeBy(i)' = q.manifest /\ \A x \in MadeBy(i)' : records'[x].owner = q.creator
        /\ next.state = "completed" => MadeBy(i)' # {}
    <2>1. CASE records' = records /\ (next.state = "completed" => MadeBy(q.import) # {})
      BY <2>1, <1>6 DEF MadeBy
    <2>2. CASE records' = [x \in Records |-> IF x \in q.manifest THEN [owner |-> q.creator, import |-> q.import] ELSE records[x]]
      <3>1. MadeBy(i)' = q.manifest
        <4>1. \A x \in Records : x \in q.manifest => records'[x].import = i
          BY <2>2
        <4>2. \A x \in Records : x \notin q.manifest => records'[x].import # i
          BY <2>2, <1>6 DEF MadeBy
        <4>3. QED
          BY <1>3, <4>1, <4>2 DEF MadeBy
      <3>2. \A x \in q.manifest : records'[x].owner = q.creator
        BY <2>2, <1>3
      <3>3. QED
        BY <1>3, <3>1, <3>2
    <2>3. QED
      BY <2>1, <2>2
  <1>8. WholeOrNothing'
    <2>1. ASSUME NEW j \in Imports, j # i
          PROVE  /\ MadeBy(j)' # {} => /\ MadeBy(j)' = checkpoints'[j].cursor
                                       /\ \A x \in MadeBy(j)' : records'[x].owner = checkpoints'[j].creator
                 /\ checkpoints'[j].state = "completed" => MadeBy(j)' # {}
      BY <2>1, <1>2, <1>5 DEF ImportInv, WholeOrNothing, MadeBy
    <2>2. \A j \in Imports :
            /\ MadeBy(j)' # {} => /\ MadeBy(j)' = checkpoints'[j].cursor
                                  /\ \A x \in MadeBy(j)' : records'[x].owner = checkpoints'[j].creator
            /\ checkpoints'[j].state = "completed" => MadeBy(j)' # {}
      BY <2>1, <1>2, <1>7
    <2>3. QED
      BY <2>2 DEF WholeOrNothing, MadeBy
  <1>9. records' \in [Records -> Records0]
    BY DEF ImportInv, ImportType, Records0
  <1>10. ASSUME NEW j \in Imports
         PROVE  GoesOn(j) /\ (checkpoints'[j].state # "none" <=> checkpoints'[j] # NoCheckpoint)
    <2>1. CASE j = i
      BY <2>1, <1>1, <1>2, <1>4, <1>7 DEF GoesOn
    <2>2. CASE j # i
      BY <2>2, <1>2, <1>5 DEF GoesOn, ImportInv, ImportType
    <2>3. QED
      BY <2>1, <2>2
  <1>11. QED
    BY <1>2, <1>8, <1>9, <1>10, RequestMoves DEF Becomes

LEMMA Writing ==
  ASSUME ImportAssumption, ImportInv, NEW r \in Requests,
         Claim(r) \/ Start(r) \/ Commit(r) \/ Mark(r)
  PROVE  ImportInv'
  <1>1. PICK q \in RequestRecord : q = requests[r] /\ RequestOK(q)
    BY DEF ImportInv, ImportType, RequestsOK
  <1>2. /\ q.pc # "idle" /\ ~q.told /\ q.import \in Imports /\ q.creator \in Creators /\ q.manifest \in Manifests
        /\ q.seen \in CheckpointRecord
    BY <1>1 DEF Claim, Start, Commit, Mark, RequestOK, RequestRecord
  <1>3. PICK now \in CheckpointRecord : now = Checkpoint(r) /\ now = checkpoints[q.import]
    BY <1>1, <1>2 DEF ImportInv, ImportType, Checkpoint
  <1>4. asked' \in 0..MaxAsked /\ trouble' \in 0..MaxTrouble
    <2>1. asked \in 0..MaxAsked /\ trouble \in 0..MaxTrouble /\ MaxTrouble \in Nat
      BY DEF ImportInv, ImportType, ImportAssumption
    <2>2. asked' = asked /\ (trouble' = trouble \/ (trouble < MaxTrouble /\ trouble' = trouble + 1))
      BY DEF Claim, Start, Commit, Mark, Trouble
    <2>3. QED
      BY <2>1, <2>2
  <1>5. Refuses(r) /\ UNCHANGED <<records, checkpoints>> => ImportInv'
    BY <1>4, GivesUp, OnlyAsks DEF Refuses
  \* What the request has seen is a version of the checkpoint as it is.
  <1>6. q.pc \in {"start", "running", "failing", "mark"} =>
          /\ now # NoCheckpoint /\ now.creator = q.creator /\ now.cursor = q.manifest
          /\ q.seen # NoCheckpoint /\ q.seen.creator = q.creator /\ q.seen.cursor = q.manifest
    BY <1>1, <1>3 DEF RequestOK
  <1> DEFINE moved(state) == [q.seen EXCEPT !.state = state, !.revision = now.revision + 1]
  <1>7. \A state \in {"running", "completed", "failed"} :
          /\ moved(state) \in CheckpointRecord /\ moved(state) = Moved(r, state)
          /\ moved(state).state = state /\ moved(state).revision > now.revision
          /\ moved(state).creator = q.seen.creator /\ moved(state).cursor = q.seen.cursor
    <2>1. now.revision \in Nat
      BY <1>3 DEF CheckpointRecord
    <2>2. now.revision + 1 \in Nat /\ now.revision + 1 > now.revision
      BY <2>1
    <2>3. \A state : moved(state) = Moved(r, state)
      BY <1>1, <1>3 DEF Moved
    <2>4. \A state \in {"running", "completed", "failed"} : moved(state) \in CheckpointRecord
      BY <1>2, <2>2 DEF CheckpointRecord
    <2>5. \A state : /\ moved(state).state = state /\ moved(state).revision = now.revision + 1
                     /\ moved(state).creator = q.seen.creator /\ moved(state).cursor = q.seen.cursor
      BY <1>2 DEF CheckpointRecord
    <2> HIDE DEF moved
    <2>6. QED
      BY <2>2, <2>3, <2>4, <2>5
  <1> HIDE DEF moved
  <1>8. CASE Claim(r)
    <2> DEFINE made == [creator |-> q.creator, cursor |-> q.manifest, state |-> "planned", revision |-> 1]
    <2>1. q.pc = "claim" /\ made \in CheckpointRecord /\ made.state # "none"
      BY <1>1, <1>2, <1>8 DEF Claim, CheckpointRecord, RequestRecord
    <2>2. CASE now = NoCheckpoint
      <3> DEFINE new == [q EXCEPT !.pc = "start", !.seen = made]
      <3>1. q.seen = NoCheckpoint
        BY <1>1, <1>3, <2>1, <2>2 DEF RequestOK
      <3>2. Update(r, made) /\ Becomes(r, new) /\ UNCHANGED records
        BY <1>1, <1>3, <1>8, <2>2, <3>1 DEF Claim, SameImport
      <3>3. /\ new \in RequestRecord /\ new.pc = "start" /\ new.seen = made /\ ~new.told
            /\ new.import = q.import /\ new.creator = q.creator /\ new.manifest = q.manifest
        BY <1>2, <2>1 DEF RequestRecord, Stages
      <3>4. checkpoints'[q.import] = made
        BY <1>1, <1>2, <3>2 DEF Update, ImportInv, ImportType
      <3>5. /\ made.revision > now.revision /\ made.revision <= made.revision /\ made # NoCheckpoint
            /\ made.creator = q.creator /\ made.cursor = q.manifest /\ made.state # "completed"
        BY <2>2 DEF NoCheckpoint
      <3> HIDE DEF new, made
      <3>6. RequestOK(new)'
        BY <1>2, <2>1, <3>3, <3>4, <3>5 DEF RequestOK
      <3>7. QED
        BY <1>1, <1>2, <1>3, <1>4, <2>1, <2>2, <3>2, <3>3, <3>5, <3>6, Writes
    <2>3. CASE now # NoCheckpoint
      <3>1. PICK seen \in CheckpointRecord : seen = IF q.seen # NoCheckpoint THEN q.seen ELSE now
        BY <1>2
      <3> DEFINE new == [q EXCEPT !.pc = "start", !.seen = seen]
      <3>2. /\ UNCHANGED <<records, checkpoints>>
            /\ \/ seen.creator = q.creator /\ seen.cursor = q.manifest /\ Becomes(r, new)
               \/ Refuses(r)
        BY <1>1, <1>3, <1>8, <2>3, <3>1 DEF Claim, SameImport
      <3>3. /\ new \in RequestRecord /\ new.pc = "start" /\ new.seen = seen /\ ~new.told
            /\ new.import = q.import /\ new.creator = q.creator /\ new.manifest = q.manifest
        BY <1>2 DEF RequestRecord, Stages
      <3> HIDE DEF new
      <3>4. seen # NoCheckpoint
        BY <2>3, <3>1
      <3>5. now.state # "none" /\ now.revision <= now.revision
        BY <1>2, <1>3, <2>3 DEF ImportInv, ImportType, CheckpointRecord
      <3>6. seen.creator = q.creator /\ seen.cursor = q.manifest =>
              /\ seen.state # "none" /\ now.creator = q.creator /\ now.cursor = q.manifest
              /\ seen.revision <= now.revision /\ (seen.revision = now.revision => seen = now)
        BY <1>1, <1>3, <2>1, <3>1, <3>5 DEF RequestOK
      <3>7. seen.creator = q.creator /\ seen.cursor = q.manifest => RequestOK(new)'
        BY <1>2, <1>3, <2>3, <3>2, <3>3, <3>4, <3>6 DEF RequestOK
      <3>8. QED
        BY <1>4, <1>5, <3>2, <3>3, <3>7, OnlyAsks
    <2>4. QED
      BY <2>2, <2>3
  <1>9. CASE Start(r)
    <2>1. q.pc = "start"
      BY <1>1, <1>9 DEF Start
    <2>2. CASE ~Fresh(r)
      BY <1>5, <1>9, <2>2 DEF Start
    <2>3. CASE Fresh(r)
      <3>1. PICK next \in CheckpointRecord : next = moved("running")
        BY <1>7
      <3> DEFINE new == [q EXCEPT !.pc = "running", !.seen = next]
      <3>2. Update(r, next) /\ Becomes(r, new) /\ UNCHANGED records
        BY <1>1, <1>7, <1>9, <2>3, <3>1 DEF Start
      <3>3. /\ new \in RequestRecord /\ new.pc = "running" /\ new.seen = next /\ ~new.told
            /\ new.import = q.import /\ new.creator = q.creator /\ new.manifest = q.manifest
        BY <1>2 DEF RequestRecord, Stages
      <3>4. checkpoints'[q.import] = next
        BY <1>1, <1>2, <3>2 DEF Update, ImportInv, ImportType
      <3>5. /\ next.state = "running" /\ next.creator = q.creator /\ next.cursor = q.manifest
            /\ next.revision > now.revision /\ next.revision <= next.revision /\ next # NoCheckpoint
        BY <1>6, <1>7, <2>1, <3>1 DEF CheckpointRecord, NoCheckpoint
      <3> HIDE DEF new
      <3>6. RequestOK(new)'
        BY <1>2, <3>3, <3>4, <3>5 DEF RequestOK
      <3>7. QED
        BY <1>1, <1>2, <1>3, <1>4, <1>6, <2>1, <3>2, <3>3, <3>5, <3>6, Writes
    <2>4. QED
      BY <2>2, <2>3
  <1>10. CASE Commit(r)
    <2>1. q.pc = "running"
      BY <1>1, <1>10 DEF Commit
    <2> DEFINE failing == [q EXCEPT !.pc = "failing"]
               told == [q EXCEPT !.pc = "idle", !.seen = NoCheckpoint, !.told = TRUE]
    <2>2. /\ failing \in RequestRecord /\ failing.pc = "failing" /\ failing.seen = q.seen /\ ~failing.told
          /\ failing.import = q.import /\ failing.creator = q.creator /\ failing.manifest = q.manifest
      BY <1>2 DEF RequestRecord, Stages
    <2>3. /\ told \in RequestRecord /\ told.pc = "idle"
          /\ told.import = q.import /\ told.creator = q.creator /\ told.manifest = q.manifest
      BY <1>1 DEF RequestRecord, Stages, NoCheckpoint, CheckpointRecord
    <2>4. PICK next \in CheckpointRecord : next = moved("completed")
      BY <1>7
    <2>5. /\ next.state = "completed" /\ next.creator = q.creator /\ next.cursor = q.manifest
          /\ next.revision > now.revision /\ next # NoCheckpoint
      BY <1>6, <1>7, <2>1, <2>4 DEF NoCheckpoint
    <2>6. \/ Becomes(r, failing) /\ UNCHANGED <<records, checkpoints>>
          \/ /\ Creatable(r) /\ Update(r, next) /\ (Becomes(r, told) \/ Becomes(r, failing))
             /\ records' = [x \in Records |-> IF x \in q.manifest THEN [owner |-> q.creator, import |-> q.import] ELSE records[x]]
      BY <1>1, <1>7, <1>10, <2>4 DEF Commit, Commits, Confirms
    <2> HIDE DEF failing, told
    <2>7. CASE Becomes(r, failing) /\ UNCHANGED <<records, checkpoints>>
      <3>1. RequestOK(failing)'
        BY <1>1, <2>1, <2>2, <2>7 DEF RequestOK
      <3>2. QED
        BY <1>4, <2>2, <2>7, <3>1, OnlyAsks
    <2>8. CASE /\ Creatable(r) /\ Update(r, next) /\ (Becomes(r, told) \/ Becomes(r, failing))
               /\ records' = [x \in Records |-> IF x \in q.manifest THEN [owner |-> q.creator, import |-> q.import] ELSE records[x]]
      <3>1. checkpoints'[q.import] = next
        BY <1>1, <1>2, <2>8 DEF Update, ImportInv, ImportType
      <3>2. MadeBy(q.import)' # {}
        <4>1. PICK x \in Records : x \in q.manifest
          BY <1>2 DEF ImportAssumption
        <4>2. records'[x].import = q.import
          BY <2>8, <4>1
        <4>3. QED
          BY <4>2 DEF MadeBy
      <3>3. RequestOK(told)'
        BY <1>2, <2>3, <2>5, <3>1, <3>2 DEF RequestOK
      <3>4. RequestOK(failing)'
        <4>1. q.seen # NoCheckpoint /\ q.seen.state = "running" /\ q.seen.revision <= now.revision
          BY <1>1, <1>3, <2>1 DEF RequestOK
        <4>2. q.seen.revision <= next.revision /\ q.seen.revision # next.revision
          BY <4>1, <1>2, <2>5 DEF CheckpointRecord
        <4>3. QED
          BY <1>2, <1>6, <2>1, <2>2, <2>5, <3>1, <4>1, <4>2 DEF RequestOK
      <3>5. PICK new \in RequestRecord : Becomes(r, new) /\ (new = told \/ new = failing)
        BY <2>2, <2>3, <2>8
      <3>6. /\ RequestOK(new)' /\ new.import = q.import /\ new.creator = q.creator /\ new.manifest = q.manifest
        BY <2>2, <2>3, <3>3, <3>4, <3>5
      <3>7. QED
        BY <1>1, <1>2, <1>3, <1>4, <1>6, <2>1, <2>5, <2>8, <3>5, <3>6, Writes
    <2>9. QED
      BY <2>6, <2>7, <2>8
  <1>11. CASE Mark(r)
    <2>1. q.pc = "mark" /\ Refuses(r) /\ UNCHANGED records
      BY <1>1, <1>11 DEF Mark
    <2>2. CASE ~Marked(r)
      BY <1>5, <1>11, <2>1, <2>2 DEF Mark
    <2>3. CASE Marked(r)
      <3>1. PICK next \in CheckpointRecord : next = moved("failed")
        BY <1>7
      <3>2. Update(r, next)
        BY <1>7, <1>11, <2>3, <3>1 DEF Mark
      <3>3. /\ next.state = "failed" /\ next.creator = q.creator /\ next.cursor = q.manifest
            /\ next.revision > now.revision
        BY <1>6, <1>7, <2>1, <3>1
      <3>4. Idle \in RequestRecord /\ RequestOK(Idle)' /\ Becomes(r, Idle)
        BY <2>1, GivesUp DEF Refuses
      <3>5. QED
        BY <1>1, <1>2, <1>3, <1>4, <1>6, <2>1, <3>2, <3>3, <3>4, Writes
    <2>4. QED
      BY <2>2, <2>3
  <1>12. QED
    BY <1>8, <1>9, <1>10, <1>11

LEMMA ImportStep ==
  ASSUME ImportAssumption, ImportInv, [ImportNext]_importVars
  PROVE  ImportInv'
  <1>1. CASE ImportNext
    BY <1>1, Looking, Writing DEF ImportNext
  <1>2. CASE UNCHANGED importVars
    BY <1>2 DEF importVars, ImportInv, ImportType, WholeOrNothing, RequestsOK, RequestOK, MadeBy
  <1>3. QED
    BY <1>1, <1>2

\* Records, checkpoints and requests have their types.
THEOREM ImportsTyped == ASSUME ImportAssumption PROVE ImportSpec => []ImportTypeOK
  <1>1. ImportInv => ImportTypeOK
    BY DEF ImportInv, ImportType, ImportTypeOK, Records0, CheckpointRecord, RequestRecord, Stages
  <1>2. QED
    BY <1>1, ImportStart, ImportStep, PTL DEF ImportSpec

\* An import makes all its records, for its creator, or none, and has made them when its
\* checkpoint is completed, whatever requests for it run at once, fail or die.
THEOREM ImportedWhole == ASSUME ImportAssumption PROVE ImportSpec => []WholeOrNothing
  <1>1. ImportInv => WholeOrNothing
    BY DEF ImportInv
  <1>2. QED
    BY <1>1, ImportStart, ImportStep, PTL DEF ImportSpec

\* What a request is told of a finished import is so, and remains so.
THEOREM ToldWhatIsThere == ASSUME ImportAssumption PROVE ImportSpec => []ToldTrue
  <1>1. ASSUME ImportInv PROVE ToldTrue
    <2>1. ASSUME NEW r \in Requests, requests[r].told
          PROVE  SameImport(r, Checkpoint(r)) /\ \A x \in requests[r].manifest : records[x].owner = requests[r].creator
      <3>1. PICK q \in RequestRecord : q = requests[r] /\ RequestOK(q)
        BY <1>1 DEF ImportInv, ImportType, RequestsOK
      <3>2. /\ q.import \in Imports /\ checkpoints[q.import].creator = q.creator
            /\ checkpoints[q.import].cursor = q.manifest /\ MadeBy(q.import) # {}
        BY <2>1, <3>1 DEF RequestOK
      <3>3. MadeBy(q.import) = q.manifest /\ \A x \in q.manifest : records[x].owner = q.creator
        BY <1>1, <3>2 DEF ImportInv, WholeOrNothing, MadeBy
      <3>4. QED
        BY <3>1, <3>2, <3>3 DEF SameImport, Checkpoint
    <2>2. QED
      BY <2>1 DEF ToldTrue
  <1>2. QED
    BY <1>1, ImportStart, ImportStep, PTL DEF ImportSpec

\* An import identifier stays with one creator and manifest, and no request that failed marks
\* failed what another has completed since.
THEOREM ImportBoundToOne == ASSUME ImportAssumption PROVE ImportSpec => [][BoundToOne]_importVars
  <1>1. ASSUME ImportInv, ImportNext PROVE BoundToOne
    <2>1. ASSUME NEW i \in Imports, checkpoints[i] # NoCheckpoint, checkpoints'[i] # checkpoints[i]
          PROVE  /\ checkpoints'[i].creator = checkpoints[i].creator /\ checkpoints'[i].cursor = checkpoints[i].cursor
                 /\ checkpoints[i].state = "completed" => checkpoints'[i].state # "failed"
      <3>1. PICK r \in Requests : \/ \E c \in Creators, m \in Manifests, j \in Imports : Ask(r, c, m, j)
                                  \/ LookUp(r) \/ Plan(r) \/ Claim(r) \/ Start(r) \/ Commit(r) \/ Catch(r)
                                  \/ Mark(r) \/ Crash(r)
        BY <1>1 DEF ImportNext
      <3>2. PICK q \in RequestRecord : q = requests[r] /\ RequestOK(q)
        BY <1>1 DEF ImportInv, ImportType, RequestsOK
      <3>3. checkpoints' # checkpoints
        BY <2>1
      <3>4. Claim(r) \/ Start(r) \/ Commit(r) \/ Mark(r)
        BY <3>1, <3>3 DEF Ask, LookUp, Plan, Catch, Crash
      <3>5. PICK next : checkpoints' = [checkpoints EXCEPT ![q.import] = next]
        BY <3>2, <3>3, <3>4 DEF Claim, Start, Commit, Mark, Update
      <3>6. q.import = i /\ checkpoints'[i] = next
        BY <1>1, <2>1, <3>5 DEF ImportInv, ImportType
      <3>7. ~Claim(r)
        BY <2>1, <3>2, <3>3, <3>6 DEF Claim, Checkpoint
      <3>8. /\ q.pc \in {"start", "running", "mark"} /\ q.seen # NoCheckpoint
            /\ checkpoints[i].creator = q.creator /\ checkpoints[i].cursor = q.manifest
            /\ q.seen.creator = q.creator /\ q.seen.cursor = q.manifest
            /\ q.pc = "mark" => q.seen.state = "running"
            /\ q.seen.revision = checkpoints[i].revision => q.seen = checkpoints[i]
        BY <3>2, <3>4, <3>6, <3>7 DEF Start, Commit, Mark, RequestOK
      <3>9. \/ next = Moved(r, "running") \/ next = Moved(r, "completed")
            \/ next = Moved(r, "failed") /\ Fresh(r) /\ q.pc = "mark"
        <4>1. \A state : Update(r, Moved(r, state)) => next = Moved(r, state)
          BY <1>1, <2>1, <3>2, <3>6 DEF Update, ImportInv, ImportType
        <4>2. QED
          BY <3>2, <3>3, <3>4, <3>7, <4>1 DEF Start, Commit, Mark, Marked
      <3>10. \A state : /\ Moved(r, state).creator = q.seen.creator /\ Moved(r, state).cursor = q.seen.cursor
                        /\ Moved(r, state).state = state
        BY <3>2 DEF Moved, RequestRecord, CheckpointRecord
      <3>11. checkpoints[i].state = "completed" => next # Moved(r, "failed") \/ ~Fresh(r) \/ q.pc # "mark"
        BY <3>2, <3>6, <3>8 DEF Fresh, Checkpoint
      <3>12. QED
        BY <3>6, <3>8, <3>9, <3>10, <3>11
    <2>2. QED
      BY <2>1 DEF BoundToOne
  <1>2. QED
    BY <1>1, ImportStart, ImportStep, PTL DEF ImportSpec

-----------------------------------------------------------------------------
(* The copies of a Work that are published elsewhere.                       *)

\* The placeholders are not copies or objects, and the bounds are numbers.
CopiesAssumption ==
  /\ NoCopy \notin Copies /\ NoRemote \notin Remotes /\ Kinds # {} /\ Slots # {}
  /\ MaxCopyRevision \in Nat \ {0} /\ MaxWorkRevision \in Nat \ {0} /\ MaxCopyFaults \in Nat

\* A call allocates a copy, approves an operation or decides on one.
CreateSteps == {"request", "slot", "load", "commit", "attach"}
ReadSteps == {"operation", "transition"}
Allocating == [at : CreateSteps, copy : Copies, in : Input, round : 1..4, request : Claims, slot : Claims]
Approving == [at : {"active", "approve"}, copy : Copies, revision : Revisions, active : Revisions, kind : Kinds,
              source : 1..MaxWorkRevision]
Deciding == [at : ReadSteps \cup {"send"}, copy : Copies, active : Revisions, to : States,
             binding : Remotes \cup {NoRemote}, version : Revisions, revision : Revisions]
AnyCall == {NotCalling} \cup Allocating \cup Approving \cup Deciding

\* CopyTypeOK with what a call has read.
CopiesType ==
  /\ work \in [revision : 1..MaxWorkRevision, usable : BOOLEAN]
  /\ publication \in [Copies -> Publication]
  /\ requestClaim \in [Creations -> Claims] /\ slotClaim \in [Slots -> Claims]
  /\ operation \in [Copies -> [Revisions -> Operation]]
  /\ remoteClaim \in [Remotes -> Copies \cup {NoCopy}] /\ objects \in [Remotes -> Copies \cup {NoCopy}]
  /\ caller \in [Callers -> AnyCall]
  /\ carried \in [Copies -> [Revisions -> Nat]]
  /\ answers \subseteq (Creations \X Slots \X Configs \X Copies) /\ copyFaults \in 0..MaxCopyFaults

\* What a request reserved is its slot's, and what a slot reserved is there.
ClaimsFit ==
  /\ \A s \in Slots : slotClaim[s] # NoClaim =>
       /\ publication[slotClaim[s].copy].revision > 0 /\ publication[slotClaim[s].copy].slot = s
       /\ slotClaim[s].fingerprint[1] = s
  /\ \A r \in Creations : requestClaim[r] # NoClaim => slotClaim[requestClaim[r].fingerprint[1]] = requestClaim[r]
  /\ \A a \in answers : requestClaim[a[1]] = [copy |-> a[4], fingerprint |-> <<a[2], a[3]>>]
  /\ \A p \in Copies : publication[p].revision > 0 =>
       slotClaim[publication[p].slot] # NoClaim /\ slotClaim[publication[p].slot].copy = p

\* What a creation has read of the claims is still so.
AllocatingOK(call) ==
  call.at \in CreateSteps =>
    /\ call.request # NoClaim => requestClaim[call.in.request] = call.request
    /\ call.slot # NoClaim => slotClaim[call.in.slot] = call.slot
    /\ call.at \in {"load", "attach"} => Existing(call) # NoClaim /\ Existing(call).fingerprint = Fingerprint(call.in)
    /\ call.at = "attach" => call.request = NoClaim

\* An operation's version tells its state, and a copy's revision how far the operation
\* it last approved has come.
Version(op) ==
  /\ op.state = "none" <=> op.version = 0
  /\ op.state = "PREPARED" => op.version = 1
  /\ op.state \in {"IN_FLIGHT", "CANCELLED"} => op.version = 2
  /\ op.state \in {"AMBIGUOUS", "FAILED"} => op.version = 3
  /\ op.state = "CONFIRMED" => op.version \in {3, 4}

Paced(p) ==
  /\ \A n \in Revisions : Version(operation[p][n]) /\ (operation[p][n].state # "none" => 2 <= n /\ n <= publication[p].active)
  /\ \A n \in Revisions : operation[p][n].state \in Final \cup {"none"} \/ n = publication[p].active
  /\ publication[p].active = 0 => publication[p].revision <= 1 /\ publication[p].remote = NoRemote
  /\ publication[p].active # 0 =>
       /\ publication[p].active + 3 <= MaxCopyRevision /\ operation[p][publication[p].active].state # "none"
       /\ publication[p].revision + 1 = publication[p].active + operation[p][publication[p].active].version

\* What an approval or a transition has read holds while the copy's revision is the one
\* it has read.
ApprovingOK(call) ==
  call.at \in {"active", "approve"} =>
    /\ call.revision \in 1..(MaxCopyRevision - 4) /\ call.revision <= publication[call.copy].revision
    /\ publication[call.copy].revision = call.revision =>
         /\ publication[call.copy].active = call.active /\ Matches(call.kind, call.copy)
         /\ call.at = "approve" => call.active = 0 \/ Settled(call.copy, call.active)

DecidingOK(call) ==
  /\ call.at \in ReadSteps => 1 <= call.revision /\ call.revision <= publication[call.copy].revision
  /\ call.at = "transition" /\ publication[call.copy].revision = call.revision =>
       /\ publication[call.copy].active = call.active
       /\ call.to \in Following(operation[call.copy][call.active].state)
       /\ Binds(call.copy, operation[call.copy][call.active].kind, call.to, call.binding)

\* The provider is called for an operation once, and by one caller.
InPlay == {"IN_FLIGHT", "AMBIGUOUS", "CONFIRMED"}
SendingOK(call) ==
  call.at = "send" => operation[call.copy][call.active].state \in InPlay /\ carried[call.copy][call.active] = 0
OneSender ==
  \A c, d \in Callers : caller[c].at = "send" /\ caller[d].at = "send" /\ caller[c].copy = caller[d].copy
                        /\ caller[c].active = caller[d].active => c = d
Once(p) ==
  \A n \in Revisions : carried[p][n] <= 1 /\ (operation[p][n].state \in {"none", "PREPARED", "CANCELLED"} => carried[p][n] = 0)

\* The creation of a copy that may have made an object.
Makes(p, n) == operation[p][n].kind = "CREATE" /\ operation[p][n].state \in InPlay

\* A copy without an object on record has one creation in play, and an object that was
\* made for it is that creation's.
Made(p) ==
  /\ \A n \in Revisions : operation[p][n].kind = "CREATE" =>
       /\ operation[p][n].state \in {"PREPARED", "IN_FLIGHT", "AMBIGUOUS"} => publication[p].remote = NoRemote
       /\ operation[p][n].state = "CONFIRMED" => publication[p].remote # NoRemote
  /\ \A m, n \in Revisions : Makes(p, m) /\ Makes(p, n) => m = n
  /\ \A r \in Remotes : objects[r] = p => \E n \in Revisions : Makes(p, n) /\ carried[p][n] = 1
  /\ \A r, s \in Remotes : objects[r] = p /\ objects[s] = p => r = s
  /\ publication[p].remote # NoRemote => remoteClaim[publication[p].remote] = p

\* A refusal is an answer to a call that made nothing.
RefusedOK(call) ==
  call.at \in ReadSteps /\ call.to = "FAILED" =>
    /\ carried[call.copy][call.active] = 1
    /\ operation[call.copy][call.active].kind = "CREATE" /\ operation[call.copy][call.active].state = "IN_FLIGHT"
         => \A r \in Remotes : objects[r] # call.copy

\* The inductive invariant.
CopyCallOK(call) == AllocatingOK(call) /\ ApprovingOK(call) /\ DecidingOK(call) /\ SendingOK(call) /\ RefusedOK(call)

CopiesInv ==
  /\ CopiesType /\ ClaimsFit /\ OneSender
  /\ \A p \in Copies : Paced(p) /\ Once(p) /\ Made(p)
  /\ \A c \in Callers : CopyCallOK(caller[c])

-----------------------------------------------------------------------------
\* The first state: no claim, no copy and no call.
LEMMA CopiesStart ==
  ASSUME CopiesAssumption, CopyInit
  PROVE  CopiesInv
  <1> USE DEF CopiesAssumption, CopyInit
  <1>1. NoOperation \in Operation /\ NoPublication \in Publication /\ 0 \in Revisions
    <2>1. (CHOOSE k \in Kinds : TRUE) \in Kinds /\ (CHOOSE s \in Slots : TRUE) \in Slots
      OBVIOUS
    <2>2. QED
      BY <2>1 DEF NoOperation, Operation, NoPublication, Publication, Revisions, States
  <1>2. NoClaim \in Claims
    BY DEF Claims
  <1>3. CopiesType
    BY <1>1, <1>2 DEF CopiesType, AnyCall
  <1>4. ClaimsFit
    BY DEF ClaimsFit, NoPublication
  <1>5. OneSender /\ \A c \in Callers : CopyCallOK(caller[c])
    BY DEF OneSender, CopyCallOK, AllocatingOK, ApprovingOK, DecidingOK, SendingOK, RefusedOK, NotCalling, CreateSteps, ReadSteps
  <1>6. ASSUME NEW p \in Copies PROVE Paced(p) /\ Once(p) /\ Made(p)
    <2>1. \A n \in Revisions : operation[p][n] = NoOperation /\ carried[p][n] = 0
      OBVIOUS
    <2>2. publication[p].active = 0 /\ publication[p].revision = 0 /\ publication[p].remote = NoRemote
      BY DEF NoPublication
    <2>3. Paced(p)
      BY <2>1, <2>2 DEF Paced, Version, NoOperation
    <2>4. Once(p)
      BY <2>1 DEF Once, NoOperation
    <2>5. Made(p)
      BY <2>1, <2>2, <1>6 DEF Made, Makes, NoOperation, InPlay
    <2>6. QED
      BY <2>3, <2>4, <2>5
  <1>7. QED
    BY <1>3, <1>4, <1>5, <1>6 DEF CopiesInv

\* A step that leaves the store and what is outside it alone keeps what a call knows.
LEMMA CallStands ==
  ASSUME UNCHANGED <<store, objects, carried>>, NEW call, CopyCallOK(call)
  PROVE  CopyCallOK(call)'
  <1>1. AllocatingOK(call)'
    BY DEF CopyCallOK, AllocatingOK, store, Existing
  <1>2. ApprovingOK(call)' /\ DecidingOK(call)'
    BY DEF CopyCallOK, ApprovingOK, DecidingOK, store, Matches, Settled, Binds
  <1>3. SendingOK(call)' /\ RefusedOK(call)'
    BY DEF CopyCallOK, SendingOK, RefusedOK, store
  <1>4. QED
    BY <1>1, <1>2, <1>3 DEF CopyCallOK

\* A step of a caller that leaves the store, the platform and the answers alone: the rest
\* of the invariant is about its next call.
LEMMA CallsOn ==
  ASSUME CopiesInv, UNCHANGED <<store, objects, carried, answers>>,
         work' \in [revision : 1..MaxWorkRevision, usable : BOOLEAN], copyFaults' \in 0..MaxCopyFaults,
         NEW c \in Callers, NEW call \in AnyCall,
         caller' = [caller EXCEPT ![c] = call], CopyCallOK(call), call.at # "send"
  PROVE  CopiesInv'
  <1>1. \A d \in Callers : caller'[d] = IF d = c THEN call ELSE caller[d]
    BY DEF CopiesInv, CopiesType
  <1>2. CopiesType'
    BY DEF CopiesInv, CopiesType, store
  <1>3. ClaimsFit'
    BY DEF CopiesInv, ClaimsFit, store
  <1>4. OneSender'
    BY <1>1 DEF CopiesInv, OneSender
  <1>5. ASSUME NEW p \in Copies PROVE (Paced(p) /\ Once(p) /\ Made(p))'
    BY <1>5 DEF CopiesInv, Paced, Once, Made, Makes, Version, store
  <1>6. ASSUME NEW d \in Callers PROVE CopyCallOK(caller[d])'
    <2>1. CopyCallOK(caller[d]) /\ CopyCallOK(call)
      BY DEF CopiesInv
    <2>2. CopyCallOK(caller'[d])
      BY <1>1, <2>1
    <2>3. ASSUME NEW x, CopyCallOK(x) PROVE CopyCallOK(x)'
      BY <2>3, CallStands
    <2>4. PICK x : x = caller'[d]
      OBVIOUS
    <2>5. QED
      BY <2>2, <2>3, <2>4
  <1>7. QED
    BY <1>2, <1>3, <1>4, <1>5, <1>6 DEF CopiesInv

\* The Work edited, archived or restored.
LEMMA WorkEdited ==
  ASSUME CopiesAssumption, CopiesInv, EditWork \/ ArchiveWork
  PROVE  CopiesInv'
  <1> USE DEF CopiesInv, EditWork, ArchiveWork, CopyFault
  <1>1. CopiesType'
    <2>1. CASE EditWork
      <3>1. work' \in [revision : 1..MaxWorkRevision, usable : BOOLEAN]
        BY <2>1 DEF CopiesType, CopiesAssumption
      <3>2. QED
        BY <2>1, <3>1 DEF CopiesType, store
    <2>2. CASE ArchiveWork
      <3>1. work'.usable \in BOOLEAN
        BY <2>2 DEF CopiesType
      <3>2. work' \in [revision : 1..MaxWorkRevision, usable : BOOLEAN]
        BY <2>2, <3>1 DEF CopiesType
      <3>3. copyFaults' \in 0..MaxCopyFaults
        BY <2>2 DEF CopiesType, CopiesAssumption
      <3>4. QED
        BY <2>2, <3>2, <3>3 DEF CopiesType, store
    <2>3. QED
      BY <2>1, <2>2
  <1>2. ClaimsFit' /\ OneSender'
    BY DEF ClaimsFit, OneSender, store
  <1>3. ASSUME NEW p \in Copies PROVE (Paced(p) /\ Once(p) /\ Made(p))'
    BY <1>3 DEF Paced, Once, Made, Makes, Version, store
  <1>4. ASSUME NEW d \in Callers PROVE CopyCallOK(caller[d])'
    BY <1>4 DEF CopyCallOK, AllocatingOK, Existing, ApprovingOK, DecidingOK, SendingOK, RefusedOK, Matches, Settled, Binds, store
  <1>5. QED
    BY <1>1, <1>2, <1>3, <1>4

\* What the step of a call is one of.
LEMMA CallTyped ==
  ASSUME CopiesInv, NEW c \in Callers
  PROVE  /\ caller[c] \in AnyCall /\ CopyCallOK(caller[c])
         /\ caller[c].at \in CreateSteps => caller[c] \in Allocating
         /\ caller[c].at \in {"active", "approve"} => caller[c] \in Approving
         /\ caller[c].at \in ReadSteps \cup {"send"} => caller[c] \in Deciding
  BY DEF CopiesInv, CopiesType, AnyCall, NotCalling, Allocating, Approving, Deciding, CreateSteps, ReadSteps

\* A call ends without having changed anything.
LEMMA CallEnds ==
  ASSUME CopiesInv, NEW c \in Callers, Ends(c), UNCHANGED <<store, objects, carried, answers>>,
         work' \in [revision : 1..MaxWorkRevision, usable : BOOLEAN], copyFaults' \in 0..MaxCopyFaults
  PROVE  CopiesInv'
  <1>1. CopyCallOK(NotCalling) /\ NotCalling \in AnyCall /\ NotCalling.at # "send"
    BY DEF CopyCallOK, AllocatingOK, ApprovingOK, DecidingOK, SendingOK, RefusedOK, NotCalling, CreateSteps, ReadSteps, AnyCall
  <1>2. QED
    BY <1>1, CallsOn DEF Ends

\* createPublicationCopy reads the claims.
LEMMA ClaimsRead ==
  ASSUME CopiesInv, NEW c \in Callers,
         ReadRequest(c) \/ ReadSlot(c) \/ \E in \in Input : Create(c, in)
  PROVE  CopiesInv'
  <1>1. /\ UNCHANGED <<store, objects, carried, answers>>
        /\ work' \in [revision : 1..MaxWorkRevision, usable : BOOLEAN] /\ copyFaults' \in 0..MaxCopyFaults
    BY DEF CopiesInv, CopiesType, ReadRequest, ReadSlot, Create, store, outside
  <1> USE DEF CopyCallOK, ApprovingOK, DecidingOK, SendingOK, RefusedOK, CreateSteps, ReadSteps
  <1>2. ASSUME NEW in \in Input, Create(c, in) PROVE CopiesInv'
    <2>1. PICK call : call = [at |-> "request", copy |-> in.copy, in |-> in, round |-> 1, request |-> NoClaim, slot |-> NoClaim]
      OBVIOUS
    <2>2. call \in Allocating
      BY <2>1 DEF Allocating, Input, Claims
    <2>3. CopyCallOK(call)
      BY <2>1 DEF AllocatingOK
    <2>4. caller' = [caller EXCEPT ![c] = call]
      BY <1>2, <2>1 DEF Create, Starts
    <2>5. QED
      BY <1>1, <2>1, <2>2, <2>3, <2>4, CallsOn DEF AnyCall
  <1>3. CASE ReadRequest(c)
    <2>1. PICK call : call = [caller[c] EXCEPT !.at = "slot", !.request = requestClaim[caller[c].in.request]]
      OBVIOUS
    <2>2. caller[c] \in Allocating /\ AllocatingOK(caller[c])
      BY <1>3, CallTyped DEF ReadRequest
    <2>3. caller[c].in.request \in Creations /\ requestClaim[caller[c].in.request] \in Claims
      BY <2>2 DEF Allocating, Input, CopiesInv, CopiesType
    <2>4. call \in Allocating /\ call.at = "slot" /\ call.request = requestClaim[call.in.request] /\ call.slot = caller[c].slot
          /\ call.in = caller[c].in
      BY <2>1, <2>2, <2>3 DEF Allocating
    <2>5. CopyCallOK(call)
      BY <1>3, <2>2, <2>4 DEF AllocatingOK, ReadRequest
    <2>6. caller' = [caller EXCEPT ![c] = call]
      BY <1>3, <2>1 DEF ReadRequest, CopiesInv, CopiesType
    <2>7. QED
      BY <1>1, <2>4, <2>5, <2>6, CallsOn DEF AnyCall
  <1>4. CASE ReadSlot(c)
    <2>1. PICK call : call = [caller[c] EXCEPT !.slot = slotClaim[caller[c].in.slot]]
      OBVIOUS
    <2>2. caller[c] \in Allocating /\ AllocatingOK(caller[c])
      BY <1>4, CallTyped DEF ReadSlot
    <2>3. caller[c].in.slot \in Slots /\ slotClaim[caller[c].in.slot] \in Claims
      BY <2>2 DEF Allocating, Input, CopiesInv, CopiesType
    <2>4. call \in Allocating /\ call.slot = slotClaim[call.in.slot] /\ call.request = caller[c].request /\ call.in = caller[c].in
      BY <2>1, <2>2, <2>3 DEF Allocating
    <2>5. /\ call.request # NoClaim => requestClaim[call.in.request] = call.request
          /\ call.slot # NoClaim => slotClaim[call.in.slot] = call.slot
      BY <2>2, <2>4 DEF AllocatingOK, Allocating
    <2>6. CASE caller' = [caller EXCEPT ![c] = NotCalling]
      BY <1>1, <2>6, CallEnds DEF Ends
    <2>7. ASSUME Existing(call) = NoClaim, caller' = [caller EXCEPT ![c] = [call EXCEPT !.at = "commit"]] PROVE CopiesInv'
      <3>1. PICK next : next = [call EXCEPT !.at = "commit"]
        OBVIOUS
      <3>2. next \in Allocating /\ next.at = "commit" /\ next.in = call.in /\ next.request = call.request /\ next.slot = call.slot
        BY <2>4, <3>1 DEF Allocating
      <3>3. CopyCallOK(next)
        BY <2>5, <3>2 DEF AllocatingOK
      <3>4. QED
        BY <1>1, <2>7, <3>1, <3>2, <3>3, CallsOn DEF AnyCall
    <2>8. ASSUME Existing(call) # NoClaim, Existing(call).fingerprint = Fingerprint(call.in),
                 caller' = [caller EXCEPT ![c] = [call EXCEPT !.at = "load"]]
          PROVE  CopiesInv'
      <3>1. PICK next : next = [call EXCEPT !.at = "load"]
        OBVIOUS
      <3>2. next \in Allocating /\ next.at = "load" /\ next.in = call.in /\ next.request = call.request /\ next.slot = call.slot
        BY <2>4, <3>1 DEF Allocating
      <3>3. CopyCallOK(next)
        BY <2>5, <2>8, <3>2 DEF AllocatingOK, Existing
      <3>4. QED
        BY <1>1, <2>8, <3>1, <3>2, <3>3, CallsOn DEF AnyCall
    <2>9. QED
      BY <1>4, <2>1, <2>6, <2>7, <2>8 DEF ReadSlot
  <1>5. QED
    BY <1>2, <1>3, <1>4

\* A commit that finds the claims changed: another round, four in all.
LEMMA ConflictOn ==
  ASSUME CopiesInv, NEW c \in Callers, caller[c].at \in {"commit", "attach"}, Conflict(c), UNCHANGED outside
  PROVE  CopiesInv'
  <1>1. /\ UNCHANGED <<store, objects, carried, answers>>
        /\ work' \in [revision : 1..MaxWorkRevision, usable : BOOLEAN] /\ copyFaults' \in 0..MaxCopyFaults
    BY DEF CopiesInv, CopiesType, Conflict, store, outside
  <1>2. caller[c] \in Allocating
    BY CallTyped DEF CreateSteps
  <1>3. CASE caller[c].round = 4
    BY <1>1, <1>3, CallEnds DEF Ends, Conflict
  <1>4. CASE caller[c].round # 4
    <2> caller \in [Callers -> AnyCall]
      BY DEF CopiesInv, CopiesType
    <2>1. PICK call : call = [caller[c] EXCEPT !.at = "request", !.round = caller[c].round + 1,
                                             !.request = NoClaim, !.slot = NoClaim]
      OBVIOUS
    <2>2. call \in Allocating /\ call.at = "request" /\ call.request = NoClaim /\ call.slot = NoClaim
      <3>1. NoClaim \in Claims
        BY DEF Claims
      <3>2. caller[c].round + 1 \in 1..4
        BY <1>2, <1>4 DEF Allocating
      <3>3. QED
        BY <1>2, <2>1, <3>1, <3>2 DEF Allocating, CreateSteps
    <2>3. CopyCallOK(call)
      BY <2>2 DEF CopyCallOK, AllocatingOK, ApprovingOK, DecidingOK, SendingOK, RefusedOK, ReadSteps
    <2>4. caller' = [caller EXCEPT ![c] = call]
      BY <1>2, <1>4, <2>1 DEF Conflict
    <2>5. QED
      BY <1>1, <2>2, <2>3, <2>4, CallsOn DEF AnyCall
  <1>5. QED
    BY <1>3, <1>4

\* createPublicationCopy finds the copy a claim names, and answers with it.
LEMMA CopyLoaded ==
  ASSUME CopiesInv, NEW c \in Callers, LoadCopy(c)
  PROVE  CopiesInv'
  <1>1. /\ UNCHANGED <<store, objects, carried>>
        /\ work' \in [revision : 1..MaxWorkRevision, usable : BOOLEAN] /\ copyFaults' \in 0..MaxCopyFaults
    BY DEF CopiesInv, CopiesType, LoadCopy, store, outside
  <1>2. caller[c] \in Allocating /\ AllocatingOK(caller[c]) /\ caller[c].at = "load"
    BY CallTyped DEF LoadCopy, CopyCallOK, CreateSteps
  <1>3. CASE caller' = [caller EXCEPT ![c] = NotCalling] /\ UNCHANGED answers
    BY <1>1, <1>3, CallEnds DEF Ends
  <1>4. CASE Goes(c, "attach") /\ UNCHANGED answers /\ caller[c].request = NoClaim
    <2>1. PICK call : call = [caller[c] EXCEPT !.at = "attach"]
      OBVIOUS
    <2>2. call \in Allocating /\ call.at = "attach" /\ call.request = caller[c].request /\ call.slot = caller[c].slot
          /\ call.in = caller[c].in
      BY <1>2, <2>1 DEF Allocating, CreateSteps
    <2>3. CopyCallOK(call)
      BY <1>2, <1>4, <2>2 DEF CopyCallOK, AllocatingOK, ApprovingOK, DecidingOK, SendingOK, RefusedOK, CreateSteps,
                             ReadSteps, Existing
    <2>4. caller' = [caller EXCEPT ![c] = call]
      BY <1>4, <2>1 DEF Goes, CopiesInv, CopiesType
    <2>5. QED
      BY <1>1, <1>4, <2>2, <2>3, <2>4, CallsOn DEF AnyCall
  <1>5. CASE Ends(c) /\ Answers(c, Existing(caller[c]).copy) /\ caller[c].request # NoClaim
    <2> DEFINE in == caller[c].in
               claim == caller[c].request
               answer == <<in.request, in.slot, in.config, claim.copy>>
    <2>1. answers' = answers \cup {answer}
      BY <1>5 DEF Answers, Existing
    <2>2. in \in Input /\ requestClaim[in.request] = claim /\ claim.fingerprint = <<in.slot, in.config>>
      BY <1>2, <1>5 DEF Allocating, AllocatingOK, CreateSteps, Existing, Fingerprint
    <2>3. claim \in [copy : Copies, fingerprint : Slots \X Configs]
      BY <1>2, <1>5 DEF Allocating, Claims
    <2>4. requestClaim[answer[1]] = [copy |-> answer[4], fingerprint |-> <<answer[2], answer[3]>>]
      BY <2>2, <2>3
    <2>5. answer \in Creations \X Slots \X Configs \X Copies
      BY <2>2, <2>3 DEF Input
    <2> HIDE DEF answer
    <2>6. CopiesType'
      <3>1. caller' \in [Callers -> AnyCall]
        BY <1>5 DEF Ends, CopiesInv, CopiesType, AnyCall
      <3>2. answers' \subseteq (Creations \X Slots \X Configs \X Copies)
        BY <2>1, <2>5 DEF CopiesInv, CopiesType
      <3>3. QED
        BY <1>1, <3>1, <3>2 DEF CopiesInv, CopiesType, store
    <2>7. ClaimsFit'
      BY <1>1, <2>1, <2>4 DEF CopiesInv, ClaimsFit, store
    <2>8. \A d \in Callers : caller'[d] = caller[d] \/ caller'[d] = NotCalling
      BY <1>5 DEF Ends, CopiesInv, CopiesType
    <2>9. OneSender'
      BY <2>8 DEF OneSender, CopiesInv, NotCalling
    <2>10. ASSUME NEW p \in Copies PROVE (Paced(p) /\ Once(p) /\ Made(p))'
      BY <1>1, <2>10 DEF CopiesInv, Paced, Once, Made, Makes, Version, store
    <2>11. ASSUME NEW d \in Callers PROVE CopyCallOK(caller[d])'
      <3>1. CopyCallOK(NotCalling)
        BY DEF CopyCallOK, AllocatingOK, ApprovingOK, DecidingOK, SendingOK, RefusedOK, NotCalling, CreateSteps, ReadSteps
      <3>2. PICK x : x = caller'[d]
        OBVIOUS
      <3>3. CopyCallOK(x)
        BY <2>8, <3>1, <3>2 DEF CopiesInv
      <3>4. CopyCallOK(x)'
        BY <1>1, <3>3, CallStands
      <3>5. QED
        BY <3>2, <3>4
    <2>12. QED
      BY <2>6, <2>7, <2>9, <2>10, <2>11 DEF CopiesInv
  <1>6. QED
    BY <1>3, <1>4, <1>5 DEF LoadCopy, Ends

\* A claim is written: what the calls have read of the claims stands.
LEMMA ClaimWritten ==
  ASSUME CopiesInv, NEW call \in AnyCall, CopyCallOK(call), UNCHANGED <<operation, objects, carried>>,
         \A r \in Creations : requestClaim[r] # NoClaim => requestClaim'[r] = requestClaim[r],
         \A s \in Slots : slotClaim[s] # NoClaim => slotClaim'[s] = slotClaim[s],
         \A p \in Copies : publication[p].revision > 0 => publication'[p] = publication[p],
         \A p \in Copies : publication'[p].revision >= publication[p].revision
  PROVE  CopyCallOK(call)'
  <1>1. call.at \in CreateSteps => call \in Allocating
    BY DEF AnyCall, NotCalling, Allocating, Approving, Deciding, CreateSteps, ReadSteps
  <1>2. call.at \in {"active", "approve"} => call \in Approving
    BY DEF AnyCall, NotCalling, Allocating, Approving, Deciding, CreateSteps, ReadSteps
  <1>3. call.at \in ReadSteps \cup {"send"} => call \in Deciding
    BY DEF AnyCall, NotCalling, Allocating, Approving, Deciding, CreateSteps, ReadSteps
  <1>4. AllocatingOK(call)'
    BY <1>1 DEF CopyCallOK, AllocatingOK, Allocating, Input, Existing
  <1>5. ASSUME call.at \in {"active", "approve"} PROVE ApprovingOK(call)'
    <2>1. call.copy \in Copies /\ call.revision \in 1..(MaxCopyRevision - 4) /\ call.revision <= publication[call.copy].revision
      BY <1>2, <1>5 DEF Approving, CopyCallOK, ApprovingOK
    <2>2. publication[call.copy].revision > 0
      BY <2>1 DEF CopiesInv, CopiesType, Publication, Revisions
    <2>3. publication'[call.copy] = publication[call.copy]
      BY <2>1, <2>2
    <2>4. QED
      BY <1>5, <2>1, <2>3 DEF CopyCallOK, ApprovingOK, Matches, Settled
  <1>6. DecidingOK(call)'
    <2>1. ASSUME call.at \in ReadSteps PROVE publication'[call.copy] = publication[call.copy]
      <3>1. call.copy \in Copies /\ 1 <= call.revision /\ call.revision <= publication[call.copy].revision
            /\ call.revision \in Revisions
        BY <1>3, <2>1 DEF Deciding, CopyCallOK, DecidingOK
      <3>2. publication[call.copy].revision > 0
        BY <3>1 DEF CopiesInv, CopiesType, Publication, Revisions
      <3>3. QED
        BY <3>1, <3>2
    <2>2. QED
      BY <1>3, <2>1 DEF CopyCallOK, DecidingOK, Deciding, Binds, ReadSteps
  <1>7. SendingOK(call)' /\ RefusedOK(call)'
    BY DEF CopyCallOK, SendingOK, RefusedOK
  <1>8. QED
    BY <1>4, <1>5, <1>6, <1>7 DEF CopyCallOK, ApprovingOK

\* A slot is given to a new copy, or a later request is given the slot's copy.
LEMMA ClaimCommitted ==
  ASSUME CopiesAssumption, CopiesInv, NEW c \in Callers, CommitCopy(c) \/ AttachRequest(c)
  PROVE  CopiesInv' /\ KeepsBinding
  <1>1. caller[c] \in Allocating /\ AllocatingOK(caller[c])
    BY CallTyped DEF CommitCopy, AttachRequest, CopyCallOK, CreateSteps
  <1>2. CASE Conflict(c)
    <2>1. UNCHANGED outside /\ caller[c].at \in {"commit", "attach"} /\ UNCHANGED store
      BY <1>2 DEF CommitCopy, AttachRequest, Conflict
    <2>2. QED
      BY <1>2, <2>1, ConflictOn DEF KeepsBinding, store
  <1>3. CASE ~Conflict(c)
    <2>1. PICK in : in = caller[c].in
      OBVIOUS
    <2> DEFINE answer(p) == <<in.request, in.slot, in.config, p>>
               New == [copy |-> in.copy, fingerprint |-> Fingerprint(in)]
               Old == [copy |-> caller[c].slot.copy, fingerprint |-> Fingerprint(in)]
    <2>2. in \in Input
      BY <1>1, <2>1 DEF Allocating
    <2>3. PICK claim : claim = IF CommitCopy(c) THEN New ELSE Old
      OBVIOUS
    <2>4. PICK made : made = [NoPublication EXCEPT !.slot = in.slot, !.revision = 1]
      OBVIOUS
    <2>5. UNCHANGED <<operation, remoteClaim, work, objects, carried, copyFaults>>
      BY <1>3 DEF CommitCopy, AttachRequest, outside
    <2>6. /\ caller' = [caller EXCEPT ![c] = NotCalling] /\ answers' = answers \cup {answer(claim.copy)}
          /\ requestClaim[in.request] = NoClaim /\ requestClaim' = [requestClaim EXCEPT ![in.request] = claim]
      BY <1>3, <2>1, <2>3 DEF CommitCopy, AttachRequest, Ends, Answers, Allocatable
    <2>7. \/ /\ publication[in.copy].revision = 0 /\ slotClaim[in.slot] = NoClaim /\ claim.copy = in.copy
             /\ publication' = [publication EXCEPT ![in.copy] = made]
             /\ slotClaim' = [slotClaim EXCEPT ![in.slot] = claim]
          \/ UNCHANGED <<publication, slotClaim>> /\ slotClaim[in.slot] = claim
      BY <1>3, <2>1, <2>3, <2>4 DEF CommitCopy, AttachRequest, Allocatable
    <2>8. claim \in [copy : Copies, fingerprint : Slots \X Configs] /\ claim.fingerprint = <<in.slot, in.config>>
          /\ claim # NoClaim
      <3>1. CASE CommitCopy(c)
        BY <2>2, <2>3, <3>1 DEF Input, Fingerprint, NoClaim, CopiesAssumption
      <3>2. CASE ~CommitCopy(c)
        <4>1. AttachRequest(c) /\ slotClaim[in.slot] = claim /\ claim = Old
          BY <1>3, <2>1, <2>3, <3>2 DEF AttachRequest
        <4>2. claim \in Claims
          BY <2>2, <4>1 DEF CopiesInv, CopiesType, Input
        <4>3. claim.fingerprint = <<in.slot, in.config>>
          BY <4>1 DEF Fingerprint
        <4>4. claim # NoClaim
          <5>1. <<in.slot, in.config>> # <<>> /\ NoClaim.fingerprint = <<>>
            BY DEF NoClaim
          <5>2. QED
            BY <4>3, <5>1
        <4>5. QED
          BY <4>2, <4>3, <4>4 DEF Claims
      <3>3. QED
        BY <3>1, <3>2
    <2>9. claim \in Claims /\ claim = [copy |-> claim.copy, fingerprint |-> <<in.slot, in.config>>] /\ claim.copy \in Copies
      BY <2>8 DEF Claims
    <2>10. made.slot = in.slot /\ made.revision = 1 /\ made.remote = NoRemote /\ made.active = 0
      BY <2>4 DEF NoPublication
    <2>11. made \in Publication
      <3>1. made = [slot |-> in.slot, revision |-> 1, remote |-> NoRemote, active |-> 0]
        BY <2>4 DEF NoPublication
      <3>2. in.slot \in Slots /\ 0 \in Revisions /\ 1 \in Revisions
        BY <2>2 DEF Input, Revisions, CopiesAssumption
      <3>3. QED
        BY <3>1, <3>2 DEF Publication
    <2> HIDE DEF New, Old, answer
    <2>12. /\ \A s \in Slots : s # in.slot => slotClaim'[s] = slotClaim[s]
           /\ slotClaim'[in.slot] = claim
           /\ \A s \in Slots : slotClaim[s] # NoClaim => slotClaim'[s] = slotClaim[s]
           /\ slotClaim' \in [Slots -> Claims]
      BY <2>2, <2>7, <2>9 DEF CopiesInv, CopiesType, Input
    <2>13. /\ \A r \in Creations : r # in.request => requestClaim'[r] = requestClaim[r]
           /\ requestClaim'[in.request] = claim
           /\ \A r \in Creations : requestClaim[r] # NoClaim => requestClaim'[r] = requestClaim[r]
           /\ requestClaim' \in [Creations -> Claims]
      BY <2>2, <2>6, <2>9 DEF CopiesInv, CopiesType, Input
    <2>14. /\ publication' \in [Copies -> Publication]
           /\ \A p \in Copies : p # in.copy => publication'[p] = publication[p]
           /\ \A p \in Copies : publication[p].revision > 0 => publication'[p] = publication[p]
           /\ \/ publication'[in.copy] = publication[in.copy]
              \/ publication[in.copy].revision = 0 /\ publication'[in.copy] = made
      <3>1. publication \in [Copies -> Publication] /\ in.copy \in Copies
        BY <2>2 DEF CopiesInv, CopiesType, Input
      <3>2. CASE UNCHANGED publication
        BY <3>1, <3>2
      <3>3. CASE publication[in.copy].revision = 0 /\ publication' = [publication EXCEPT ![in.copy] = made]
        BY <2>11, <3>1, <3>3
      <3>4. QED
        BY <2>7, <3>2, <3>3
    <2>15. \A p \in Copies : publication[p].revision \in Nat
      BY DEF CopiesInv, CopiesType, Publication, Revisions
    <2>16. \A p \in Copies : publication'[p].revision >= publication[p].revision
      BY <2>10, <2>14, <2>15
    <2>17. \A d \in Callers : caller'[d] = caller[d] \/ caller'[d] = NotCalling
      BY <2>6 DEF CopiesInv, CopiesType
    <2>18. CopiesType'
      <3>1. caller' \in [Callers -> AnyCall]
        BY <2>6 DEF CopiesInv, CopiesType, AnyCall
      <3>2. answer(claim.copy) \in Creations \X Slots \X Configs \X Copies
        BY <2>2, <2>9 DEF Input, answer
      <3>3. answers' \subseteq (Creations \X Slots \X Configs \X Copies)
        BY <2>6, <3>2 DEF CopiesInv, CopiesType
      <3>4. QED
        BY <2>5, <2>12, <2>13, <2>14, <3>1, <3>3 DEF CopiesInv, CopiesType
    <2>19. ClaimsFit'
      <3>1. /\ publication'[claim.copy].revision > 0 /\ publication'[claim.copy].slot = in.slot
        <4>1. CASE UNCHANGED <<publication, slotClaim>> /\ slotClaim[in.slot] = claim
          BY <2>2, <2>8, <4>1 DEF CopiesInv, ClaimsFit, Input
        <4>2. CASE claim.copy = in.copy /\ publication' = [publication EXCEPT ![in.copy] = made]
          BY <2>2, <2>10, <4>2 DEF CopiesInv, CopiesType, Input
        <4>3. QED
          BY <2>7, <4>1, <4>2
      <3>2. ASSUME NEW s \in Slots, slotClaim'[s] # NoClaim
            PROVE  /\ publication'[slotClaim'[s].copy].revision > 0 /\ publication'[slotClaim'[s].copy].slot = s
                   /\ slotClaim'[s].fingerprint[1] = s
        <4>1. CASE s = in.slot
          BY <2>8, <2>12, <3>1, <4>1
        <4>2. CASE s # in.slot
          <5>1. slotClaim[s].copy \in Copies /\ slotClaim'[s] = slotClaim[s]
            BY <2>12, <3>2, <4>2 DEF CopiesInv, CopiesType, Claims
          <5>2. QED
            BY <2>14, <3>2, <5>1 DEF CopiesInv, ClaimsFit
        <4>3. QED
          BY <4>1, <4>2
      <3>3. ASSUME NEW r \in Creations, requestClaim'[r] # NoClaim
            PROVE  slotClaim'[requestClaim'[r].fingerprint[1]] = requestClaim'[r]
        <4>1. CASE r = in.request
          BY <2>8, <2>12, <2>13, <4>1
        <4>2. CASE r # in.request
          <5>1. requestClaim'[r] = requestClaim[r] /\ requestClaim[r].fingerprint[1] \in Slots
            BY <2>13, <3>3, <4>2 DEF CopiesInv, CopiesType, Claims
          <5>2. QED
            BY <2>12, <3>3, <5>1 DEF CopiesInv, ClaimsFit
        <4>3. QED
          BY <4>1, <4>2
      <3>4. ASSUME NEW a \in answers'
            PROVE  requestClaim'[a[1]] = [copy |-> a[4], fingerprint |-> <<a[2], a[3]>>]
        <4>1. CASE a = answer(claim.copy)
          BY <2>2, <2>9, <2>13, <4>1 DEF answer
        <4>2. CASE a \in answers
          <5>1. a[1] \in Creations
            BY <4>2 DEF CopiesInv, CopiesType
          <5>2. requestClaim[a[1]] = [copy |-> a[4], fingerprint |-> <<a[2], a[3]>>]
            BY <4>2 DEF CopiesInv, ClaimsFit
          <5>3. requestClaim[a[1]] # NoClaim
            <6>1. requestClaim[a[1]].fingerprint = <<a[2], a[3]>>
              BY <5>2
            <6>2. QED
              BY <6>1 DEF NoClaim
          <5>4. QED
            BY <2>13, <5>1, <5>2, <5>3
        <4>3. QED
          BY <2>6, <3>4, <4>1, <4>2
      <3>5. ASSUME NEW p \in Copies, publication'[p].revision > 0
            PROVE  slotClaim'[publication'[p].slot] # NoClaim /\ slotClaim'[publication'[p].slot].copy = p
        <4>1. CASE publication[p].revision > 0
          <5>1. publication'[p] = publication[p] /\ publication[p].slot \in Slots
            BY <2>14, <4>1 DEF CopiesInv, CopiesType, Publication
          <5>2. QED
            BY <2>12, <4>1, <5>1 DEF CopiesInv, ClaimsFit
        <4>2. CASE ~(publication[p].revision > 0)
          <5>1. p = in.copy /\ publication' # publication
            BY <2>14, <3>5, <4>2
          <5>2. QED
            BY <2>7, <2>8, <2>10, <2>12, <2>14, <3>5, <4>2, <5>1
        <4>3. QED
          BY <4>1, <4>2
      <3>6. QED
        BY <3>2, <3>3, <3>4, <3>5 DEF ClaimsFit
    <2>20. OneSender'
      BY <2>17 DEF OneSender, CopiesInv, NotCalling
    <2>21. ASSUME NEW p \in Copies PROVE (Paced(p) /\ Once(p) /\ Made(p))' /\ publication'[p].remote = publication[p].remote
      <3>1. publication'[p].active = publication[p].active /\ publication'[p].remote = publication[p].remote
            /\ (publication[p].active = 0 => publication'[p].revision <= 1)
            /\ (publication[p].active # 0 => publication'[p].revision = publication[p].revision)
        <4>1. CASE publication'[p] = publication[p]
          BY <4>1 DEF CopiesInv, Paced
        <4>2. CASE publication[p].revision = 0 /\ publication'[p] = made
          <5>1. publication[p].active = 0
            <6>1. ASSUME publication[p].active # 0 PROVE FALSE
              <7>1. publication[p].active \in Revisions /\ operation[p][publication[p].active] \in Operation
                BY DEF CopiesInv, CopiesType, Publication
              <7>2. 1 = publication[p].active + operation[p][publication[p].active].version
                    /\ operation[p][publication[p].active].state # "none" /\ publication[p].active >= 2
                BY <4>2, <6>1, <7>1 DEF CopiesInv, Paced
              <7>3. QED
                BY <7>1, <7>2 DEF Operation, Revisions
            <6>2. QED
              BY <6>1
          <5>2. publication[p].remote = NoRemote
            BY <5>1 DEF CopiesInv, Paced
          <5>3. QED
            BY <2>10, <4>2, <5>1, <5>2
        <4>3. QED
          BY <2>14, <4>1, <4>2
      <3>2. Paced(p)'
        BY <2>5, <3>1 DEF CopiesInv, Paced, Version
      <3>3. Once(p)'
        BY <2>5 DEF CopiesInv, Once
      <3>4. Made(p)'
        BY <2>5, <3>1 DEF CopiesInv, Made, Makes
      <3>5. QED
        BY <3>1, <3>2, <3>3, <3>4
    <2>22. ASSUME NEW d \in Callers PROVE CopyCallOK(caller[d])'
      <3>1. CopyCallOK(NotCalling) /\ NotCalling \in AnyCall
        BY DEF CopyCallOK, AllocatingOK, ApprovingOK, DecidingOK, SendingOK, RefusedOK, NotCalling,
               CreateSteps, ReadSteps, AnyCall
      <3>2. PICK x : x = caller'[d]
        OBVIOUS
      <3>3. CopyCallOK(x) /\ x \in AnyCall
        BY <2>17, <3>1, <3>2 DEF CopiesInv, CopiesType
      <3>4. CopyCallOK(x)'
        BY <2>5, <2>12, <2>13, <2>14, <2>16, <3>3, ClaimWritten
      <3>5. QED
        BY <3>2, <3>4
    <2>23. KeepsBinding
      BY <2>5, <2>21 DEF KeepsBinding
    <2>24. QED
      BY <2>18, <2>19, <2>20, <2>21, <2>22, <2>23 DEF CopiesInv
  <1>4. QED
    BY <1>2, <1>3

-----------------------------------------------------------------------------
\* What the invariant says of one copy's operation.
LEMMA OperationKnown ==
  ASSUME CopiesAssumption, CopiesInv, NEW p \in Copies, NEW n \in Revisions
  PROVE  /\ operation[p][n] \in Operation /\ publication[p] \in Publication /\ carried[p][n] \in Nat
         /\ Version(operation[p][n])
         /\ operation[p][n].state # "none" => 2 <= n /\ n <= publication[p].active /\ n < publication[p].revision + 1
                                              /\ 1 <= publication[p].revision
  <1>1. operation[p][n] \in Operation /\ publication[p] \in Publication /\ carried[p][n] \in Nat
    BY DEF CopiesInv, CopiesType
  <1>2. Version(operation[p][n]) /\ (operation[p][n].state # "none" => 2 <= n /\ n <= publication[p].active)
    BY DEF CopiesInv, Paced
  <1>3. ASSUME operation[p][n].state # "none" PROVE n < publication[p].revision + 1 /\ 1 <= publication[p].revision
    <2>1. PICK a \in Revisions : a = publication[p].active
      BY <1>1 DEF Publication
    <2>2. n \in Nat /\ a \in Nat /\ n <= a /\ 2 <= n
      BY <1>2, <1>3, <2>1 DEF Revisions
    <2>3. publication[p].revision + 1 = a + operation[p][a].version /\ operation[p][a].state # "none"
      BY <2>1, <2>2 DEF CopiesInv, Paced
    <2>4. operation[p][a].version \in Nat \ {0}
      <3>1. operation[p][a] \in Operation /\ Version(operation[p][a])
        BY <2>1 DEF CopiesInv, CopiesType, Paced
      <3>2. QED
        BY <2>3, <3>1 DEF Version, Operation
    <2>5. publication[p].revision \in Nat
      BY <1>1 DEF Publication, Revisions
    <2>6. QED
      BY <2>2, <2>3, <2>4, <2>5
  <1>4. QED
    BY <1>1, <1>2, <1>3

\* An approval reads the copy it is handed and the operation that is active.
LEMMA ApprovalRead ==
  ASSUME CopiesAssumption, CopiesInv, NEW c \in Callers,
         ReadActive(c) \/ \E p \in Copies, kind \in Kinds : Approve(c, p, kind)
  PROVE  CopiesInv'
  <1>1. /\ UNCHANGED <<store, objects, carried, answers>>
        /\ work' \in [revision : 1..MaxWorkRevision, usable : BOOLEAN] /\ copyFaults' \in 0..MaxCopyFaults
    BY DEF CopiesInv, CopiesType, ReadActive, Approve, store, outside
  <1> USE DEF CopyCallOK, AllocatingOK, DecidingOK, SendingOK, RefusedOK, CreateSteps, ReadSteps
  <1>2. ASSUME NEW p \in Copies, NEW kind \in Kinds, Approve(c, p, kind) PROVE CopiesInv'
    <2>1. PICK call : call = [at |-> IF publication[p].active = 0 THEN "approve" ELSE "active", copy |-> p,
                              revision |-> publication[p].revision, active |-> publication[p].active,
                              kind |-> kind, source |-> work.revision]
      OBVIOUS
    <2>2. publication[p].revision \in Revisions /\ publication[p].active \in Revisions /\ work.revision \in 1..MaxWorkRevision
      BY DEF CopiesInv, CopiesType, Publication
    <2>3. call \in Approving
      BY <2>1, <2>2 DEF Approving
    <2>4. ApprovingOK(call)
      BY <1>2, <2>1, <2>2 DEF ApprovingOK, Approve, Revisions
    <2>5. CopyCallOK(call) /\ call.at # "send"
      BY <2>1, <2>4
    <2>6. caller' = [caller EXCEPT ![c] = call]
      BY <1>2, <2>1 DEF Approve, Starts
    <2>7. QED
      BY <1>1, <2>3, <2>5, <2>6, CallsOn DEF AnyCall
  <1>3. CASE ReadActive(c) /\ Settled(caller[c].copy, caller[c].active) /\ Goes(c, "approve")
    <2>1. PICK call : call = [caller[c] EXCEPT !.at = "approve"]
      OBVIOUS
    <2>2. caller[c] \in Approving /\ ApprovingOK(caller[c]) /\ caller[c].at = "active"
      BY <1>3, CallTyped DEF ReadActive
    <2>3. call \in Approving /\ call.at = "approve" /\ call.copy = caller[c].copy /\ call.active = caller[c].active
          /\ call.revision = caller[c].revision /\ call.kind = caller[c].kind
      BY <2>1, <2>2 DEF Approving
    <2>4. CopyCallOK(call) /\ call.at # "send"
      BY <1>3, <2>2, <2>3 DEF ApprovingOK
    <2>5. caller' = [caller EXCEPT ![c] = call]
      BY <1>3, <2>1 DEF Goes, CopiesInv, CopiesType
    <2>6. QED
      BY <1>1, <2>3, <2>4, <2>5, CallsOn DEF AnyCall
  <1>4. CASE Ends(c)
    BY <1>1, <1>4, CallEnds
  <1>5. QED
    BY <1>2, <1>3, <1>4 DEF ReadActive

\* A transition reads the copy, then the operation.
LEMMA TransitionRead ==
  ASSUME CopiesAssumption, CopiesInv, NEW c \in Callers,
         \/ ReadOperation(c) \/ CrashCaller(c)
         \/ \E p \in Copies, n \in Revisions : \/ \E to \in States : Transition(c, p, n, to)
                                               \/ \E r \in Remotes \cup {NoRemote} : Readback(c, p, n, r)
  PROVE  CopiesInv'
  <1>1. /\ UNCHANGED <<store, objects, carried, answers>>
        /\ work' \in [revision : 1..MaxWorkRevision, usable : BOOLEAN]
    BY DEF CopiesInv, CopiesType, ReadOperation, CrashCaller, Transition, Readback, store, outside
  <1>2. copyFaults' \in 0..MaxCopyFaults
    <2>1. UNCHANGED copyFaults \/ CopyFault
      BY DEF ReadOperation, CrashCaller, Transition, Readback, outside
    <2>2. QED
      BY <2>1 DEF CopiesInv, CopiesType, CopyFault, CopiesAssumption
  <1> USE DEF CopyCallOK, AllocatingOK, ApprovingOK, SendingOK, CreateSteps, ReadSteps
  <1>3. ASSUME NEW p \in Copies, NEW n \in Revisions, NEW to \in States, NEW r \in Remotes \cup {NoRemote},
               operation[p][n].state # "none", to # "FAILED",
               Starts(c, ReadCopy(c, [copy |-> p, active |-> n, to |-> to, binding |-> r]))
        PROVE  CopiesInv'
    <2>1. PICK call : call = ReadCopy(c, [copy |-> p, active |-> n, to |-> to, binding |-> r])
      OBVIOUS
    <2>2. call = [at |-> "operation", copy |-> p, active |-> n, to |-> to, binding |-> r,
                  version |-> operation[p][n].version, revision |-> publication[p].revision]
      BY <2>1 DEF ReadCopy
    <2>3. operation[p][n].version \in Revisions /\ publication[p].revision \in Revisions /\ 1 <= publication[p].revision
      BY <1>3, OperationKnown DEF Operation, Publication, Revisions
    <2>4. call \in Deciding
      BY <2>2, <2>3 DEF Deciding
    <2>5. CopyCallOK(call) /\ call.at # "send"
      BY <1>3, <2>2, <2>3 DEF DecidingOK, RefusedOK, Revisions
    <2>6. caller' = [caller EXCEPT ![c] = call]
      BY <1>3, <2>1 DEF Starts
    <2>7. QED
      BY <1>1, <1>2, <2>4, <2>5, <2>6, CallsOn DEF AnyCall
  <1>4. CASE ReadOperation(c) /\ Goes(c, "transition")
    <2>1. PICK call : call = [caller[c] EXCEPT !.at = "transition"]
      OBVIOUS
    <2>2. caller[c] \in Deciding /\ DecidingOK(caller[c]) /\ RefusedOK(caller[c]) /\ caller[c].at = "operation"
      BY <1>4, CallTyped DEF ReadOperation
    <2>3. call \in Deciding /\ call.at = "transition" /\ call.copy = caller[c].copy /\ call.active = caller[c].active
          /\ call.to = caller[c].to /\ call.binding = caller[c].binding /\ call.version = caller[c].version
          /\ call.revision = caller[c].revision
      BY <2>1, <2>2 DEF Deciding
    <2>4. /\ publication[call.copy].active = call.active
          /\ call.to \in Following(operation[call.copy][call.active].state)
          /\ Binds(call.copy, operation[call.copy][call.active].kind, call.to, call.binding)
      <3>1. Goes(c, "transition") /\ ~Ends(c)
        <4>1. caller'[c].at = "transition"
          BY <1>4, <2>2 DEF Goes, CopiesInv, CopiesType, Deciding
        <4>2. QED
          BY <1>4, <4>1 DEF Ends, NotCalling, CopiesInv, CopiesType
      <3>2. QED
        BY <1>4, <2>3, <3>1 DEF ReadOperation
    <2>5. CopyCallOK(call) /\ call.at # "send"
      BY <2>2, <2>3, <2>4 DEF DecidingOK, RefusedOK
    <2>6. caller' = [caller EXCEPT ![c] = call]
      BY <1>4, <2>1 DEF Goes, CopiesInv, CopiesType
    <2>7. QED
      BY <1>1, <1>2, <2>3, <2>5, <2>6, CallsOn DEF AnyCall
  <1>5. CASE Ends(c)
    BY <1>1, <1>2, <1>5, CallEnds
  <1>6. ASSUME NEW p \in Copies, NEW n \in Revisions, NEW to \in States, Transition(c, p, n, to) PROVE CopiesInv'
    <2>1. to # "FAILED" /\ operation[p][n].state # "none"
      BY <1>6 DEF Transition
    <2>2. QED
      BY <1>3, <1>6, <2>1 DEF Transition
  <1>7. ASSUME NEW p \in Copies, NEW n \in Revisions, NEW r \in Remotes \cup {NoRemote}, Readback(c, p, n, r) PROVE CopiesInv'
    BY <1>3, <1>7 DEF Readback, States
  <1>8. QED
    BY <1>4, <1>5, <1>6, <1>7 DEF ReadOperation, CrashCaller

\* commitPublicationOperation changes one copy and its operation: what the calls know of
\* it is of an earlier revision.
LEMMA CallsLeft ==
  ASSUME CopiesAssumption, CopiesInv, NEW call \in AnyCall, CopyCallOK(call), NEW p \in Copies, NEW n \in Revisions,
         UNCHANGED <<requestClaim, slotClaim, objects, carried>>,
         \A q \in Copies : q # p => publication'[q] = publication[q] /\ operation'[q] = operation[q],
         publication'[p].revision = publication[p].revision + 1,
         \A m \in Revisions : m # n => operation'[p][m] = operation[p][m],
         call.at = "send" /\ call.copy = p /\ call.active = n => operation'[p][n].state \in InPlay,
         RefusedOK(call)'
  PROVE  CopyCallOK(call)'
  <1>1. call.at \in CreateSteps => call \in Allocating
    BY DEF AnyCall, NotCalling, Allocating, Approving, Deciding, CreateSteps, ReadSteps
  <1>2. call.at \in {"active", "approve"} => call \in Approving
    BY DEF AnyCall, NotCalling, Allocating, Approving, Deciding, CreateSteps, ReadSteps
  <1>3. call.at \in ReadSteps \cup {"send"} => call \in Deciding
    BY DEF AnyCall, NotCalling, Allocating, Approving, Deciding, CreateSteps, ReadSteps
  <1>4. \A q \in Copies : publication[q].revision \in Nat
    BY DEF CopiesInv, CopiesType, Publication, Revisions
  <1>5. AllocatingOK(call)'
    BY DEF CopyCallOK, AllocatingOK, Existing
  <1>6. ApprovingOK(call)'
    <2>1. SUFFICES ASSUME call.at \in {"active", "approve"} PROVE ApprovingOK(call)'
      BY DEF ApprovingOK
    <2>2. call.copy \in Copies /\ call.revision \in Nat /\ ApprovingOK(call)
      BY <1>2, <2>1 DEF Approving, Revisions, CopyCallOK
    <2>3. CASE call.copy = p
      BY <1>4, <2>1, <2>2, <2>3 DEF ApprovingOK
    <2>4. CASE call.copy # p
      BY <2>1, <2>2, <2>4 DEF ApprovingOK, Matches, Settled
    <2>5. QED
      BY <2>3, <2>4
  <1>7. DecidingOK(call)'
    <2>1. SUFFICES ASSUME call.at \in ReadSteps PROVE DecidingOK(call)'
      BY DEF DecidingOK, ReadSteps
    <2>2. call.copy \in Copies /\ call.revision \in Nat /\ DecidingOK(call)
      BY <1>3, <2>1 DEF Deciding, Revisions, CopyCallOK
    <2>3. CASE call.copy = p
      BY <1>4, <2>1, <2>2, <2>3 DEF DecidingOK
    <2>4. CASE call.copy # p
      BY <2>1, <2>2, <2>4 DEF DecidingOK, Binds
    <2>5. QED
      BY <2>3, <2>4
  <1>8. SendingOK(call)'
    <2>1. SUFFICES ASSUME call.at = "send" PROVE SendingOK(call)'
      BY DEF SendingOK
    <2>2. call.copy \in Copies /\ call.active \in Revisions /\ SendingOK(call)
      BY <1>3, <2>1 DEF Deciding, CopyCallOK
    <2>3. operation'[call.copy][call.active] = operation[call.copy][call.active] \/ (call.copy = p /\ call.active = n)
      BY <2>2
    <2>4. QED
      BY <2>1, <2>2, <2>3 DEF SendingOK
  <1>9. QED
    BY <1>5, <1>6, <1>7, <1>8 DEF CopyCallOK

\* An approval is committed: a new operation, which nothing was done for.
LEMMA ApprovalCommitted ==
  ASSUME CopiesAssumption, CopiesInv, NEW c \in Callers, CommitApproval(c)
  PROVE  CopiesInv' /\ KeepsBinding
  <1>1. PICK p, n : p = caller[c].copy /\ n = caller[c].revision + 1
    OBVIOUS
  <1>2. caller[c] \in Approving /\ ApprovingOK(caller[c]) /\ caller[c].at = "approve"
    BY CallTyped DEF CommitApproval, CopyCallOK
  <1>3. CASE UNCHANGED <<operation, publication>>
    BY <1>3, CallEnds DEF CommitApproval, KeepsBinding, store, outside, CopiesInv, CopiesType
  <1>4. CASE publication[p].revision = caller[c].revision /\ operation[p][n].version = 0 /\ ~UNCHANGED <<operation, publication>>
    <2>1. PICK new : new = [state |-> "PREPARED", version |-> 1, kind |-> caller[c].kind, source |-> caller[c].source]
      OBVIOUS
    <2>2. /\ operation' = [operation EXCEPT ![p][n] = new]
          /\ publication' = [publication EXCEPT ![p].revision = n, ![p].active = n]
          /\ caller' = [caller EXCEPT ![c] = NotCalling]
          /\ UNCHANGED <<work, requestClaim, slotClaim, remoteClaim, objects, carried, copyFaults, answers>>
      BY <1>1, <1>4, <2>1 DEF CommitApproval, Unchanged, Ends, outside
    <2>3. p \in Copies /\ publication[p] \in Publication /\ publication[p].revision \in 1..(MaxCopyRevision - 4)
          /\ n = publication[p].revision + 1 /\ publication[p].active = caller[c].active /\ Matches(caller[c].kind, p)
          /\ (publication[p].active = 0 \/ Settled(p, publication[p].active))
      BY <1>1, <1>2, <1>4 DEF Approving, ApprovingOK, CopiesInv, CopiesType
    <2>4. n \in Revisions /\ 2 <= n /\ n + 3 <= MaxCopyRevision /\ 1 \in Revisions
      BY <2>3 DEF Revisions, CopiesAssumption
    <2>5. new \in Operation
      <3>1. caller[c].source \in 0..MaxWorkRevision /\ caller[c].kind \in Kinds
        BY <1>2 DEF Approving, CopiesAssumption
      <3>2. 1 \in 0..MaxCopyRevision
        BY <2>4 DEF Revisions
      <3>3. QED
        BY <2>1, <3>1, <3>2 DEF Operation, States
    <2>6. \A m \in Revisions : operation[p][m].state # "none" => m < n
      <3>1. ASSUME NEW m \in Revisions, operation[p][m].state # "none" PROVE m < publication[p].revision + 1
        BY <2>3, <3>1, OperationKnown
      <3>2. QED
        BY <2>3, <3>1
    <2>7. operation[p][n].state = "none" /\ carried[p][n] = 0
      BY <2>3, <2>4, <2>6 DEF CopiesInv, Once, Revisions
    <2>8. /\ publication' \in [Copies -> Publication]
          /\ publication'[p].revision = n /\ publication'[p].active = n /\ publication'[p].slot = publication[p].slot
          /\ publication'[p].remote = publication[p].remote
          /\ \A q \in Copies : q # p => publication'[q] = publication[q]
      BY <2>2, <2>3, <2>4 DEF CopiesInv, CopiesType, Publication
    <2>9. /\ operation' \in [Copies -> [Revisions -> Operation]]
          /\ operation'[p][n] = new
          /\ \A m \in Revisions : m # n => operation'[p][m] = operation[p][m]
          /\ \A q \in Copies : q # p => operation'[q] = operation[q]
      BY <2>2, <2>3, <2>4, <2>5 DEF CopiesInv, CopiesType
    <2>10. \A m \in Revisions : operation[p][m].state \in Final \cup {"none"}
      BY <2>3 DEF CopiesInv, Paced, Settled
    <2>11. \A d \in Callers : caller'[d] = caller[d] \/ caller'[d] = NotCalling
      BY <2>2 DEF CopiesInv, CopiesType
    <2>12. CopiesType'
      <3>1. caller' \in [Callers -> AnyCall]
        BY <2>2 DEF CopiesInv, CopiesType, AnyCall
      <3>2. QED
        BY <2>2, <2>8, <2>9, <3>1 DEF CopiesInv, CopiesType
    <2>13. ClaimsFit'
      <3>1. \A q \in Copies :
              publication'[q].slot = publication[q].slot /\ (publication'[q].revision > 0 <=> publication[q].revision > 0)
        BY <2>3, <2>8
      <3>2. \A s \in Slots : slotClaim[s] # NoClaim => slotClaim[s].copy \in Copies
        BY DEF CopiesInv, CopiesType, Claims
      <3>3. QED
        BY <2>2, <3>1, <3>2 DEF CopiesInv, ClaimsFit
    <2>14. OneSender'
      BY <2>11 DEF OneSender, CopiesInv, NotCalling
    <2>15. ASSUME NEW q \in Copies, q # p PROVE (Paced(q) /\ Once(q) /\ Made(q))'
      BY <2>2, <2>8, <2>9, <2>15 DEF CopiesInv, Paced, Once, Made, Makes, Version
    <2>16. Paced(p)'
      <3>1. Version(new) /\ new.state # "none" /\ new.version = 1
        BY <2>1 DEF Version
      <3>2. ASSUME NEW m \in Revisions
            PROVE  /\ Version(operation'[p][m]) /\ (operation'[p][m].state # "none" => 2 <= m /\ m <= n)
                   /\ operation'[p][m].state \in Final \cup {"none"} \/ m = n
        <4>1. CASE m = n
          BY <2>4, <2>9, <3>1, <4>1 DEF Revisions
        <4>2. CASE m # n
          <5>1. operation'[p][m] = operation[p][m]
            BY <2>9, <4>2
          <5>2. Version(operation[p][m]) /\ (operation[p][m].state # "none" => 2 <= m)
            BY <2>3, OperationKnown
          <5>3. QED
            BY <2>4, <2>6, <2>10, <5>1, <5>2 DEF Revisions
        <4>3. QED
          BY <4>1, <4>2
      <3>3. publication'[p].active # 0 /\ publication'[p].active + 3 <= MaxCopyRevision
        BY <2>4, <2>8 DEF Revisions
      <3>4. publication'[p].revision + 1 = publication'[p].active + operation'[p][publication'[p].active].version
            /\ operation'[p][publication'[p].active].state # "none"
        BY <2>8, <2>9, <3>1
      <3>5. QED
        BY <2>8, <3>2, <3>3, <3>4 DEF Paced, Version
    <2>17. Once(p)'
      BY <2>2, <2>3, <2>7, <2>9 DEF CopiesInv, Once
    <2>18. Made(p)'
      <3>1. new.state = "PREPARED" /\ (new.kind = "CREATE" => publication[p].remote = NoRemote)
        BY <2>1, <2>3 DEF Matches
      <3>2. ASSUME NEW m \in Revisions PROVE Makes(p, m)' <=> Makes(p, m)
        <4>1. ~Makes(p, n)' /\ ~Makes(p, n)
          BY <2>7, <2>9, <3>1 DEF Makes, InPlay
        <4>2. QED
          BY <2>9, <4>1 DEF Makes
      <3>3. \A m \in Revisions : operation'[p][m].kind = "CREATE" =>
               /\ operation'[p][m].state \in {"PREPARED", "IN_FLIGHT", "AMBIGUOUS"} => publication'[p].remote = NoRemote
               /\ operation'[p][m].state = "CONFIRMED" => publication'[p].remote # NoRemote
        BY <2>3, <2>8, <2>9, <3>1 DEF CopiesInv, Made
      <3>4. QED
        BY <2>2, <2>3, <2>8, <3>2, <3>3 DEF CopiesInv, Made
    <2>19. ASSUME NEW d \in Callers PROVE CopyCallOK(caller[d])'
      <3>1. CopyCallOK(NotCalling) /\ NotCalling \in AnyCall
        BY DEF CopyCallOK, AllocatingOK, ApprovingOK, DecidingOK, SendingOK, RefusedOK, NotCalling,
               CreateSteps, ReadSteps, AnyCall
      <3>2. PICK x : x = caller'[d]
        OBVIOUS
      <3>3. CopyCallOK(x) /\ x \in AnyCall
        BY <2>11, <3>1, <3>2 DEF CopiesInv, CopiesType
      <3>4. x.at = "send" /\ x.copy = p /\ x.active = n => operation'[p][n].state \in InPlay
        BY <2>7, <3>3 DEF CopyCallOK, SendingOK, InPlay
      <3>5. RefusedOK(x)'
        <4>1. x.at \in ReadSteps => x.copy \in Copies /\ x.active \in Revisions
          BY <3>3 DEF AnyCall, NotCalling, Allocating, Approving, Deciding, CreateSteps, ReadSteps
        <4>2. \/ operation'[x.copy][x.active] = operation[x.copy][x.active]
              \/ x.copy = p /\ x.active = n
              \/ x.at \notin ReadSteps
          BY <2>3, <2>9, <4>1
        <4>3. QED
          BY <2>1, <2>2, <2>9, <3>3, <4>2 DEF CopyCallOK, RefusedOK
      <3>6. CopyCallOK(x)'
        BY <2>2, <2>3, <2>4, <2>8, <2>9, <3>3, <3>4, <3>5, CallsLeft
      <3>7. QED
        BY <3>2, <3>6
    <2>20. KeepsBinding
      BY <2>3, <2>7, <2>8, <2>9 DEF KeepsBinding, Final
    <2>21. QED
      BY <2>12, <2>13, <2>14, <2>15, <2>16, <2>17, <2>18, <2>19, <2>20 DEF CopiesInv
  <1>5. QED
    BY <1>1, <1>3, <1>4 DEF CommitApproval, Unchanged

\* A transition is committed.
LEMMA TransitionCommitted ==
  ASSUME CopiesAssumption, CopiesInv, NEW c \in Callers, CommitTransition(c)
  PROVE  CopiesInv' /\ KeepsBinding
  <1>1. PICK call : call = caller[c]
    OBVIOUS
  <1>2. PICK p, n, r, to : p = call.copy /\ n = call.active /\ r = call.binding /\ to = call.to
    OBVIOUS
  <1>3. call \in Deciding /\ CopyCallOK(call) /\ call.at = "transition"
    BY <1>1, CallTyped DEF CommitTransition, ReadSteps
  <1>4. p \in Copies /\ n \in Revisions /\ r \in Remotes \cup {NoRemote} /\ to \in States
    BY <1>2, <1>3 DEF Deciding
  <1>5. CASE Ends(c) /\ UNCHANGED <<operation, publication, remoteClaim>>
    <2>1. UNCHANGED <<store, objects, carried, answers>>
      BY <1>5 DEF CommitTransition, store, outside
    <2>2. work' \in [revision : 1..MaxWorkRevision, usable : BOOLEAN] /\ copyFaults' \in 0..MaxCopyFaults
      BY DEF CommitTransition, outside, CopiesInv, CopiesType
    <2>3. QED
      BY <1>5, <2>1, <2>2, CallEnds DEF KeepsBinding
  <1>6. CASE ~(Ends(c) /\ UNCHANGED <<operation, publication, remoteClaim>>)
    <2>1. /\ publication[p].revision = call.revision /\ RemoteFree(r, p)
          /\ operation' = [operation EXCEPT ![p][n].state = to, ![p][n].version = @ + 1]
          /\ publication' = [publication EXCEPT ![p].revision = @ + 1, ![p].remote = IF r = NoRemote THEN @ ELSE r]
          /\ remoteClaim' = IF r = NoRemote THEN remoteClaim ELSE [remoteClaim EXCEPT ![r] = p]
          /\ IF to = "IN_FLIGHT" THEN Goes(c, "send") ELSE Ends(c)
          /\ UNCHANGED <<work, requestClaim, slotClaim, objects, carried, copyFaults, answers>>
      BY <1>1, <1>2, <1>6 DEF CommitTransition, Unchanged, outside
    <2>2. publication[p].active = n /\ to \in Following(operation[p][n].state) /\ Binds(p, operation[p][n].kind, to, r)
      BY <1>2, <1>3, <2>1 DEF CopyCallOK, DecidingOK
    <2>3. /\ operation[p][n] \in Operation /\ publication[p] \in Publication /\ Version(operation[p][n])
          /\ \A m \in Revisions : m # n => operation[p][m].state \in Final \cup {"none"}
      BY <1>4, <2>2, OperationKnown DEF CopiesInv, Paced
    <2>4. \/ operation[p][n].state = "PREPARED" /\ to \in {"IN_FLIGHT", "CANCELLED"} /\ operation[p][n].version = 1
          \/ operation[p][n].state = "IN_FLIGHT" /\ to \in {"AMBIGUOUS", "CONFIRMED", "FAILED"} /\ operation[p][n].version = 2
          \/ operation[p][n].state = "AMBIGUOUS" /\ to = "CONFIRMED" /\ operation[p][n].version = 3
      BY <2>2, <2>3 DEF Following, Version
    <2>5. n # 0 /\ n + 3 <= MaxCopyRevision /\ publication[p].revision + 1 = n + operation[p][n].version
      <3>1. operation[p][n].state # "none"
        BY <2>4
      <3>2. 2 <= n
        BY <1>4, <3>1, OperationKnown
      <3>3. n # 0
        BY <3>2
      <3>4. QED
        BY <1>4, <2>2, <3>3 DEF CopiesInv, Paced
    <2>6. publication[p].revision + 1 \in Revisions /\ operation[p][n].version + 1 \in 0..MaxCopyRevision
      BY <1>4, <2>4, <2>5 DEF Revisions, CopiesAssumption
    <2>7. PICK new : new = [operation[p][n] EXCEPT !.state = to, !.version = @ + 1]
      OBVIOUS
    <2>8. new \in Operation /\ new.state = to /\ new.kind = operation[p][n].kind /\ new.version = operation[p][n].version + 1
      BY <1>4, <2>3, <2>6, <2>7 DEF Operation
    <2>9. Version(new) /\ new.state # "none"
      BY <2>4, <2>8 DEF Version
    <2>10. /\ operation' \in [Copies -> [Revisions -> Operation]]
           /\ operation'[p][n] = new
           /\ \A m \in Revisions : m # n => operation'[p][m] = operation[p][m]
           /\ \A q \in Copies : q # p => operation'[q] = operation[q]
      <3>1. operation' = [operation EXCEPT ![p][n] = new]
        BY <1>4, <2>1, <2>7 DEF CopiesInv, CopiesType
      <3>2. QED
        BY <1>4, <2>8, <3>1 DEF CopiesInv, CopiesType
    <2>11. /\ publication' \in [Copies -> Publication]
           /\ publication'[p].revision = publication[p].revision + 1 /\ publication'[p].active = n
           /\ publication'[p].slot = publication[p].slot
           /\ publication'[p].remote = IF r = NoRemote THEN publication[p].remote ELSE r
           /\ \A q \in Copies : q # p => publication'[q] = publication[q]
      <3>1. PICK moved : moved = [publication[p] EXCEPT !.revision = @ + 1, !.remote = IF r = NoRemote THEN @ ELSE r]
        OBVIOUS
      <3>2. /\ moved \in Publication /\ moved.revision = publication[p].revision + 1 /\ moved.active = publication[p].active
            /\ moved.slot = publication[p].slot
            /\ moved.remote = IF r = NoRemote THEN publication[p].remote ELSE r
        BY <1>4, <2>3, <2>6, <3>1 DEF Publication
      <3>3. publication' = [publication EXCEPT ![p] = moved]
        BY <1>4, <2>1, <3>1 DEF CopiesInv, CopiesType
      <3>4. publication' \in [Copies -> Publication] /\ publication'[p] = moved
            /\ \A q \in Copies : q # p => publication'[q] = publication[q]
        BY <1>4, <3>2, <3>3 DEF CopiesInv, CopiesType
      <3>5. QED
        BY <2>2, <3>2, <3>4
    <2>12. /\ r # NoRemote => to = "CONFIRMED" /\ publication[p].remote \in {NoRemote, r}
           /\ to = "CONFIRMED" /\ operation[p][n].kind = "CREATE" => r # NoRemote
      BY <2>2 DEF Binds, Delivers
    <2>13. /\ remoteClaim' \in [Remotes -> Copies \cup {NoCopy}]
           /\ r # NoRemote => remoteClaim'[r] = p /\ remoteClaim[r] \in {NoCopy, p}
           /\ \A s \in Remotes : s # r => remoteClaim'[s] = remoteClaim[s]
      BY <1>4, <2>1 DEF CopiesInv, CopiesType, RemoteFree
    <2>14. PICK next : next = IF to = "IN_FLIGHT" THEN [call EXCEPT !.at = "send"] ELSE NotCalling
      OBVIOUS
    <2>15. /\ next \in AnyCall /\ next.at \in {"idle", "send"}
           /\ next.at = "send" => to = "IN_FLIGHT" /\ next.copy = p /\ next.active = n
      BY <1>2, <1>3, <2>14 DEF Deciding, NotCalling, AnyCall
    <2>16. caller' = [caller EXCEPT ![c] = next]
      BY <1>1, <2>1, <2>14 DEF Goes, Ends, CopiesInv, CopiesType
    <2>17. /\ caller' \in [Callers -> AnyCall] /\ caller'[c] = next
           /\ \A d \in Callers : d # c => caller'[d] = caller[d]
      BY <2>15, <2>16 DEF CopiesInv, CopiesType
    <2>18. KeepsBinding
      <3>1. ASSUME NEW q \in Copies PROVE publication[q].remote # NoRemote => publication'[q].remote = publication[q].remote
        BY <2>11, <2>12
      <3>2. ASSUME NEW q \in Copies, NEW m \in Revisions, operation[q][m].state \in Final PROVE operation'[q][m] = operation[q][m]
        BY <2>4, <2>10, <3>2 DEF Final
      <3>3. QED
        BY <3>1, <3>2 DEF KeepsBinding
    <2>19. CopiesType'
      BY <2>1, <2>10, <2>11, <2>13, <2>17 DEF CopiesInv, CopiesType
    <2>20. ClaimsFit'
      <3>1. publication[p].revision \in Nat /\ publication[p].revision > 0
        BY <1>2, <1>3, <2>1, <2>3 DEF CopyCallOK, DecidingOK, ReadSteps, Publication, Revisions
      <3>2. \A q \in Copies :
              publication'[q].slot = publication[q].slot /\ (publication'[q].revision > 0 <=> publication[q].revision > 0)
        BY <2>11, <3>1
      <3>3. \A s \in Slots : slotClaim[s] # NoClaim => slotClaim[s].copy \in Copies
        BY DEF CopiesInv, CopiesType, Claims
      <3>4. UNCHANGED <<requestClaim, slotClaim, answers>> /\ ClaimsFit
        BY <2>1 DEF CopiesInv
      <3>5. QED
        BY <3>2, <3>3, <3>4 DEF ClaimsFit
    <2>21. operation[p][n].state = "PREPARED" => carried[p][n] = 0
      BY <1>4 DEF CopiesInv, Once
    <2>22. ASSUME NEW d \in Callers, caller[d].at = "send", caller[d].copy = p, caller[d].active = n
           PROVE  carried[p][n] = 0 /\ operation[p][n].state \in InPlay
      BY <2>22 DEF CopiesInv, CopyCallOK, SendingOK
    <2>23. OneSender'
      BY <2>4, <2>15, <2>17, <2>22 DEF CopiesInv, OneSender, InPlay
    <2>24. ASSUME NEW q \in Copies, q # p PROVE (Paced(q) /\ Once(q) /\ Made(q))'
      <3>1. publication[q].remote # NoRemote => remoteClaim'[publication[q].remote] = q
        <4>1. ASSUME publication[q].remote # NoRemote PROVE remoteClaim'[publication[q].remote] = q
          <5>1. publication[q].remote \in Remotes /\ remoteClaim[publication[q].remote] = q
            BY <4>1 DEF CopiesInv, CopiesType, Publication, Made
          <5>2. publication[q].remote # r
            BY <2>13, <2>24, <4>1, <5>1 DEF CopiesAssumption
          <5>3. QED
            BY <2>13, <5>1, <5>2
        <4>2. QED
          BY <4>1
      <3>2. publication'[q] = publication[q] /\ operation'[q] = operation[q] /\ UNCHANGED <<objects, carried>>
        BY <2>1, <2>10, <2>11, <2>24
      <3>3. Paced(q)' /\ Once(q)'
        BY <2>24, <3>2 DEF CopiesInv, Paced, Once, Version
      <3>4. Made(q)'
        BY <2>24, <3>1, <3>2 DEF CopiesInv, Made, Makes
      <3>5. QED
        BY <3>3, <3>4
    <2>25. Paced(p)'
      <3>1. ASSUME NEW m \in Revisions
            PROVE  /\ Version(operation'[p][m]) /\ (operation'[p][m].state # "none" => 2 <= m /\ m <= n)
                   /\ operation'[p][m].state \in Final \cup {"none"} \/ m = n
        <4>1. CASE m = n
          <5>1. operation[p][n].state # "none"
            BY <2>4
          <5>2. 2 <= n /\ n <= n
            BY <1>4, <5>1, OperationKnown DEF Revisions
          <5>3. QED
            BY <2>9, <2>10, <4>1, <5>2
        <4>2. CASE m # n
          BY <1>4, <2>2, <2>3, <2>10, <4>2, OperationKnown
        <4>3. QED
          BY <4>1, <4>2
      <3>2. publication[p].revision \in Nat /\ n \in Nat /\ operation[p][n].version \in Nat
        BY <1>4, <2>3 DEF Publication, Operation, Revisions
      <3>3. publication'[p].revision + 1 = n + operation'[p][n].version
        <4>1. operation'[p][n].version = operation[p][n].version + 1
          BY <2>8, <2>10
        <4>2. publication'[p].revision = publication[p].revision + 1
          BY <2>11
        <4>3. QED
          BY <2>5, <3>2, <4>1, <4>2
      <3>4. QED
        BY <2>5, <2>9, <2>10, <2>11, <3>1, <3>3 DEF Paced, Version
    <2>26. Once(p)'
      BY <1>4, <2>1, <2>4, <2>8, <2>10, <2>21 DEF CopiesInv, Once
    <2>27. operation[p][n].kind = "CREATE" =>
             publication[p].remote = NoRemote /\ \A m \in Revisions : m # n => ~Makes(p, m)
      <3>1. ASSUME operation[p][n].kind = "CREATE" PROVE publication[p].remote = NoRemote
        BY <1>4, <2>4, <3>1 DEF CopiesInv, Made
      <3>2. ASSUME operation[p][n].kind = "CREATE", NEW m \in Revisions, m # n PROVE ~Makes(p, m)
        BY <1>4, <2>3, <3>1, <3>2 DEF CopiesInv, Made, Makes, InPlay, Final
      <3>3. QED
        BY <3>1, <3>2
    <2>28. \A m \in Revisions : m # n => (Makes(p, m)' <=> Makes(p, m))
      BY <2>10 DEF Makes
    <2>29. Made(p)'
      <3>1. ASSUME NEW m \in Revisions, operation'[p][m].kind = "CREATE"
            PROVE  /\ operation'[p][m].state \in {"PREPARED", "IN_FLIGHT", "AMBIGUOUS"} => publication'[p].remote = NoRemote
                   /\ operation'[p][m].state = "CONFIRMED" => publication'[p].remote # NoRemote
        <4>1. CASE m = n
          BY <2>8, <2>10, <2>11, <2>12, <2>27, <3>1, <4>1
        <4>2. CASE m # n
          <5>1. operation'[p][m] = operation[p][m] /\ operation[p][m].state \notin {"PREPARED", "IN_FLIGHT", "AMBIGUOUS"}
            BY <2>3, <2>10, <4>2 DEF Final
          <5>2. operation[p][m].state = "CONFIRMED" => publication[p].remote # NoRemote
            BY <1>4, <3>1, <5>1 DEF CopiesInv, Made
          <5>3. QED
            BY <2>11, <5>1, <5>2
        <4>3. QED
          BY <4>1, <4>2
      <3>2. ASSUME NEW l \in Revisions, NEW m \in Revisions, Makes(p, l)', Makes(p, m)' PROVE l = m
        <4>1. Makes(p, n)' => operation[p][n].kind = "CREATE"
          BY <2>8, <2>10 DEF Makes
        <4>2. QED
          BY <1>4, <2>27, <2>28, <3>2, <4>1 DEF CopiesInv, Made
      <3>3. ASSUME NEW s \in Remotes, objects'[s] = p PROVE \E m \in Revisions : Makes(p, m)' /\ carried'[p][m] = 1
        <4>1. PICK m \in Revisions : Makes(p, m) /\ carried[p][m] = 1
          BY <1>4, <2>1, <3>3 DEF CopiesInv, Made
        <4>2. CASE m # n
          BY <2>1, <2>28, <4>1, <4>2
        <4>3. CASE m = n
          <5>1. operation[p][n].kind = "CREATE" /\ operation[p][n].state \in InPlay
            BY <4>1, <4>3 DEF Makes
          <5>2. to # "FAILED"
            <6>1. ASSUME to = "FAILED" PROVE FALSE
              <7>1. operation[p][n].state = "IN_FLIGHT"
                BY <2>4, <6>1
              <7>2. \A x \in Remotes : objects[x] # p
                BY <1>2, <1>3, <5>1, <6>1, <7>1 DEF CopyCallOK, RefusedOK, ReadSteps
              <7>3. QED
                BY <2>1, <3>3, <7>2
            <6>2. QED
              BY <6>1
          <5>3. to \in InPlay
            BY <2>4, <5>1, <5>2 DEF InPlay
          <5>4. Makes(p, n)'
            BY <2>8, <2>10, <5>1, <5>3 DEF Makes
          <5>5. QED
            BY <2>1, <4>1, <4>3, <5>4
        <4>4. QED
          BY <4>2, <4>3
      <3>4. \A s, t \in Remotes : objects'[s] = p /\ objects'[t] = p => s = t
        BY <1>4, <2>1 DEF CopiesInv, Made
      <3>5. publication'[p].remote # NoRemote => remoteClaim'[publication'[p].remote] = p
        <4>1. CASE r # NoRemote
          BY <2>11, <2>13, <4>1
        <4>2. CASE r = NoRemote
          BY <1>4, <2>1, <2>11, <4>2 DEF CopiesInv, Made
        <4>3. QED
          BY <4>1, <4>2
      <3>6. QED
        BY <3>1, <3>2, <3>3, <3>4, <3>5 DEF Made
    <2>30. ASSUME NEW d \in Callers PROVE CopyCallOK(caller[d])'
      <3>1. PICK x : x = caller'[d]
        OBVIOUS
      <3>2. CASE d = c
        <4>1. x = next
          BY <2>17, <3>1, <3>2
        <4>2. AllocatingOK(x)' /\ ApprovingOK(x)' /\ DecidingOK(x)' /\ RefusedOK(x)'
          BY <2>15, <4>1 DEF AllocatingOK, ApprovingOK, DecidingOK, RefusedOK, CreateSteps, ReadSteps
        <4>3. SendingOK(x)'
          BY <2>1, <2>4, <2>8, <2>10, <2>15, <2>21, <4>1 DEF SendingOK, InPlay
        <4>4. CopyCallOK(x)'
          BY <4>2, <4>3 DEF CopyCallOK
        <4>5. QED
          BY <3>1, <4>4
      <3>3. CASE d # c
        <4>1. x = caller[d] /\ CopyCallOK(x) /\ x \in AnyCall
          BY <2>17, <3>1, <3>3 DEF CopiesInv, CopiesType
        <4>2. x.at = "send" /\ x.copy = p /\ x.active = n => operation'[p][n].state \in InPlay
          <5>1. ASSUME x.at = "send", x.copy = p, x.active = n PROVE operation'[p][n].state \in InPlay
            <6>1. carried[p][n] = 0 /\ operation[p][n].state \in InPlay
              BY <2>22, <4>1, <5>1
            <6>2. to = "FAILED" => carried[p][n] = 1
              BY <1>2, <1>3 DEF CopyCallOK, RefusedOK, ReadSteps
            <6>3. QED
              BY <2>4, <2>8, <2>10, <6>1, <6>2 DEF InPlay
          <5>2. QED
            BY <5>1
        <4>3. RefusedOK(x)'
          <5>1. x.at \in ReadSteps => x.copy \in Copies /\ x.active \in Revisions
            BY <4>1 DEF AnyCall, NotCalling, Allocating, Approving, Deciding, CreateSteps, ReadSteps
          <5>2. \/ operation'[x.copy][x.active] = operation[x.copy][x.active]
                \/ x.copy = p /\ x.active = n
                \/ x.at \notin ReadSteps
            BY <1>4, <2>10, <5>1
          <5>3. x.copy = p /\ x.active = n /\ x.at \in ReadSteps /\ x.to = "FAILED" => to # "IN_FLIGHT"
            BY <2>4, <2>21, <4>1 DEF CopyCallOK, RefusedOK
          <5>4. UNCHANGED <<objects, carried>> /\ RefusedOK(x)
            BY <2>1, <4>1 DEF CopyCallOK
          <5>5. CASE x.copy = p /\ x.active = n
            BY <2>8, <2>10, <5>3, <5>4, <5>5 DEF RefusedOK
          <5>6. CASE operation'[x.copy][x.active] = operation[x.copy][x.active]
            BY <5>4, <5>6 DEF RefusedOK
          <5>7. CASE x.at \notin ReadSteps
            BY <5>7 DEF RefusedOK
          <5>8. QED
            BY <5>2, <5>5, <5>6, <5>7
        <4>4. CopyCallOK(x)'
          BY <1>4, <2>1, <2>10, <2>11, <4>1, <4>2, <4>3, CallsLeft
        <4>5. QED
          BY <3>1, <4>4
      <3>4. QED
        BY <3>2, <3>3
    <2>31. QED
      BY <2>18, <2>19, <2>20, <2>23, <2>24, <2>25, <2>26, <2>29, <2>30 DEF CopiesInv
  <1>7. QED
    BY <1>5, <1>6

\* The answer a caller carries back, and what its call made.
Answered(c, p, n, to, r) ==
  caller' = [caller EXCEPT ![c] = ReadCopy(c, [copy |-> p, active |-> n, to |-> to, binding |-> r])]
Produced(p, n, to) ==
  \/ UNCHANGED objects
  \/ operation[p][n].kind = "CREATE" /\ to # "FAILED"
     /\ \E r \in Remotes : objects[r] = NoCopy /\ objects' = [objects EXCEPT ![r] = p]

\* The one call of the provider.
LEMMA ProviderCalled ==
  ASSUME CopiesAssumption, CopiesInv, NEW c \in Callers, Send(c)
  PROVE  CopiesInv'
  <1>1. PICK call : call = caller[c]
    OBVIOUS
  <1>2. PICK p, n : p = call.copy /\ n = call.active
    OBVIOUS
  <1>3. call \in Deciding /\ CopyCallOK(call) /\ call.at = "send"
    BY <1>1, CallTyped DEF Send
  <1>4. p \in Copies /\ n \in Revisions
    BY <1>2, <1>3 DEF Deciding
  <1>5. operation[p][n].state \in InPlay /\ carried[p][n] = 0
    BY <1>2, <1>3 DEF CopyCallOK, SendingOK
  <1>6. UNCHANGED <<store, work, answers>> /\ carried' = [carried EXCEPT ![p][n] = @ + 1]
    BY <1>1, <1>2 DEF Send
  <1>7. copyFaults' \in 0..MaxCopyFaults
    <2>1. UNCHANGED copyFaults \/ CopyFault
      BY DEF Send
    <2>2. QED
      BY <2>1 DEF CopiesInv, CopiesType, CopyFault, CopiesAssumption
  <1>8. PICK to \in {"CONFIRMED", "AMBIGUOUS", "FAILED"}, r \in Remotes \cup {NoRemote} :
          Answered(c, p, n, to, r) /\ Produced(p, n, to)
    <2>1. publication[p].remote \in Remotes \cup {NoRemote}
      BY <1>4 DEF CopiesInv, CopiesType, Publication
    <2> DEFINE kind == operation[p][n].kind
               made == {s \in Remotes : objects[s] = NoCopy /\ \A q \in Remotes : q < s => objects[q] # NoCopy}
    <2>2. \/ \E s \in IF kind = "CREATE" THEN made ELSE {publication[p].remote} :
               /\ objects' = IF kind = "CREATE" THEN [objects EXCEPT ![s] = p] ELSE objects
               /\ \/ Answered(c, p, n, "CONFIRMED", IF Delivers(kind) THEN s ELSE NoRemote)
                  \/ Answered(c, p, n, "AMBIGUOUS", NoRemote)
          \/ (Answered(c, p, n, "FAILED", NoRemote) \/ Answered(c, p, n, "AMBIGUOUS", NoRemote)) /\ UNCHANGED objects
      BY <1>1, <1>2, Zenon DEF Send, Answered
    <2>3. CASE (Answered(c, p, n, "FAILED", NoRemote) \/ Answered(c, p, n, "AMBIGUOUS", NoRemote)) /\ UNCHANGED objects
      <3>1. Produced(p, n, "FAILED") /\ Produced(p, n, "AMBIGUOUS")
        BY <2>3 DEF Produced
      <3>2. QED
        BY <2>3, <3>1
    <2>4. ASSUME NEW s \in IF kind = "CREATE" THEN made ELSE {publication[p].remote},
                 objects' = IF kind = "CREATE" THEN [objects EXCEPT ![s] = p] ELSE objects,
                 \/ Answered(c, p, n, "CONFIRMED", IF Delivers(kind) THEN s ELSE NoRemote)
                 \/ Answered(c, p, n, "AMBIGUOUS", NoRemote)
          PROVE  \E t \in {"CONFIRMED", "AMBIGUOUS", "FAILED"}, x \in Remotes \cup {NoRemote} :
                   Answered(c, p, n, t, x) /\ Produced(p, n, t)
      <3>1. s \in Remotes \cup {NoRemote}
        BY <2>1, <2>4
      <3>2. PICK x : x = IF Delivers(kind) THEN s ELSE NoRemote
        OBVIOUS
      <3>3. x \in Remotes \cup {NoRemote} /\ NoRemote \in Remotes \cup {NoRemote}
        BY <3>1, <3>2
      <3>4. Produced(p, n, "CONFIRMED") /\ Produced(p, n, "AMBIGUOUS")
        BY <2>4 DEF Produced
      <3>5. QED
        BY <2>4, <3>2, <3>3, <3>4
    <2>5. QED
      BY <2>2, <2>3, <2>4
  <1>9. PICK next : next = ReadCopy(c, [copy |-> p, active |-> n, to |-> to, binding |-> r])
    OBVIOUS
  <1>10. next = [at |-> "operation", copy |-> p, active |-> n, to |-> to, binding |-> r,
                 version |-> operation[p][n].version, revision |-> publication[p].revision]
    BY <1>9 DEF ReadCopy
  <1>11. operation[p][n].version \in Revisions /\ publication[p].revision \in Revisions /\ 1 <= publication[p].revision
    <2>1. operation[p][n].state # "none"
      BY <1>5 DEF InPlay
    <2>2. QED
      BY <1>4, <2>1, OperationKnown DEF Operation, Publication, Revisions
  <1>12. next \in Deciding /\ next \in AnyCall
    BY <1>4, <1>10, <1>11 DEF Deciding, States, ReadSteps, AnyCall
  <1>13. caller' \in [Callers -> AnyCall] /\ caller'[c] = next /\ \A d \in Callers : d # c => caller'[d] = caller[d]
    BY <1>8, <1>9, <1>12 DEF Answered, CopiesInv, CopiesType
  <1>14. /\ carried' \in [Copies -> [Revisions -> Nat]] /\ carried'[p][n] = 1
         /\ \A m \in Revisions : m # n => carried'[p][m] = carried[p][m]
         /\ \A q \in Copies : q # p => carried'[q] = carried[q]
    BY <1>4, <1>5, <1>6 DEF CopiesInv, CopiesType
  <1>15. operation[p][n].kind = "CREATE" => Makes(p, n) /\ \A s \in Remotes : objects[s] # p
    <2>1. operation[p][n].kind = "CREATE" => Makes(p, n)
      BY <1>5 DEF Makes
    <2>2. ASSUME Makes(p, n), NEW s \in Remotes, objects[s] = p PROVE FALSE
      <3>1. PICK m \in Revisions : Makes(p, m) /\ carried[p][m] = 1
        BY <1>4, <2>2 DEF CopiesInv, Made
      <3>2. m = n
        BY <1>4, <2>2, <3>1 DEF CopiesInv, Made
      <3>3. QED
        BY <1>5, <3>1, <3>2
    <2>3. QED
      BY <2>1, <2>2
  <1>16. objects' \in [Remotes -> Copies \cup {NoCopy}]
         /\ (UNCHANGED objects
             \/ (operation[p][n].kind = "CREATE" /\ to # "FAILED"
                 /\ \E t \in Remotes : objects'[t] = p /\ objects[t] = NoCopy
                                      /\ \A s \in Remotes : s # t => objects'[s] = objects[s]))
    BY <1>4, <1>8 DEF Produced, CopiesInv, CopiesType
  <1>17. CopiesType'
    BY <1>6, <1>7, <1>13, <1>14, <1>16 DEF CopiesInv, CopiesType, store
  <1>18. ClaimsFit'
    BY <1>6 DEF CopiesInv, ClaimsFit, store
  <1>19. OneSender'
    BY <1>10, <1>13 DEF CopiesInv, OneSender
  <1>20. ASSUME NEW q \in Copies PROVE Paced(q)'
    BY <1>6 DEF CopiesInv, Paced, Version, store
  <1>21. ASSUME NEW q \in Copies, q # p PROVE Once(q)' /\ Made(q)'
    <2>1. Once(q)'
      BY <1>6, <1>14, <1>21 DEF CopiesInv, Once, store
    <2>2. \A s \in Remotes : objects'[s] = q => objects[s] = q
      BY <1>16, <1>21
    <2>3. Made(q)'
      BY <1>6, <1>14, <1>21, <2>2 DEF CopiesInv, Made, Makes, store
    <2>4. QED
      BY <2>1, <2>3
  <1>22. Once(p)'
    <2>1. operation[p][n].state \notin {"none", "PREPARED", "CANCELLED"}
      BY <1>5 DEF InPlay
    <2>2. QED
      BY <1>4, <1>6, <1>14, <2>1 DEF CopiesInv, Once, store
  <1>23. Made(p)'
    <2>1. \A m \in Revisions : Makes(p, m)' <=> Makes(p, m)
      BY <1>6 DEF Makes, store
    <2>2. ASSUME NEW s \in Remotes, objects'[s] = p PROVE \E m \in Revisions : Makes(p, m)' /\ carried'[p][m] = 1
      <3>1. CASE objects[s] = p
        <4>1. PICK m \in Revisions : Makes(p, m) /\ carried[p][m] = 1
          BY <1>4, <3>1 DEF CopiesInv, Made
        <4>2. QED
          BY <1>5, <1>14, <2>1, <4>1
      <3>2. CASE objects[s] # p
        BY <1>4, <1>14, <1>15, <1>16, <2>1, <2>2, <3>2
      <3>3. QED
        BY <3>1, <3>2
    <2>3. ASSUME NEW s \in Remotes, NEW t \in Remotes, objects'[s] = p, objects'[t] = p PROVE s = t
      <3>1. CASE UNCHANGED objects
        BY <1>4, <2>3, <3>1 DEF CopiesInv, Made
      <3>2. CASE operation[p][n].kind = "CREATE" /\ ~UNCHANGED objects
        BY <1>15, <1>16, <2>3, <3>2
      <3>3. QED
        BY <1>16, <3>1, <3>2
    <2>4. QED
      BY <1>4, <1>6, <2>1, <2>2, <2>3 DEF CopiesInv, Made, store
  <1>24. CopyCallOK(next)'
    <2>1. AllocatingOK(next)' /\ ApprovingOK(next)' /\ SendingOK(next)'
      BY <1>10 DEF AllocatingOK, ApprovingOK, SendingOK, CreateSteps
    <2>2. DecidingOK(next)'
      BY <1>6, <1>10, <1>11 DEF DecidingOK, store, Revisions
    <2>3. RefusedOK(next)'
      BY <1>6, <1>10, <1>14, <1>15, <1>16 DEF RefusedOK, store
    <2>4. QED
      BY <2>1, <2>2, <2>3 DEF CopyCallOK
  <1>25. ASSUME NEW d \in Callers, d # c PROVE CopyCallOK(caller[d])'
    <2>1. PICK x : x = caller[d]
      OBVIOUS
    <2>2. CopyCallOK(x) /\ x \in AnyCall /\ x = caller'[d]
      BY <1>13, <1>25, <2>1 DEF CopiesInv, CopiesType
    <2>3. AllocatingOK(x)' /\ ApprovingOK(x)' /\ DecidingOK(x)'
      BY <1>6, <2>2 DEF CopyCallOK, AllocatingOK, Existing, ApprovingOK, DecidingOK, Matches, Settled, Binds, store
    <2>4. x.at \in ReadSteps \cup {"send"} => x.copy \in Copies /\ x.active \in Revisions
      BY <2>2 DEF AnyCall, NotCalling, Allocating, Approving, Deciding, CreateSteps, ReadSteps
    <2>5. SendingOK(x)'
      <3>1. ASSUME x.at = "send" PROVE SendingOK(x)'
        <4>1. ~(x.copy = p /\ x.active = n)
          BY <1>1, <1>2, <1>3, <1>25, <2>1, <3>1 DEF CopiesInv, OneSender
        <4>2. carried'[x.copy][x.active] = carried[x.copy][x.active]
          BY <1>14, <2>4, <3>1, <4>1
        <4>3. QED
          BY <1>6, <2>2, <4>2 DEF CopyCallOK, SendingOK, store
      <3>2. QED
        BY <3>1 DEF SendingOK
    <2>6. RefusedOK(x)'
      <3>1. SUFFICES ASSUME x.at \in ReadSteps, x.to = "FAILED" PROVE RefusedOK(x)'
        BY DEF RefusedOK
      <3>2. carried[x.copy][x.active] = 1 /\ x.copy \in Copies /\ x.active \in Revisions
        BY <2>2, <2>4, <3>1 DEF CopyCallOK, RefusedOK
      <3>3. ~(x.copy = p /\ x.active = n)
        BY <1>5, <3>2
      <3>4. carried'[x.copy][x.active] = 1
        BY <1>14, <3>2, <3>3
      <3>5. ASSUME operation[x.copy][x.active].kind = "CREATE", operation[x.copy][x.active].state = "IN_FLIGHT",
                   NEW s \in Remotes
            PROVE  objects'[s] # x.copy
        <4>1. objects[s] # x.copy
          BY <2>2, <3>1, <3>5 DEF CopyCallOK, RefusedOK
        <4>2. CASE x.copy # p
          BY <1>16, <4>1, <4>2
        <4>3. CASE x.copy = p
          <5>1. Makes(p, x.active)
            BY <3>5, <4>3 DEF Makes, InPlay
          <5>2. ~Makes(p, n)
            BY <1>4, <3>2, <3>3, <4>3, <5>1 DEF CopiesInv, Made
          <5>3. QED
            BY <1>15, <1>16, <4>1, <5>2
        <4>4. QED
          BY <4>2, <4>3
      <3>6. QED
        BY <1>6, <3>4, <3>5 DEF RefusedOK, store
    <2>7. CopyCallOK(x)'
      BY <2>3, <2>5, <2>6 DEF CopyCallOK
    <2>8. QED
      BY <2>2, <2>7
  <1>26. CopyCallOK(caller[c])'
    BY <1>13, <1>24
  <1>27. QED
    BY <1>17, <1>18, <1>19, <1>20, <1>21, <1>22, <1>23, <1>25, <1>26 DEF CopiesInv

-----------------------------------------------------------------------------
\* A set whose elements are one has one element at most.
LEMMA OneElement ==
  ASSUME NEW S, \A a, b \in S : a = b
  PROVE  Cardinality(S) <= 1
  <1>1. CASE S = {}
    BY <1>1, FS_EmptySet
  <1>2. ASSUME NEW a \in S PROVE Cardinality(S) <= 1
    <2>1. S = {a}
      BY <1>2
    <2>2. Cardinality({a}) = 1
      BY FS_Singleton
    <2>3. QED
      BY <2>1, <2>2
  <1>3. QED
    BY <1>1, <1>2

\* Every step keeps the invariant, the objects of the copies and what was settled.
LEMMA CopiesStep ==
  ASSUME CopiesAssumption, CopiesInv, [CopyNext]_copyVars
  PROVE  CopiesInv' /\ KeepsBinding
  <1>1. ASSUME UNCHANGED store PROVE KeepsBinding
    BY <1>1 DEF KeepsBinding, store
  <1>2. CASE UNCHANGED copyVars
    <2>1. CopiesType' /\ ClaimsFit' /\ OneSender'
      BY <1>2 DEF CopiesInv, CopiesType, ClaimsFit, OneSender, copyVars
    <2>2. ASSUME NEW p \in Copies PROVE (Paced(p) /\ Once(p) /\ Made(p))'
      BY <1>2, <2>2 DEF CopiesInv, Paced, Once, Made, Makes, Version, copyVars
    <2>3. ASSUME NEW d \in Callers PROVE CopyCallOK(caller[d])'
      BY <1>2, <2>3 DEF CopiesInv, CopyCallOK, AllocatingOK, Existing, ApprovingOK, DecidingOK, SendingOK, RefusedOK,
                        Matches, Settled, Binds, copyVars
    <2>4. QED
      BY <1>2, <2>1, <2>2, <2>3 DEF CopiesInv, KeepsBinding, copyVars
  <1>3. CASE EditWork \/ ArchiveWork
    BY <1>1, <1>3, WorkEdited DEF EditWork, ArchiveWork
  <1>4. ASSUME NEW c \in Callers, ReadRequest(c) \/ ReadSlot(c) \/ \E in \in Input : Create(c, in)
        PROVE  CopiesInv' /\ KeepsBinding
    BY <1>1, <1>4, ClaimsRead DEF ReadRequest, ReadSlot, Create
  <1>5. ASSUME NEW c \in Callers, LoadCopy(c) PROVE CopiesInv' /\ KeepsBinding
    BY <1>1, <1>5, CopyLoaded DEF LoadCopy
  <1>6. ASSUME NEW c \in Callers, CommitCopy(c) \/ AttachRequest(c) PROVE CopiesInv' /\ KeepsBinding
    BY <1>6, ClaimCommitted
  <1>7. ASSUME NEW c \in Callers, ReadActive(c) \/ \E p \in Copies, kind \in Kinds : Approve(c, p, kind)
        PROVE  CopiesInv' /\ KeepsBinding
    BY <1>1, <1>7, ApprovalRead DEF ReadActive, Approve
  <1>8. ASSUME NEW c \in Callers,
               \/ ReadOperation(c) \/ CrashCaller(c)
               \/ \E p \in Copies, n \in Revisions : \/ \E to \in States : Transition(c, p, n, to)
                                                     \/ \E r \in Remotes \cup {NoRemote} : Readback(c, p, n, r)
        PROVE  CopiesInv' /\ KeepsBinding
    BY <1>1, <1>8, TransitionRead DEF ReadOperation, CrashCaller, Transition, Readback
  <1>9. ASSUME NEW c \in Callers, CommitApproval(c) PROVE CopiesInv' /\ KeepsBinding
    BY <1>9, ApprovalCommitted
  <1>10. ASSUME NEW c \in Callers, CommitTransition(c) PROVE CopiesInv' /\ KeepsBinding
    BY <1>10, TransitionCommitted
  <1>11. ASSUME NEW c \in Callers, Send(c) PROVE CopiesInv' /\ KeepsBinding
    BY <1>1, <1>11, ProviderCalled DEF Send
  <1>12. QED
    BY <1>2, <1>3, <1>4, <1>5, <1>6, <1>7, <1>8, <1>9, <1>10, <1>11 DEF CopyNext

\* The invariant implies what is asked of the copies.
LEMMA CopiesImply ==
  ASSUME CopiesAssumption, CopiesInv
  PROVE  CopyTypeOK /\ AnswersAgree /\ SentOnce /\ OneOpen
  <1>1. CopyTypeOK
    <2>1. ASSUME NEW c \in Callers
          PROVE  caller[c].at \in {"idle", "request", "slot", "load", "commit", "attach", "active", "approve", "operation",
                                   "transition", "send"}
      BY CallTyped DEF AnyCall, NotCalling, Allocating, Approving, Deciding, CreateSteps, ReadSteps
    <2>2. QED
      BY <2>1 DEF CopyTypeOK, CopiesInv, CopiesType
  <1>2. AnswersAgree
    <2>1. ASSUME NEW a \in answers
          PROVE  /\ requestClaim[a[1]] = [copy |-> a[4], fingerprint |-> <<a[2], a[3]>>]
                 /\ slotClaim[a[2]] = requestClaim[a[1]]
      <3>1. requestClaim[a[1]] = [copy |-> a[4], fingerprint |-> <<a[2], a[3]>>] /\ a[1] \in Creations
        BY <2>1 DEF CopiesInv, ClaimsFit, CopiesType
      <3>2. requestClaim[a[1]].fingerprint = <<a[2], a[3]>>
        BY <3>1
      <3>3. requestClaim[a[1]] # NoClaim /\ requestClaim[a[1]].fingerprint[1] = a[2]
        BY <3>2 DEF NoClaim
      <3>4. QED
        BY <3>1, <3>3 DEF CopiesInv, ClaimsFit
    <2>2. ASSUME NEW a \in answers, NEW b \in answers, a[1] = b[1] \/ a[2] = b[2]
          PROVE  a[4] = b[4] /\ a[2] = b[2] /\ a[3] = b[3]
      <3>1. [copy |-> a[4], fingerprint |-> <<a[2], a[3]>>] = [copy |-> b[4], fingerprint |-> <<b[2], b[3]>>]
        BY <2>1, <2>2
      <3>2. a[4] = b[4] /\ <<a[2], a[3]>> = <<b[2], b[3]>>
        BY <3>1
      <3>3. QED
        BY <3>2
    <2>3. ASSUME NEW p \in Copies, NEW q \in Copies, p # q, publication[p].revision > 0, publication[q].revision > 0
          PROVE  publication[p].slot # publication[q].slot
      BY <2>3 DEF CopiesInv, ClaimsFit
    <2>4. QED
      BY <2>2, <2>3 DEF AnswersAgree
  <1>3. ASSUME NEW p \in Copies
        PROVE  /\ \A n \in Revisions : carried[p][n] <= 1
               /\ Cardinality({r \in Remotes : objects[r] = p}) <= 1
    <2>1. \A r, s \in {x \in Remotes : objects[x] = p} : r = s
      BY <1>3 DEF CopiesInv, Made
    <2>2. QED
      BY <1>3, <2>1, OneElement DEF CopiesInv, Once
  <1>4. ASSUME NEW p \in Copies
        PROVE  /\ Cardinality({n \in Revisions : operation[p][n].state \notin Final \cup {"none"}}) <= 1
               /\ \A q \in Copies : p # q /\ publication[p].remote # NoRemote => publication[p].remote # publication[q].remote
    <2>1. \A m, n \in {x \in Revisions : operation[p][x].state \notin Final \cup {"none"}} : m = n
      BY <1>4 DEF CopiesInv, Paced
    <2>2. Cardinality({n \in Revisions : operation[p][n].state \notin Final \cup {"none"}}) <= 1
      BY <2>1, OneElement
    <2>3. QED
      BY <1>4, <2>2 DEF CopiesInv, Made
  <1>5. QED
    BY <1>1, <1>2, <1>3, <1>4 DEF SentOnce, OneOpen

\* The invariant of the copies holds for any number of callers, slots, requests and copies
\* (createPublicationCopy, approvePublicationOperation, transitionPublicationOperation).
LEMMA CopiesAlways == ASSUME CopiesAssumption PROVE CopySpec => []CopiesInv
  <1>1. CopyInit => CopiesInv
    BY CopiesStart
  <1>2. CopiesInv /\ [CopyNext]_copyVars => CopiesInv'
    BY CopiesStep
  <1>3. QED
    BY <1>1, <1>2, PTL DEF CopySpec

\* The records of a copy, its claims and its operations are of their types.
THEOREM CopiesTyped == ASSUME CopiesAssumption PROVE CopySpec => []CopyTypeOK
  <1>1. CopiesInv => CopyTypeOK
    BY CopiesImply
  <1>2. QED
    BY <1>1, CopiesAlways, PTL

\* Whatever requests race and are repeated, a slot has one copy and a request one answer.
THEOREM OneCopyOfASlot == ASSUME CopiesAssumption PROVE CopySpec => []AnswersAgree
  <1>1. CopiesInv => AnswersAgree
    BY CopiesImply
  <1>2. QED
    BY <1>1, CopiesAlways, PTL

\* "AMBIGUOUS is never automatically retried": an operation is sent at most once, whatever
\* callers crash or race, and a copy makes one object at most.
THEOREM SentAtMostOnce == ASSUME CopiesAssumption PROVE CopySpec => []SentOnce
  <1>1. CopiesInv => SentOnce
    BY CopiesImply
  <1>2. QED
    BY <1>1, CopiesAlways, PTL

\* A copy has one open operation and an object belongs to one copy.
THEOREM OneOperationOpen == ASSUME CopiesAssumption PROVE CopySpec => []OneOpen
  <1>1. CopiesInv => OneOpen
    BY CopiesImply
  <1>2. QED
    BY <1>1, CopiesAlways, PTL

\* "An update cannot silently replace a remote object", and what is settled stays.
THEOREM BindingKept == ASSUME CopiesAssumption PROVE CopySpec => [][KeepsBinding]_copyVars
  <1>1. CopiesInv /\ [CopyNext]_copyVars => [KeepsBinding]_copyVars
    BY CopiesStep
  <1>2. QED
    BY <1>1, CopiesAlways, PTL DEF CopySpec

-----------------------------------------------------------------------------
(* A gallery of another platform is brought in line with a collection.      *)

\* No plan is named 0 and no call is named by the mark of a free lease; a mapping is
\* configured to settings, and the bounds are numbers.
DestAssumption ==
  /\ Settings \subseteq Setting /\ Plans \subseteq Nat \ {0} /\ NoExecutor \notin Executors
  /\ Freshness \in Nat /\ MaxRevision \in Nat /\ MaxTime \in Nat /\ MaxPortFaults \in Nat

\* What the collection wants of the platform: nothing where the members follow it.
Wanted == IF mapping.setting.authority = "platform" THEN {} ELSE Intended
Operations(p) == plans[p].adds \cup plans[p].removes

\* A plan that is still of this revision wants what the collection wants, and takes out
\* nothing of it.
PlanOK(p) ==
  plans[p].made =>
    /\ plans[p].revision <= revision
    /\ plans[p].revision = revision => plans[p].intended = Wanted
    /\ plans[p].removes \cap plans[p].intended = {}

\* A call runs a plan that was made, for a mapping that the collection leads; one that was
\* late with a request goes no further with its plan; its operation is one of the plan's,
\* and not one that was carried out for the holder of the lease before.
ExecutorOK(e, call) ==
  /\ call.at = "idle" => call = NoCall
  /\ call.at # "idle" => call.plan \in Plans /\ plans[call.plan].made
  /\ call.at \notin {"idle", "start"} /\ plans[call.plan].revision = revision => mapping.setting.authority = "native"
  /\ call.late # 0 =>
       /\ call.late = 1 /\ call.at \in {"receipt", "next", "readback", "conclude"}
       /\ plans[call.plan].revision # revision \/ clock > plans[call.plan].expires
  /\ call.at \in {"reconcile", "prepare", "request", "receipt"} =>
       call.op \subseteq Operations(call.plan) /\ \E y : call.op = {y}
  /\ call.at \in {"readback", "conclude"} => Operations(call.plan) \subseteq call.confirmed
  /\ call.at \in {"prepare", "request"} /\ lease = e => ({call.plan} \X call.op) \cap accepted = {}

\* The inductive invariant.
DestInv ==
  /\ DestTypeOK
  /\ \A p \in Plans : PlanOK(p)
  /\ \A e \in Executors : ExecutorOK(e, executor[e])
  /\ accepted = Standing(accepted, gallery)
  /\ \A a \in accepted : plans[a[1]].made

\* The first state: no plan, no call.
LEMMA DestStart ==
  ASSUME DestAssumption, DestInit
  PROVE  DestInv
  <1> USE DEF DestAssumption, DestInit
  <1>1. NoPlan \in Planned /\ NoRun \in Run /\ NoCall \in Call /\ ~NoPlan.made /\ NoCall.late = 0 /\ NoCall.at = "idle"
    BY DEF NoPlan, Planned, Verification, NoRun, Run, NoCall, Call
  <1>2. DestTypeOK
    BY <1>1 DEF DestTypeOK, Statuses, Owners, Publications
  <1>3. \A e \in Executors : executor[e] = NoCall
    OBVIOUS
  <1>4. \A e \in Executors : ExecutorOK(e, executor[e])
    BY <1>1, <1>3 DEF ExecutorOK
  <1>5. \A p \in Plans : PlanOK(p)
    BY <1>1 DEF PlanOK
  <1>6. accepted = Standing(accepted, gallery)
    BY DEF Standing
  <1>7. QED
    BY <1>2, <1>4, <1>5, <1>6 DEF DestInv

-----------------------------------------------------------------------------
\* Plans that were made stay; the revision and the clock go on, and what a mapping is
\* configured to changes with the revision only.
Onward ==
  /\ \A p \in Plans : plans[p].made => plans'[p] = plans[p]
  /\ revision' \in Nat /\ clock' \in Nat /\ revision <= revision' /\ clock <= clock'
  /\ revision' = revision => mapping'.setting = mapping.setting

\* A call that does not move stays right.
LEMMA CallStays ==
  ASSUME DestAssumption, DestInv, NEW e \in Executors, NEW call \in Call, ExecutorOK(e, call), Onward,
         lease' = e => lease = e /\ accepted' \subseteq accepted
  PROVE  ExecutorOK(e, call)'
  <1>1. revision \in Nat /\ clock \in Nat
    BY DEF DestInv, DestTypeOK, DestAssumption
  <1>2. ASSUME call.at # "idle"
        PROVE  /\ call.plan \in Plans /\ plans[call.plan].made /\ plans'[call.plan] = plans[call.plan]
               /\ plans[call.plan].revision \in Nat /\ plans[call.plan].expires \in Nat
               /\ plans[call.plan].revision <= revision
    <2>2. call.plan \in Plans /\ plans[call.plan].made /\ plans'[call.plan] = plans[call.plan]
      BY <1>2 DEF ExecutorOK, Onward
    <2>3. plans[call.plan] \in Planned /\ PlanOK(call.plan)
      BY <2>2 DEF DestInv, DestTypeOK
    <2>4. plans[call.plan].revision \in 0..MaxRevision /\ plans[call.plan].expires \in 0..(MaxTime + Freshness)
      BY <2>3 DEF Planned
    <2>5. QED
      BY <2>2, <2>3, <2>4 DEF PlanOK, DestAssumption
  <1>3. call.at = "idle" => ExecutorOK(e, call)'
    BY DEF ExecutorOK, NoCall
  <1>4. ASSUME call.at # "idle" PROVE ExecutorOK(e, call)'
    <2>1. Operations(call.plan)' = Operations(call.plan)
      BY <1>2, <1>4 DEF Operations
    <2>2. plans'[call.plan].revision = revision' => plans[call.plan].revision = revision /\ revision' = revision
      BY <1>1, <1>2, <1>4 DEF Onward
    <2>3. call.at \notin {"idle", "start"} /\ plans'[call.plan].revision = revision' => mapping'.setting.authority = "native"
      BY <2>2 DEF Onward, ExecutorOK
    <2>4. plans[call.plan].revision # revision \/ clock > plans[call.plan].expires
            => plans'[call.plan].revision # revision' \/ clock' > plans'[call.plan].expires
      BY <1>1, <1>2, <1>4, <2>2 DEF Onward
    <2>5. call.at \in {"prepare", "request"} /\ lease' = e => ({call.plan} \X call.op) \cap accepted' = {}
      BY DEF ExecutorOK
    <2>6. QED
      BY <1>2, <1>4, <2>1, <2>3, <2>4, <2>5 DEF ExecutorOK
  <1>5. QED
    BY <1>3, <1>4

\* A plan stays right while the collection does, or its revision is past.
LEMMA PlansStay ==
  ASSUME DestAssumption, DestInv, Onward, revision' = revision => UNCHANGED works, NEW p \in Plans, plans[p].made
  PROVE  PlanOK(p)'
  <1>1. plans'[p] = plans[p] /\ PlanOK(p) /\ plans[p].revision \in Nat /\ revision \in Nat /\ revision' \in Nat
    BY DEF Onward, DestInv, DestTypeOK, Planned, DestAssumption
  <1>2. revision' = revision => Wanted' = Wanted
    BY DEF Onward, Wanted, Intended, Scope
  <1>3. QED
    BY <1>1, <1>2 DEF PlanOK, Onward

\* What is standing of operations in a gallery is standing there.
LEMMA StandingAgain ==
  ASSUME NEW S, NEW shown
  PROVE  Standing(S, shown) \subseteq S /\ Standing(Standing(S, shown), shown) = Standing(S, shown)
  BY DEF Standing

\* A step of one call, from what it becomes.
LEMMA ExecutorMoves ==
  ASSUME DestAssumption, DestInv, NEW e \in Executors, NEW call \in Call,
         executor' = [executor EXCEPT ![e] = call],
         UNCHANGED <<works, mapping, revision, connected, plans, clock>>,
         gallery' \subseteq Publications, runs' \in [Plans -> Run], portFaults' \in 0..MaxPortFaults,
         lease' \in {lease, NoExecutor, e},
         \/ UNCHANGED <<gallery, accepted>>
         \/ accepted' = Standing(accepted, gallery')
         \/ /\ lease = e /\ executor[e].plan \in Plans /\ executor[e].op \subseteq Operations(executor[e].plan)
            /\ plans[executor[e].plan].made
            /\ accepted' = Standing(accepted \cup ({executor[e].plan} \X executor[e].op), gallery'),
         ExecutorOK(e, call)'
  PROVE  DestInv'
  <1>1. Onward
    BY DEF Onward, DestInv, DestTypeOK, DestAssumption
  <1>2. \A p \in Plans : PlanOK(p)'
    <2>1. ASSUME NEW p \in Plans, ~plans[p].made PROVE PlanOK(p)'
      BY <2>1 DEF PlanOK
    <2>2. QED
      BY <1>1, <2>1, PlansStay
  <1>3. /\ accepted' \subseteq Plans \X Publications /\ accepted' = Standing(accepted, gallery)'
        /\ \A a \in accepted' : plans[a[1]].made
        /\ lease # e => accepted' \subseteq accepted
    <2>1. /\ accepted \subseteq Plans \X Publications /\ accepted = Standing(accepted, gallery)
          /\ \A a \in accepted : plans[a[1]].made
      BY DEF DestInv, DestTypeOK
    <2>2. CASE UNCHANGED <<gallery, accepted>>
      BY <2>1, <2>2 DEF Standing
    <2>3. CASE accepted' = Standing(accepted, gallery')
      BY <2>1, <2>3 DEF Standing
    <2>4. CASE /\ lease = e /\ executor[e].plan \in Plans /\ executor[e].op \subseteq Operations(executor[e].plan)
               /\ plans[executor[e].plan].made
               /\ accepted' = Standing(accepted \cup ({executor[e].plan} \X executor[e].op), gallery')
      <3>1. executor[e].op \subseteq Publications
        BY <2>4 DEF DestInv, DestTypeOK, Call
      <3>2. PICK fresh : fresh = {executor[e].plan} \X executor[e].op
        OBVIOUS
      <3>3. fresh \subseteq Plans \X Publications /\ \A a \in fresh : plans[a[1]].made
        BY <2>4, <3>1, <3>2
      <3>4. accepted' = Standing(accepted \cup fresh, gallery')
        BY <2>4, <3>2
      <3>5. QED
        BY <2>1, <2>4, <3>3, <3>4 DEF Standing
    <2>5. QED
      BY <2>2, <2>3, <2>4
  <1>4. DestTypeOK'
    BY <1>3 DEF DestInv, DestTypeOK
  <1>5. ASSUME NEW d \in Executors PROVE ExecutorOK(d, executor[d])'
    <2>1. CASE d = e
      <3>1. executor'[d] = call
        BY <2>1 DEF DestInv, DestTypeOK
      <3>2. QED
        BY <2>1, <3>1 DEF ExecutorOK
    <2>2. CASE d # e
      <3>1. PICK other \in Call : other = executor[d] /\ executor'[d] = other /\ ExecutorOK(d, other)
        BY <2>2 DEF DestInv, DestTypeOK
      <3>2. lease' = d => lease = d /\ accepted' \subseteq accepted
        BY <1>3, <2>2 DEF DestAssumption
      <3>3. ExecutorOK(d, other)'
        BY <1>1, <3>1, <3>2, CallStays
      <3>4. QED
        BY <3>1, <3>3 DEF ExecutorOK
    <2>3. QED
      BY <2>1, <2>2
  <1>6. QED
    BY <1>2, <1>3, <1>4, <1>5 DEF DestInv

\* A step of anything but a call.
LEMMA OthersMove ==
  ASSUME DestAssumption, DestInv, UNCHANGED executor, Onward, revision' = revision => UNCHANGED works, DestTypeOK',
         lease' \in {lease, NoExecutor},
         UNCHANGED <<gallery, accepted>> \/ accepted' = Standing(accepted, gallery'),
         \A p \in Plans : plans[p].made \/ PlanOK(p)'
  PROVE  DestInv'
  <1>1. \A p \in Plans : PlanOK(p)'
    BY PlansStay
  <1>2. accepted' \subseteq accepted /\ accepted' = Standing(accepted, gallery') /\ accepted \subseteq Plans \X Publications
        /\ \A a \in accepted : plans[a[1]].made
    BY DEF DestInv, DestTypeOK, Standing
  <1>3. \A a \in accepted : a[1] \in Plans /\ plans'[a[1]] = plans[a[1]]
    BY <1>2 DEF Onward
  <1>4. accepted' = Standing(accepted, gallery)' /\ \A a \in accepted' : plans'[a[1]].made
    BY <1>2, <1>3 DEF Standing
  <1>5. ASSUME NEW e \in Executors PROVE ExecutorOK(e, executor[e])'
    <2>1. PICK call \in Call : call = executor[e] /\ executor'[e] = call /\ ExecutorOK(e, call)
      BY DEF DestInv, DestTypeOK
    <2>2. ExecutorOK(e, call)'
      BY <1>2, <2>1, CallStays DEF DestAssumption
    <2>3. QED
      BY <2>1, <2>2 DEF ExecutorOK
  <1>6. QED
    BY <1>1, <1>4, <1>5 DEF DestInv

\* The collection, the mapping, the account, the platform, the lease and the clock change.
LEMMA WorldMoves ==
  ASSUME DestAssumption, DestInv,
         \/ \E w \in Works : \E state \in Statuses : Curate(w, state)
         \/ \E setting \in Settings, owner \in Owners : Configure(setting, owner)
         \/ Connection \/ LeaseRunsOut \/ Passes
         \/ \E p \in Publications : EditGallery(p)
  PROVE  DestInv'
  <1>1. /\ works \in [Works -> Statuses] /\ mapping \in [setting : Settings, owner : Owners]
        /\ revision \in Nat /\ clock \in Nat /\ portFaults \in Nat
        /\ revision \in 0..MaxRevision /\ clock \in 0..MaxTime /\ portFaults \in 0..MaxPortFaults
        /\ gallery \subseteq Publications /\ accepted \subseteq Plans \X Publications
    BY DEF DestInv, DestTypeOK, DestAssumption
  <1>2. Fault => portFaults' \in 0..MaxPortFaults
    BY <1>1 DEF Fault, DestAssumption
  <1>3. Revised => revision' \in 0..MaxRevision /\ revision' \in Nat /\ revision < revision'
    BY <1>1 DEF Revised, DestAssumption
  <1>4. Standing(accepted, gallery') \subseteq accepted
    BY DEF Standing
  <1>5. CASE \E w \in Works : \E state \in Statuses : Curate(w, state)
    <2>1. PICK w \in Works, state \in Statuses : Curate(w, state)
      BY <1>5
    <2>2. /\ works' \in [Works -> Statuses] /\ Revised
          /\ UNCHANGED <<mapping, connected, gallery, plans, runs, lease, executor, accepted, clock, portFaults>>
      BY <1>1, <2>1 DEF Curate
    <2>3. DestTypeOK' /\ Onward
      BY <1>1, <1>3, <2>2 DEF DestInv, DestTypeOK, Onward
    <2>4. QED
      BY <1>1, <1>3, <2>2, <2>3, OthersMove DEF DestInv, PlanOK
  <1>6. CASE \E setting \in Settings, owner \in Owners : Configure(setting, owner)
    <2>1. PICK setting \in Settings, owner \in Owners : Configure(setting, owner)
      BY <1>6
    <2>2. /\ mapping' = [setting |-> setting, owner |-> owner] /\ mapping' \in [setting : Settings, owner : Owners]
          /\ Revised \/ (setting = mapping.setting /\ UNCHANGED revision)
          /\ UNCHANGED <<works, connected, gallery, plans, runs, lease, executor, accepted, clock, portFaults>>
      BY <2>1 DEF Configure
    <2>3. revision' \in 0..MaxRevision /\ Onward
      BY <1>1, <1>3, <2>2 DEF Onward
    <2>4. DestTypeOK'
      BY <2>2, <2>3 DEF DestInv, DestTypeOK
    <2>5. QED
      BY <2>2, <2>3, <2>4, OthersMove DEF PlanOK
  <1>7. CASE Connection
    <2>1. /\ UNCHANGED <<works, mapping, revision, gallery, plans, runs, lease, executor, accepted, clock>>
          /\ connected' \in BOOLEAN /\ portFaults' \in 0..MaxPortFaults
      BY <1>1, <1>2, <1>7 DEF Connection
    <2>2. DestTypeOK' /\ Onward
      BY <1>1, <2>1 DEF DestInv, DestTypeOK, Onward
    <2>3. QED
      BY <2>1, <2>2, OthersMove DEF PlanOK
  <1>8. CASE LeaseRunsOut
    <2>1. /\ UNCHANGED <<works, mapping, revision, connected, gallery, plans, runs, executor, accepted, clock>>
          /\ lease' = NoExecutor /\ portFaults' \in 0..MaxPortFaults
      BY <1>1, <1>2, <1>8 DEF LeaseRunsOut, authorityVars
    <2>2. DestTypeOK' /\ Onward
      BY <1>1, <2>1 DEF DestInv, DestTypeOK, Onward
    <2>3. QED
      BY <2>1, <2>2, OthersMove DEF PlanOK
  <1>9. CASE Passes
    <2>1. /\ UNCHANGED <<works, mapping, revision, connected, gallery, plans, runs, lease, executor, accepted, portFaults>>
          /\ clock' \in 0..MaxTime /\ clock' \in Nat /\ clock <= clock'
      BY <1>1, <1>9 DEF Passes, authorityVars, DestAssumption
    <2>2. DestTypeOK' /\ Onward
      BY <1>1, <2>1 DEF DestInv, DestTypeOK, Onward
    <2>3. QED
      BY <2>1, <2>2, OthersMove DEF PlanOK
  <1>10. CASE \E p \in Publications : EditGallery(p)
    <2>1. /\ UNCHANGED <<works, mapping, revision, connected, plans, runs, lease, executor, clock>>
          /\ gallery' \subseteq Publications /\ accepted' = Standing(accepted, gallery') /\ portFaults' \in 0..MaxPortFaults
      BY <1>1, <1>2, <1>10 DEF EditGallery, authorityVars
    <2>2. DestTypeOK' /\ Onward
      BY <1>1, <1>4, <2>1 DEF DestInv, DestTypeOK, Onward
    <2>3. QED
      BY <2>1, <2>2, OthersMove DEF PlanOK
  <1>11. QED
    BY <1>5, <1>6, <1>7, <1>8, <1>9, <1>10

\* What planCollectionDestination makes of an observation.
LEMMA PlanFacts ==
  ASSUME DestAssumption, DestInv, NEW o \in Observation, Seen(o)
  PROVE  /\ PlanOf(o) \in Planned /\ PlanOf(o).made /\ PlanOf(o).revision = revision
         /\ PlanOf(o).intended = Wanted /\ PlanOf(o).removes \cap PlanOf(o).intended = {}
         /\ PlanOf(o).removes \cup PlanOf(o).inbound # {} => PlanOf(o).verification \in {"api_verified", "manually_confirmed"}
         /\ PlanOf(o).exact => gallery = IF mapping.setting.authority = "platform" THEN Members ELSE Intended
  <1> DEFINE inbound == mapping.setting.authority = "platform"
             left == IF mapping.setting.exact THEN o.shown \ Wanted ELSE {}
             blocked == IF inbound THEN o.shown \cap Foreign # {} \/ \E w \in mapping.setting.selected : works[w] = "gone"
                        ELSE Blocked
             difference == IF inbound
                             THEN (o.shown \cap Works) \ Members # {} \/ (Certain(o) /\ ~blocked /\ Members \ o.shown # {})
                             ELSE (Wanted \ o.shown) \cup left # {}
  <1>1. /\ PlanOf(o).made /\ PlanOf(o).revision = revision /\ PlanOf(o).expires = o.at + Freshness
        /\ PlanOf(o).intended = Wanted /\ PlanOf(o).blocked = blocked
        /\ PlanOf(o).adds = IF inbound THEN {} ELSE Wanted \ o.shown
        /\ PlanOf(o).removes = IF ~inbound /\ Certain(o) THEN left ELSE {}
        /\ PlanOf(o).inbound = IF inbound /\ Certain(o) /\ ~blocked THEN Members \ o.shown ELSE {}
    BY DEF PlanOf, Wanted
  <1>2. /\ PlanOf(o).verification = IF ~StillFresh(o.at) THEN "stale" ELSE IF ~o.complete THEN "incomplete" ELSE o.source
        /\ PlanOf(o).exact = (mapping.setting.exact /\ Certain(o) /\ ~blocked /\ ~difference /\ o.source = "api_verified")
    BY DEF PlanOf, Wanted
  <1>3. /\ revision \in 0..MaxRevision /\ o.at \in 0..MaxTime /\ o.shown \subseteq Publications /\ o.source \in Verification
        /\ o.complete \in BOOLEAN /\ mapping.setting \in Setting /\ gallery \subseteq Publications
        /\ works \in [Works -> Statuses] /\ Members \subseteq Works
    <2>1. mapping \in [setting : Settings, owner : Owners] /\ Settings \subseteq Setting
      BY DEF DestInv, DestTypeOK, DestAssumption
    <2>2. QED
      BY <2>1 DEF DestInv, DestTypeOK, Observation, Members
  <1>4. Wanted \subseteq Works
    BY <1>3 DEF Wanted, Intended, Scope, Members, Setting
  <1>5. o.at + Freshness \in 0..(MaxTime + Freshness)
    BY <1>3 DEF DestAssumption
  <1>6. PlanOf(o) \in Planned
    <2>1. /\ PlanOf(o).made \in BOOLEAN /\ PlanOf(o).blocked \in BOOLEAN /\ PlanOf(o).exact \in BOOLEAN
          /\ PlanOf(o).revision \in 0..MaxRevision /\ PlanOf(o).expires \in 0..(MaxTime + Freshness)
      BY <1>1, <1>2, <1>3, <1>5 DEF Blocked
    <2>2. PlanOf(o).verification \in Verification
      BY <1>2, <1>3 DEF Verification
    <2>3. /\ PlanOf(o).intended \subseteq Works /\ PlanOf(o).adds \subseteq Works
          /\ PlanOf(o).removes \subseteq Publications /\ PlanOf(o).inbound \subseteq Works
      BY <1>1, <1>3, <1>4
    <2>4. PlanOf(o) = [made |-> PlanOf(o).made, revision |-> PlanOf(o).revision, expires |-> PlanOf(o).expires,
                       intended |-> PlanOf(o).intended, adds |-> PlanOf(o).adds, removes |-> PlanOf(o).removes,
                       inbound |-> PlanOf(o).inbound, blocked |-> PlanOf(o).blocked,
                       verification |-> PlanOf(o).verification, exact |-> PlanOf(o).exact]
      BY DEF PlanOf
    <2>5. QED
      BY <2>1, <2>2, <2>3, <2>4 DEF Planned
  <1>7. PlanOf(o).removes \cap PlanOf(o).intended = {}
    BY <1>1
  <1>8. Certain(o) => PlanOf(o).verification \in {"api_verified", "manually_confirmed"}
    BY <1>2 DEF Certain, Seen
  <1>9. ASSUME PlanOf(o).exact PROVE gallery = IF inbound THEN Members ELSE Intended
    <2>1. /\ mapping.setting.exact /\ Certain(o) /\ ~blocked /\ ~difference /\ o.shown = gallery
      BY <1>2, <1>9 DEF Certain, Seen
    <2>2. CASE inbound
      <3>1. o.shown \cap Foreign = {} /\ (o.shown \cap Works) \ Members = {} /\ Members \ o.shown = {}
        BY <2>1, <2>2
      <3>2. QED
        BY <1>3, <2>1, <2>2, <3>1 DEF Publications
    <2>3. CASE ~inbound
      <3>1. Wanted = Intended /\ Wanted \ o.shown = {} /\ o.shown \ Wanted = {}
        BY <2>1, <2>3 DEF Wanted
      <3>2. QED
        BY <2>1, <2>3, <3>1
    <2>4. QED
      BY <2>2, <2>3
  <1>10. QED
    BY <1>1, <1>6, <1>7, <1>8, <1>9

\* A plan is made.
LEMMA PlanMade ==
  ASSUME DestAssumption, DestInv, NEW p \in Plans, MakePlan(p)
  PROVE  DestInv'
  <1>1. PICK o \in Observation : Seen(o) /\ plans' = [plans EXCEPT ![p] = PlanOf(o)]
    BY DEF MakePlan
  <1>2. PICK new \in Planned : new = PlanOf(o) /\ new.made /\ new.revision = revision /\ new.intended = Wanted
                               /\ new.removes \cap new.intended = {}
    BY <1>1, PlanFacts
  <1>3. plans' = [plans EXCEPT ![p] = new] /\ plans \in [Plans -> Planned] /\ ~plans[p].made
        /\ UNCHANGED <<works, mapping, revision, connected, gallery, runs, lease, executor, accepted, clock, portFaults>>
    BY <1>1, <1>2 DEF MakePlan, authorityVars, DestInv, DestTypeOK
  <1>4. Onward /\ DestTypeOK'
    BY <1>3 DEF Onward, DestInv, DestTypeOK, DestAssumption
  <1>5. Wanted' = Wanted /\ revision \in Nat
    BY <1>3 DEF Wanted, Intended, Scope, DestInv, DestTypeOK, DestAssumption
  <1>6. PlanOK(p)'
    BY <1>2, <1>3, <1>5 DEF PlanOK
  <1>7. \A q \in Plans : plans[q].made \/ PlanOK(q)'
    BY <1>3, <1>6 DEF PlanOK
  <1>8. QED
    BY <1>3, <1>4, <1>7, OthersMove

-----------------------------------------------------------------------------
(* The steps of a call.                                                     *)

\* What is saved of a run is one.
LEMMA RunsTyped ==
  ASSUME DestInv, NEW e \in Executors, executor[e].plan \in Plans,
         NEW state \in {"running", "partially_applied", "paused", "verified", "unverified"},
         \/ UNCHANGED runs
         \/ Saves(e, state)
         \/ \E confirmed \in SUBSET Publications : Saved(e, state, confirmed)
  PROVE  runs' \in [Plans -> Run]
  <1>1. runs \in [Plans -> Run] /\ executor[e].confirmed \subseteq Publications
    BY DEF DestInv, DestTypeOK, Call
  <1>2. \A confirmed \in SUBSET Publications : [state |-> state, confirmed |-> confirmed] \in Run
    BY DEF Run
  <1>3. QED
    BY <1>1, <1>2 DEF Saves, Saved

\* A call ends, whatever it did to the gallery before.
LEMMA ExecutorEnds ==
  ASSUME DestAssumption, DestInv, NEW e \in Executors, executor' = [executor EXCEPT ![e] = NoCall],
         UNCHANGED <<works, mapping, revision, connected, plans, clock>>,
         gallery' \subseteq Publications, runs' \in [Plans -> Run], portFaults' \in 0..MaxPortFaults,
         lease' \in {lease, NoExecutor},
         \/ UNCHANGED <<gallery, accepted>>
         \/ accepted' = Standing(accepted, gallery')
         \/ /\ lease = e /\ executor[e].plan \in Plans /\ executor[e].op \subseteq Operations(executor[e].plan)
            /\ plans[executor[e].plan].made
            /\ accepted' = Standing(accepted \cup ({executor[e].plan} \X executor[e].op), gallery')
  PROVE  DestInv'
  <1>1. NoCall \in Call /\ NoCall.at = "idle" /\ NoCall.late = 0
    BY DEF NoCall, Call, DestAssumption
  <1>2. ExecutorOK(e, NoCall)'
    BY <1>1 DEF ExecutorOK
  <1>3. QED
    BY <1>1, <1>2, ExecutorMoves

\* What is known of a call that runs.
LEMMA CallKnown ==
  ASSUME DestAssumption, DestInv, NEW e \in Executors
  PROVE  /\ executor[e] \in Call /\ ExecutorOK(e, executor[e])
         /\ executor[e].at # "idle" =>
              /\ executor[e].plan \in Plans /\ plans[executor[e].plan].made /\ plans[executor[e].plan] \in Planned
              /\ plans[executor[e].plan].adds \subseteq Publications
              /\ Of(e) = plans[executor[e].plan]
         /\ gallery \subseteq Publications /\ runs \in [Plans -> Run] /\ portFaults \in 0..MaxPortFaults
  <1>1. executor[e] \in Call /\ ExecutorOK(e, executor[e])
    BY DEF DestInv, DestTypeOK
  <1>2. ASSUME executor[e].at # "idle"
        PROVE  executor[e].plan \in Plans /\ plans[executor[e].plan].made /\ plans[executor[e].plan] \in Planned
    BY <1>1, <1>2 DEF ExecutorOK, DestInv, DestTypeOK
  <1>3. QED
    BY <1>1, <1>2 DEF DestInv, DestTypeOK, Planned, Publications, Of

\* A call turns to another step with some operation and those it has confirmed.
Turned(call, step, op, confirmed) == [call EXCEPT !.at = step, !.op = op, !.confirmed = confirmed]

LEMMA CallTurned ==
  ASSUME NEW call \in Call, NEW step \in {"next", "reconcile", "prepare", "request", "readback"},
         NEW op \in SUBSET Publications, NEW confirmed \in SUBSET Publications
  PROVE  /\ Turned(call, step, op, confirmed) \in Call
         /\ Turned(call, step, op, confirmed).at = step /\ Turned(call, step, op, confirmed).op = op
         /\ Turned(call, step, op, confirmed).confirmed = confirmed
         /\ Turned(call, step, op, confirmed).plan = call.plan /\ Turned(call, step, op, confirmed).late = call.late
  BY DEF Turned, Call

\* A call begins with a plan that was made, and with its first check.
LEMMA Beginning ==
  ASSUME DestAssumption, DestInv, NEW e \in Executors,
         StartRun(e) \/ \E p \in Plans, reviewed \in BOOLEAN : Execute(e, p, reviewed)
  PROVE  DestInv'
  <1>1. CASE \E p \in Plans, reviewed \in BOOLEAN : Execute(e, p, reviewed)
    <2>1. PICK p \in Plans, reviewed \in BOOLEAN : Execute(e, p, reviewed)
      BY <1>1
    <2>2. PICK new : new = [NoCall EXCEPT !.at = "start", !.plan = p, !.reviewed = reviewed]
      OBVIOUS
    <2>3. new \in Call /\ new.at = "start" /\ new.plan = p /\ new.late = 0
      <3>1. new = [at |-> "start", plan |-> p, reviewed |-> reviewed, confirmed |-> {}, op |-> {}, late |-> 0, seen |-> {},
                   complete |-> FALSE, readAt |-> 0]
        BY <2>2 DEF NoCall
      <3>2. 0 \in 0..MaxTime /\ 0 \in 0..2
        BY DEF DestAssumption
      <3>3. QED
        BY <3>1, <3>2 DEF Call
    <2>4. /\ executor' = [executor EXCEPT ![e] = new] /\ lease' = e /\ plans[p].made
          /\ UNCHANGED <<works, mapping, revision, connected, gallery, plans, runs, accepted, clock, portFaults>>
      BY <2>1, <2>2 DEF Execute, authorityVars
    <2>5. ExecutorOK(e, new)'
      BY <2>3, <2>4 DEF ExecutorOK
    <2>6. QED
      BY <2>3, <2>4, <2>5, CallKnown, ExecutorMoves
  <1>2. CASE StartRun(e)
    <2>1. PICK call \in Call : call = executor[e] /\ ExecutorOK(e, call)
      BY CallKnown
    <2>2. /\ call.at = "start" /\ call.plan \in Plans /\ plans[call.plan].made
          /\ UNCHANGED <<works, mapping, revision, connected, gallery, plans, accepted, clock, portFaults>>
          /\ gallery \subseteq Publications /\ portFaults \in 0..MaxPortFaults
      BY <1>2, <2>1, CallKnown DEF StartRun, authorityVars
    <2>3. CASE Check(e) /\ runs[call.plan].state # "verified"
      <3>1. PICK old \in SUBSET Publications : old = runs[call.plan].confirmed
        BY <2>2, CallKnown DEF Run
      <3>2. PICK new : new = [call EXCEPT !.at = "next", !.confirmed = old]
        OBVIOUS
      <3>3. new \in Call /\ new.at = "next" /\ new.plan = call.plan /\ new.late = call.late
        BY <3>2 DEF Call
      <3>4. Saved(e, "running", old) /\ executor' = [executor EXCEPT ![e] = new] /\ lease' = lease
        BY <1>2, <2>1, <2>3, <3>1, <3>2 DEF StartRun
      <3>5. runs' \in [Plans -> Run]
        BY <2>1, <2>2, <3>4, RunsTyped
      <3>6. call.late = 0 /\ mapping.setting.authority = "native"
        BY <2>1, <2>2, <2>3 DEF ExecutorOK, Check
      <3>7. ExecutorOK(e, new)'
        BY <2>2, <3>3, <3>6 DEF ExecutorOK
      <3>8. QED
        BY <2>2, <3>3, <3>4, <3>5, <3>7, ExecutorMoves
    <2>4. CASE ~(Check(e) /\ runs[call.plan].state # "verified")
      <3>1. Leaves(e) /\ UNCHANGED runs
        BY <1>2, <2>1, <2>4 DEF StartRun
      <3>2. executor' = [executor EXCEPT ![e] = NoCall] /\ lease' \in {lease, NoExecutor}
        BY <3>1 DEF Leaves
      <3>3. QED
        BY <2>2, <3>1, <3>2, CallKnown, ExecutorEnds
    <2>5. QED
      BY <2>3, <2>4
  <1>3. QED
    BY <1>1, <1>2

\* The next operation, and what became of it.
LEMMA Operating ==
  ASSUME DestAssumption, DestInv, NEW e \in Executors,
         Begin(e) \/ Reconcile(e) \/ ReconcileUnknown(e) \/ Prepare(e) \/ Receipt(e)
  PROVE  DestInv'
  <1>1. PICK call \in Call : call = executor[e] /\ ExecutorOK(e, call)
    BY CallKnown
  <1>2. /\ UNCHANGED <<works, mapping, revision, connected, gallery, plans, accepted, clock>>
        /\ call.at \in {"next", "reconcile", "prepare", "receipt"} /\ call.plan \in Plans /\ plans[call.plan].made
        /\ gallery \subseteq Publications /\ Of(e) = plans[call.plan]
    BY <1>1, CallKnown DEF Begin, Reconcile, ReconcileUnknown, Prepare, Receipt, authorityVars
  <1>3. portFaults' \in 0..MaxPortFaults
    <2>1. portFaults \in 0..MaxPortFaults /\ MaxPortFaults \in Nat
      BY CallKnown DEF DestAssumption
    <2>2. portFaults' = portFaults \/ (portFaults < MaxPortFaults /\ portFaults' = portFaults + 1)
      BY DEF Begin, Reconcile, ReconcileUnknown, Prepare, Receipt, Fault
    <2>3. QED
      BY <2>1, <2>2
  <1>4. \A state \in {"partially_applied", "paused"} : Saves(e, state) => runs' \in [Plans -> Run]
    BY <1>1, <1>2, RunsTyped
  <1>5. UNCHANGED runs => runs' \in [Plans -> Run]
    BY CallKnown
  <1>6. ASSUME Leaves(e), runs' \in [Plans -> Run] PROVE DestInv'
    <2>1. executor' = [executor EXCEPT ![e] = NoCall] /\ lease' \in {lease, NoExecutor}
      BY <1>6 DEF Leaves
    <2>2. QED
      BY <1>2, <1>3, <1>6, <2>1, ExecutorEnds
  <1>7. call.at \notin {"idle", "start"} /\ (plans[call.plan].revision = revision => mapping.setting.authority = "native")
    BY <1>1, <1>2 DEF ExecutorOK
  <1>8. executor \in [Executors -> Call]
    BY DEF DestInv, DestTypeOK
  <1>9. call.op \subseteq Publications /\ call.confirmed \subseteq Publications /\ {} \subseteq Publications
    BY DEF Call
  <1>10. ASSUME NEW new \in Call, executor' = [executor EXCEPT ![e] = new], lease' = lease, runs' \in [Plans -> Run],
                ExecutorOK(e, new)'
         PROVE  DestInv'
    BY <1>2, <1>3, <1>10, ExecutorMoves
  <1>11. ASSUME ConfirmsOperation(e), call.at \in {"reconcile", "receipt"} PROVE DestInv'
    <2>1. CASE lease = e
      <3>1. PICK all \in SUBSET Publications : all = call.confirmed \cup call.op
        BY <1>9
      <3>2. PICK new \in Call : /\ new = Turned(call, "next", {}, all)
                                /\ new.at = "next" /\ new.plan = call.plan /\ new.late = call.late
        BY <1>9, CallTurned
      <3>3. executor' = [executor EXCEPT ![e].at = "next", ![e].confirmed = all, ![e].op = {}] /\ lease' = lease
            /\ Saved(e, "running", all)
        BY <1>1, <1>11, <2>1, <3>1 DEF ConfirmsOperation
      <3>4. executor' = [executor EXCEPT ![e] = new]
        BY <1>1, <1>8, <3>2, <3>3, ZenonT(30) DEF Turned
      <3>5. runs' \in [Plans -> Run]
        BY <1>1, <1>2, <3>3, RunsTyped
      <3>6. ExecutorOK(e, new)'
        BY <1>1, <1>2, <1>7, <1>11, <3>2 DEF ExecutorOK
      <3>7. QED
        BY <1>10, <3>3, <3>4, <3>5, <3>6
    <2>2. CASE lease # e
      BY <1>5, <1>6, <1>11, <2>2 DEF ConfirmsOperation
    <2>3. QED
      BY <2>1, <2>2
  <1>12. CASE Begin(e)
    <2>1. PICK rest \in SUBSET Publications : rest = Operations(call.plan) \ call.confirmed
      <3>1. plans[call.plan] \in Planned
        BY <1>2 DEF DestInv, DestTypeOK
      <3>2. Operations(call.plan) \subseteq Publications
        BY <3>1 DEF Operations, Planned, Publications
      <3>3. QED
        BY <3>2
    <2>2. rest = (Of(e).adds \cup Of(e).removes) \ executor[e].confirmed /\ call.at = "next"
      BY <1>1, <1>2, <1>12, <2>1 DEF Operations, Begin
    <2>3. CASE rest = {}
      <3>1. PICK new \in Call : /\ new = Turned(call, "readback", call.op, call.confirmed)
                                /\ new.at = "readback" /\ new.plan = call.plan /\ new.late = call.late
                                /\ new.confirmed = call.confirmed
        BY <1>9, CallTurned
      <3>2. executor' = [executor EXCEPT ![e].at = "readback"] /\ UNCHANGED <<runs, lease>>
        BY <1>12, <2>2, <2>3 DEF Begin, Moves
      <3>3. executor' = [executor EXCEPT ![e] = new]
        BY <1>1, <1>8, <3>1, <3>2, ZenonT(30) DEF Turned
      <3>4. Operations(call.plan)' = Operations(call.plan) /\ Operations(call.plan) \subseteq call.confirmed
        BY <1>2, <2>1, <2>3 DEF Operations
      <3>5. ExecutorOK(e, new)'
        BY <1>1, <1>2, <1>7, <2>2, <3>1, <3>4 DEF ExecutorOK
      <3>6. QED
        BY <1>5, <1>10, <3>2, <3>3, <3>5
    <2>4. CASE rest # {} /\ Check(e)
      <3>1. PICK op \in rest : executor' = [executor EXCEPT ![e].at = "reconcile", ![e].op = {op}]
        BY <1>12, <2>2, <2>4 DEF Begin
      <3>2. {op} \in SUBSET Publications /\ op \in Operations(call.plan) /\ UNCHANGED <<runs, lease>>
        BY <1>12, <2>1, <2>2, <2>4 DEF Begin
      <3>3. PICK new \in Call : /\ new = Turned(call, "reconcile", {op}, call.confirmed)
                                /\ new.at = "reconcile" /\ new.plan = call.plan /\ new.late = call.late /\ new.op = {op}
        BY <1>9, CallTurned, <3>2
      <3>4. executor' = [executor EXCEPT ![e] = new]
        BY <1>1, <1>8, <3>1, <3>3, ZenonT(30) DEF Turned
      <3>5. call.late = 0
        <4>1. clock \in Nat /\ plans[call.plan].expires \in Nat
          <5>1. clock \in 0..MaxTime /\ plans[call.plan] \in Planned
            BY <1>2 DEF DestInv, DestTypeOK
          <5>2. plans[call.plan].expires \in 0..(MaxTime + Freshness)
            BY <5>1 DEF Planned
          <5>3. QED
            BY <5>1, <5>2 DEF DestAssumption
        <4>2. plans[call.plan].revision = revision /\ clock <= plans[call.plan].expires
          BY <1>1, <2>4 DEF Check, Current
        <4>3. QED
          BY <1>1, <4>1, <4>2 DEF ExecutorOK
      <3>6. Operations(call.plan)' = Operations(call.plan)
        BY <1>2 DEF Operations
      <3>7. ExecutorOK(e, new)'
        BY <1>2, <1>7, <3>2, <3>3, <3>5, <3>6 DEF ExecutorOK
      <3>8. QED
        BY <1>5, <1>10, <3>2, <3>4, <3>7
    <2>5. CASE rest # {} /\ ~Check(e)
      BY <1>4, <1>6, <1>12, <2>2, <2>5 DEF Begin
    <2>6. QED
      BY <2>3, <2>4, <2>5
  <1>13. CASE Reconcile(e)
    <2>1. CASE Stands(e)
      BY <1>1, <1>2, <1>11, <1>13, <2>1 DEF Reconcile
    <2>2. CASE ~Stands(e) /\ lease = e
      <3>1. PICK new \in Call : /\ new = Turned(call, "prepare", call.op, call.confirmed)
                                /\ new.at = "prepare" /\ new.plan = call.plan /\ new.late = call.late /\ new.op = call.op
        BY <1>9, CallTurned
      <3>2. executor' = [executor EXCEPT ![e].at = "prepare"] /\ UNCHANGED <<runs, lease>> /\ call.at = "reconcile"
        BY <1>1, <1>13, <2>2 DEF Reconcile, Moves
      <3>3. executor' = [executor EXCEPT ![e] = new]
        BY <1>1, <1>8, <3>1, <3>2, ZenonT(30) DEF Turned
      <3>4. call.op \subseteq Operations(call.plan) /\ (\E y : call.op = {y}) /\ call.late = 0
        BY <1>1, <3>2 DEF ExecutorOK
      <3>5. ({call.plan} \X call.op) \cap accepted = {}
        <4>1. PICK y : call.op = {y}
          BY <3>4
        <4>2. (y \in gallery) # (y \in plans[call.plan].adds)
          BY <1>1, <1>2, <2>2, <4>1 DEF Stands
        <4>3. <<call.plan, y>> \notin accepted
          BY <4>2 DEF DestInv, Standing
        <4>4. QED
          BY <4>1, <4>3
      <3>6. Operations(call.plan)' = Operations(call.plan)
        BY <1>2 DEF Operations
      <3>7. ExecutorOK(e, new)'
        BY <1>2, <1>7, <3>1, <3>4, <3>5, <3>6 DEF ExecutorOK
      <3>8. QED
        BY <1>5, <1>10, <3>2, <3>3, <3>7
    <2>3. CASE ~Stands(e) /\ lease # e
      BY <1>5, <1>6, <1>13, <2>3 DEF Reconcile
    <2>4. QED
      BY <2>1, <2>2, <2>3
  <1>14. CASE ReconcileUnknown(e)
    BY <1>4, <1>6, <1>14 DEF ReconcileUnknown
  <1>15. CASE Prepare(e)
    <2>1. CASE Check(e)
      <3>1. PICK new \in Call : /\ new = Turned(call, "request", call.op, call.confirmed)
                                /\ new.at = "request" /\ new.plan = call.plan /\ new.late = call.late /\ new.op = call.op
        BY <1>9, CallTurned
      <3>2. executor' = [executor EXCEPT ![e].at = "request"] /\ UNCHANGED <<runs, lease>> /\ call.at = "prepare"
        BY <1>1, <1>15, <2>1 DEF Prepare, Moves
      <3>3. executor' = [executor EXCEPT ![e] = new]
        BY <1>1, <1>8, <3>1, <3>2, ZenonT(30) DEF Turned
      <3>4. call.op \subseteq Operations(call.plan) /\ (\E y : call.op = {y}) /\ call.late = 0
            /\ (lease = e => ({call.plan} \X call.op) \cap accepted = {})
        BY <1>1, <3>2 DEF ExecutorOK
      <3>5. Operations(call.plan)' = Operations(call.plan)
        BY <1>2 DEF Operations
      <3>6. ExecutorOK(e, new)'
        BY <1>2, <1>7, <3>1, <3>2, <3>4, <3>5 DEF ExecutorOK
      <3>7. QED
        BY <1>5, <1>10, <3>2, <3>3, <3>6
    <2>2. CASE ~Check(e)
      BY <1>4, <1>6, <1>15, <2>2 DEF Prepare
    <2>3. QED
      BY <2>1, <2>2
  <1>16. CASE Receipt(e)
    BY <1>1, <1>2, <1>11, <1>16 DEF Receipt
  <1>17. QED
    BY <1>12, <1>13, <1>14, <1>15, <1>16

\* What the platform is asked for is the call's operation of its plan.
LEMMA OperationCarried ==
  ASSUME DestAssumption, DestInv, NEW e \in Executors, executor[e].at = "request", CarriedOut(e)
  PROVE  /\ gallery' \subseteq Publications
         /\ \/ accepted' = Standing(accepted, gallery')
            \/ /\ lease = e /\ executor[e].plan \in Plans /\ executor[e].op \subseteq Operations(executor[e].plan)
               /\ plans[executor[e].plan].made
               /\ accepted' = Standing(accepted \cup ({executor[e].plan} \X executor[e].op), gallery')
  <1>1. /\ executor[e].plan \in Plans /\ plans[executor[e].plan].made /\ executor[e].op \subseteq Operations(executor[e].plan)
        /\ executor[e].op \subseteq Publications /\ gallery \subseteq Publications
    BY CallKnown DEF ExecutorOK, Call
  <1>2. gallery' \subseteq Publications
    BY <1>1 DEF CarriedOut
  <1>3. CASE lease = e
    BY <1>1, <1>2, <1>3 DEF CarriedOut
  <1>4. CASE lease # e
    <2>1. accepted \cup {} = accepted
      OBVIOUS
    <2>2. QED
      BY <1>2, <1>4, <2>1 DEF CarriedOut
  <1>5. QED
    BY <1>3, <1>4

\* The request to the platform, the readback and the end.
LEMMA Asking ==
  ASSUME DestAssumption, DestInv, NEW e \in Executors,
         Request(e) \/ RequestFails(e) \/ ReadGallery(e) \/ Conclude(e) \/ CrashExecutor(e)
  PROVE  DestInv'
  <1>1. PICK call \in Call : call = executor[e] /\ ExecutorOK(e, call)
    BY CallKnown
  <1>2. /\ UNCHANGED <<works, mapping, revision, connected, plans, clock>>
        /\ call.at # "idle" /\ call.plan \in Plans /\ plans[call.plan].made
        /\ gallery \subseteq Publications /\ Of(e) = plans[call.plan] /\ runs \in [Plans -> Run]
    BY <1>1, CallKnown DEF Request, RequestFails, ReadGallery, Conclude, CrashExecutor, authorityVars
  <1>3. portFaults' \in 0..MaxPortFaults
    <2>1. portFaults \in 0..MaxPortFaults /\ MaxPortFaults \in Nat
      BY CallKnown DEF DestAssumption
    <2>2. portFaults' = portFaults \/ (portFaults < MaxPortFaults /\ portFaults' = portFaults + 1)
      BY DEF Request, RequestFails, ReadGallery, Conclude, CrashExecutor, Fault
    <2>3. QED
      BY <2>1, <2>2
  <1>4. \A state \in {"partially_applied", "verified", "unverified"} : Saves(e, state) => runs' \in [Plans -> Run]
    BY <1>1, <1>2, RunsTyped
  <1>5. Leaves(e) => executor' = [executor EXCEPT ![e] = NoCall] /\ lease' \in {lease, NoExecutor}
    BY DEF Leaves
  <1>6. Operations(call.plan)' = Operations(call.plan)
    BY <1>2 DEF Operations
  <1>7. revision \in Nat /\ clock \in 0..MaxTime
    BY DEF DestInv, DestTypeOK, DestAssumption
  <1>8. CASE Request(e)
    <2>1. call.at = "request" /\ CarriedOut(e) /\ UNCHANGED <<runs, lease>>
      BY <1>1, <1>8 DEF Request
    <2>2. /\ call.late = 0 /\ call.op \subseteq Operations(call.plan) /\ \E y : call.op = {y}
          /\ (plans[call.plan].revision = revision => mapping.setting.authority = "native")
      BY <1>1, <2>1 DEF ExecutorOK
    <2>3. PICK late \in 0..2 : late = (IF Late(e) THEN 1 ELSE 0)
      OBVIOUS
    <2>4. PICK new : new = [call EXCEPT !.at = "receipt", !.late = late]
      OBVIOUS
    <2>5. new \in Call /\ new.at = "receipt" /\ new.plan = call.plan /\ new.late = late /\ new.op = call.op
      BY <2>4 DEF Call
    <2>6. executor' = [executor EXCEPT ![e] = new]
      <3>1. (IF Late(e) /\ executor[e].late < 2 THEN executor[e].late + 1 ELSE executor[e].late) = late
        BY <1>1, <2>2, <2>3
      <3>2. executor' = [executor EXCEPT ![e].at = "receipt", ![e].late = late]
        BY <1>8, <3>1 DEF Request
      <3>3. QED
        BY <1>1, <2>4, <3>2 DEF DestInv, DestTypeOK, Call
    <2>7. late # 0 => late = 1 /\ (plans[call.plan].revision # revision \/ clock > plans[call.plan].expires)
      BY <1>2, <2>3 DEF Late
    <2>8. ExecutorOK(e, new)'
      BY <1>2, <1>6, <2>2, <2>5, <2>7 DEF ExecutorOK
    <2>9. QED
      BY <1>1, <1>2, <1>3, <2>1, <2>5, <2>6, <2>8, OperationCarried, ExecutorMoves
  <1>9. CASE RequestFails(e)
    <2>1. call.at = "request" /\ (CarriedOut(e) \/ UNCHANGED <<gallery, accepted>>) /\ runs' \in [Plans -> Run]
          /\ executor' = [executor EXCEPT ![e] = NoCall] /\ lease' \in {lease, NoExecutor}
      BY <1>1, <1>4, <1>5, <1>9 DEF RequestFails
    <2>2. QED
      BY <1>1, <1>2, <1>3, <2>1, OperationCarried, ExecutorEnds
  <1>10. CASE ReadGallery(e)
    <2>1. PICK complete \in BOOLEAN :
            executor' = [executor EXCEPT ![e].at = "conclude", ![e].seen = gallery, ![e].complete = complete, ![e].readAt = clock]
      BY <1>10 DEF ReadGallery
    <2>2. PICK new : new = [call EXCEPT !.at = "conclude", !.seen = gallery, !.complete = complete, !.readAt = clock]
      OBVIOUS
    <2>3. new \in Call /\ new.at = "conclude" /\ new.plan = call.plan /\ new.late = call.late /\ new.confirmed = call.confirmed
      BY <1>2, <1>7, <2>2 DEF Call
    <2>4. executor' = [executor EXCEPT ![e] = new]
      BY <1>1, <2>1, <2>2 DEF DestInv, DestTypeOK, Call
    <2>5. call.at = "readback" /\ UNCHANGED <<gallery, runs, lease, accepted>>
      BY <1>1, <1>10 DEF ReadGallery
    <2>6. ExecutorOK(e, new)'
      BY <1>1, <1>2, <1>6, <2>3, <2>5 DEF ExecutorOK
    <2>7. QED
      BY <1>2, <1>3, <2>3, <2>4, <2>5, <2>6, ExecutorMoves
  <1>11. CASE Conclude(e)
    <2>1. UNCHANGED <<gallery, accepted>> /\ runs' \in [Plans -> Run]
          /\ executor' = [executor EXCEPT ![e] = NoCall] /\ lease' \in {lease, NoExecutor}
      BY <1>4, <1>5, <1>11 DEF Conclude
    <2>2. QED
      BY <1>2, <1>3, <2>1, ExecutorEnds
  <1>12. CASE CrashExecutor(e)
    BY <1>2, <1>3, <1>12, ExecutorEnds DEF CrashExecutor
  <1>13. QED
    BY <1>8, <1>9, <1>10, <1>11, <1>12

LEMMA DestSteps == DestAssumption /\ DestInv /\ [DestNext]_destVars => DestInv'
  <1> SUFFICES ASSUME DestAssumption, DestInv, [DestNext]_destVars PROVE DestInv'
    OBVIOUS
  <1>1. CASE DestNext
    BY <1>1, WorldMoves, PlanMade, Beginning, Operating, Asking DEF DestNext
  <1>2. CASE UNCHANGED destVars
    <2>1. UNCHANGED <<works, mapping, revision, connected, gallery, plans, runs, lease, executor, accepted, clock, portFaults>>
      BY <1>2 DEF destVars
    <2>2. DestTypeOK'
      BY <2>1 DEF DestInv, DestTypeOK
    <2>3. \A p \in Plans : PlanOK(p)'
      BY <2>1 DEF DestInv, PlanOK, Wanted, Intended, Scope
    <2>4. \A e \in Executors : ExecutorOK(e, executor[e])'
      BY <2>1 DEF DestInv, ExecutorOK, Operations
    <2>5. QED
      BY <2>1, <2>2, <2>3, <2>4 DEF DestInv, Standing
  <1>3. QED
    BY <1>1, <1>2

-----------------------------------------------------------------------------
\* The collection, the plans, the runs and the calls keep their types.
THEOREM DestinationsTyped == ASSUME DestAssumption PROVE DestSpec => []DestTypeOK
  <1>1. DestInv => DestTypeOK
    BY DEF DestInv
  <1>2. QED
    BY <1>1, DestStart, DestSteps, PTL DEF DestSpec

\* However the collection, the mapping or the evidence changes under a call of
\* executeCollectionDestinationPlan, the call sends the platform one request more at most.
THEOREM StaleCallsStop == ASSUME DestAssumption PROVE DestSpec => []StopsWhenStale
  <1>1. ASSUME DestInv, NEW e \in Executors PROVE executor[e].late <= 1
    BY <1>1 DEF DestInv, DestTypeOK, Call, ExecutorOK
  <1>2. DestInv => StopsWhenStale
    BY <1>1 DEF StopsWhenStale
  <1>3. QED
    BY <1>2, DestStart, DestSteps, PTL DEF DestSpec

\* What the platform carried out for a holder of the lease and still shows, no later holder
\* asks for again, whatever answers, leases and processes were lost.
THEOREM NothingAskedTwice == ASSUME DestAssumption PROVE DestSpec => []NotRepeated
  <1>1. DestInv => NotRepeated
    BY DEF DestInv, ExecutorOK, NotRepeated
  <1>2. QED
    BY <1>1, DestStart, DestSteps, PTL DEF DestSpec

\* Only the end of a call records that its plan is verified.
LEMMA OnlyConcludeVerifies ==
  ASSUME DestAssumption, DestInv, DestNext, NEW p \in Plans, runs[p].state # "verified", runs'[p].state = "verified",
         NEW e \in Executors, executor[e].plan = p, executor'[e] = NoCall
  PROVE  Conclude(e) /\ lease = e
  <1>1. runs \in [Plans -> Run] /\ executor \in [Executors -> Call] /\ runs' # runs
    BY DEF DestInv, DestTypeOK
  <1>2. PICK d \in Executors :
          \/ \E q \in Plans, reviewed \in BOOLEAN : Execute(d, q, reviewed)
          \/ StartRun(d) \/ Begin(d) \/ Reconcile(d) \/ ReconcileUnknown(d) \/ Prepare(d) \/ Request(d) \/ RequestFails(d)
          \/ Receipt(d) \/ ReadGallery(d) \/ Conclude(d) \/ CrashExecutor(d)
    BY <1>1 DEF DestNext, Curate, Configure, Connection, LeaseRunsOut, Passes, EditGallery, MakePlan
  <1>3. StartRun(d) \/ Begin(d) \/ Reconcile(d) \/ ReconcileUnknown(d) \/ RequestFails(d) \/ Prepare(d) \/ Receipt(d) \/ Conclude(d)
    BY <1>1, <1>2 DEF Execute, Request, ReadGallery, CrashExecutor
  <1>4. \A state \in {"running", "paused", "partially_applied"} : \A confirmed : ~Saved(d, state, confirmed)
    <2>1. ASSUME NEW state \in {"running", "paused", "partially_applied"}, NEW confirmed, Saved(d, state, confirmed)
          PROVE  FALSE
      <3>1. runs'[p] = runs[p] \/ runs'[p].state = state
        BY <1>1, <2>1 DEF Saved
      <3>2. QED
        BY <3>1
    <2>2. QED
      BY <2>1
  <1>5. Conclude(d)
    BY <1>1, <1>3, <1>4 DEF StartRun, Begin, Reconcile, ReconcileUnknown, RequestFails, Prepare, Receipt, Saves, ConfirmsOperation
  <1>6. lease = d
    BY <1>1, <1>5 DEF Conclude, Saves
  <1>7. d = e
    <2>1. executor' = [executor EXCEPT ![d] = NoCall]
      BY <1>5 DEF Conclude, Leaves
    <2>2. CASE d # e
      <3>1. executor'[e] = executor[e] /\ NoCall.plan = 0
        BY <1>1, <2>1, <2>2 DEF NoCall
      <3>2. QED
        BY <3>1 DEF DestAssumption
    <2>3. QED
      BY <2>2
  <1>8. QED
    BY <1>5, <1>6, <1>7

\* A run is recorded as verified when the platform showed what the collection wants at that
\* moment, and when every operation of the plan was confirmed.
THEOREM VerifiedMeansTrue == ASSUME DestAssumption PROVE DestSpec => [][VerifiedIsTrue]_destVars
  <1>1. ASSUME DestInv, DestNext PROVE VerifiedIsTrue
    <2>1. ASSUME NEW e \in Executors, NEW p \in Plans, runs[p].state # "verified", runs'[p].state = "verified",
                 executor[e].plan = p, executor'[e] = NoCall
          PROVE  /\ Intended \subseteq executor[e].seen
                 /\ mapping.setting.exact => executor[e].seen = Intended
                 /\ plans[p].adds \cup plans[p].removes \subseteq runs'[p].confirmed
      <3>1. Conclude(e) /\ lease = e
        BY <1>1, <2>1, OnlyConcludeVerifies
      <3>2. PICK call \in Call : call = executor[e] /\ ExecutorOK(e, call) /\ Of(e) = plans[p] /\ call.at = "conclude"
        BY <1>1, <2>1, <3>1, CallKnown DEF Conclude
      <3>3. PICK state : Saves(e, state) /\ (state # "unverified" => Current(p) /\ Equal(e))
        BY <2>1, <3>1 DEF Conclude
      <3>4. runs' = [runs EXCEPT ![p] = [state |-> state, confirmed |-> call.confirmed]] /\ runs \in [Plans -> Run]
        BY <1>1, <2>1, <3>1, <3>2, <3>3 DEF Saves, Saved, DestInv, DestTypeOK
      <3>5. runs'[p].state = state /\ runs'[p].confirmed = call.confirmed
        BY <3>4
      <3>6. Current(p) /\ Equal(e)
        BY <2>1, <3>3, <3>5
      <3>7. plans[p].intended = Intended
        BY <1>1, <2>1, <3>2, <3>6 DEF Current, DestInv, PlanOK, ExecutorOK, Wanted
      <3>8. plans[p].adds \cup plans[p].removes \subseteq call.confirmed
        BY <2>1, <3>2 DEF ExecutorOK, Operations
      <3>9. QED
        BY <3>2, <3>5, <3>6, <3>7, <3>8 DEF Equal
    <2>2. QED
      BY <2>1 DEF VerifiedIsTrue
  <1>2. ASSUME UNCHANGED destVars PROVE VerifiedIsTrue
    BY <1>2 DEF destVars, VerifiedIsTrue
  <1>3. QED
    BY <1>1, DestStart, DestSteps, PTL DEF DestSpec

\* A plan takes something out of the gallery or of the collection, or finds them equal, on
\* complete and fresh evidence only.
THEOREM PlansHaveEvidence == ASSUME DestAssumption PROVE DestSpec => [][PlansOnEvidence]_destVars
  <1>1. ASSUME DestInv, DestNext PROVE PlansOnEvidence
    <2>1. ASSUME NEW p \in Plans, ~plans[p].made, plans'[p].made
          PROVE  /\ plans'[p].removes \cup plans'[p].inbound # {}
                      => plans'[p].verification \in {"api_verified", "manually_confirmed"}
                 /\ plans'[p].exact => gallery = IF mapping.setting.authority = "platform" THEN Members ELSE Intended
      <3>1. plans' # plans /\ plans \in [Plans -> Planned]
        BY <1>1, <2>1 DEF DestInv, DestTypeOK
      <3>2. PICK q \in Plans : MakePlan(q)
        BY <1>1, <3>1 DEF DestNext, Curate, Configure, Connection, LeaseRunsOut, Passes, EditGallery, Execute, StartRun, Begin,
             Reconcile, ReconcileUnknown, Prepare, Request, RequestFails, Receipt, ReadGallery, Conclude, CrashExecutor
      <3>3. PICK o \in Observation : Seen(o) /\ plans' = [plans EXCEPT ![q] = PlanOf(o)]
        BY <3>2 DEF MakePlan
      <3>4. p = q /\ plans'[p] = PlanOf(o)
        BY <2>1, <3>1, <3>3
      <3>5. QED
        BY <1>1, <3>3, <3>4, PlanFacts
    <2>2. QED
      BY <2>1 DEF PlansOnEvidence
  <1>2. QED
    BY <1>1, DestStart, DestSteps, PTL DEF DestSpec

\* But for what somebody edits there or a failed request did, only a request of a call takes
\* a publication out of the gallery, and one that its plan found there and did not want.
THEOREM OnlyPlannedRemovals == ASSUME DestAssumption PROVE DestSpec => [][RemovesKnown]_destVars
  <1>1. ASSUME DestInv, DestNext PROVE RemovesKnown
    <2>1. ASSUME NEW p \in gallery \ gallery', portFaults' = portFaults
          PROVE  \E e \in Executors : executor[e].at = "request" /\ p \in Of(e).removes /\ p \notin Of(e).intended
      <3>1. gallery' # gallery
        BY <2>1
      <3>2. ~Fault
        BY <1>1, <2>1 DEF Fault, DestInv, DestTypeOK
      <3>3. PICK e \in Executors : Request(e)
        BY <1>1, <3>1, <3>2 DEF DestNext, Curate, Configure, Connection, LeaseRunsOut, Passes, EditGallery, MakePlan, Execute,
             StartRun, Begin, Reconcile, ReconcileUnknown, Prepare, RequestFails, Receipt, ReadGallery, Conclude, CrashExecutor
      <3>4. PICK call \in Call : call = executor[e] /\ ExecutorOK(e, call) /\ call.at = "request"
        BY <1>1, <3>3, CallKnown DEF Request
      <3>5. Of(e) = plans[call.plan] /\ plans[call.plan].made /\ call.plan \in Plans
        BY <1>1, <3>4, CallKnown
      <3>6. p \in call.op /\ ~(call.op \subseteq plans[call.plan].adds)
        BY <2>1, <3>3, <3>4, <3>5 DEF Request, CarriedOut
      <3>7. p \in plans[call.plan].removes
        <4>1. PICK y : call.op = {y}
          BY <3>4 DEF ExecutorOK
        <4>2. y = p /\ p \notin plans[call.plan].adds /\ p \in Operations(call.plan)
          BY <3>4, <3>6, <4>1 DEF ExecutorOK
        <4>3. QED
          BY <4>2 DEF Operations
      <3>8. p \notin plans[call.plan].intended
        BY <1>1, <3>5, <3>7 DEF DestInv, PlanOK
      <3>9. QED
        BY <3>4, <3>5, <3>7, <3>8
    <2>2. QED
      BY <2>1 DEF RemovesKnown
  <1>2. ASSUME UNCHANGED destVars PROVE RemovesKnown
    BY <1>2 DEF destVars, RemovesKnown
  <1>3. QED
    BY <1>1, DestStart, DestSteps, PTL DEF DestSpec

-----------------------------------------------------------------------------
(* The media of Works and the jobs that process them.                       *)

\* NoAsset is no asset, and the bounds are numbers.
AssetAssumption == NoAsset \notin Assets /\ MaxJobs \in Nat /\ MaxAttempts \in Nat /\ MaxCommits \in Nat \ {0}

LibraryWork == [revision : 1..MaxCommits, status : {"draft", "archived", "deleted"}, primary : Assets \cup {NoAsset},
                refs : SUBSET Assets]
StoredAsset == [stored : BOOLEAN, admitted : 0..MaxJobs, result : 0..(MaxJobs + 1)]
AssetJob == [state : {"none", "queued", "leased", "lapsed", "retry_scheduled", "cancelled", "completed", "dead_lettered"},
             work : LibraryWorks \cup {NoJob.work}, asset : Assets \cup {NoJob.asset}, key : Regenerations \cup {NoRequest},
             attempt : 0..(MaxAttempts + 1)]

\* Each asset of an order is in one place.
Distinct(order) == \A i, j \in 1..Len(order) : order[i] = order[j] => i = j

\* What readers rely on, of a Work with its media and its primary one.
Whole(its, order, leading) ==
  /\ its.refs \subseteq ToSet(order) /\ Distinct(order)
  /\ IF order = <<>> THEN its.primary = NoAsset /\ leading = {}
     ELSE its.primary \in ToSet(order) /\ leading = {its.primary}

LibraryOK ==
  /\ workRecord \in [LibraryWorks -> LibraryWork] /\ media \in [LibraryWorks -> Seq(Assets)]
  /\ lead \in [LibraryWorks -> SUBSET Assets]
  /\ \A w \in LibraryWorks : Whole(workRecord[w], media[w], lead[w]) /\ \A a \in Media(w) : asset[a].stored

JobsOf(a) == {j \in JobIds : job[j].state # "none" /\ job[j].asset = a}

\* The result is of a completed job; the jobs of an asset are its first or no later than the one admitted last.
AssetOK(a) ==
  /\ ~asset[a].stored => asset[a].admitted = 0 /\ asset[a].result = 0 /\ JobsOf(a) = {}
  /\ asset[a].result # 0 /\ MaxJobs > 0 => asset[a].result \in JobsOf(a) /\ job[asset[a].result].state = "completed"
  /\ asset[a].admitted = 0 => \A i, j \in JobsOf(a) : i = j
  /\ asset[a].admitted # 0 => \A j \in JobsOf(a) : j <= asset[a].admitted

JobsOK ==
  /\ asset \in [Assets -> StoredAsset] /\ job \in [JobIds -> AssetJob]
  /\ \A j \in JobIds : job[j].state \in {"none", "queued", "retry_scheduled"} => job[j].attempt <= MaxAttempts
  /\ \A j \in JobIds : job[j].state # "none" => job[j].asset \in Assets /\ \A i \in 1..j - 1 : job[i].state # "none"
  /\ \A a \in Assets : AssetOK(a)

\* What a service asks for.
Requested(op, input) ==
  \/ op \in {"attach", "primary", "detach"} /\ input \in [asset : Assets]
  \/ op = "existing" /\ input \in [asset : Assets, source : LibraryWorks]
  \/ op = "order" /\ input \in [order : Seq(Assets)] /\ Distinct(input.order)
  \/ op = "regenerate" /\ input \in [asset : Assets, request : Regenerations]
  \/ op = "revise" /\ input \in [refs : SUBSET Assets, status : {"draft", "archived", "deleted"}]

\* The Work a service read is the stored one while its revision is.
ServiceOK(call) ==
  \/ call = Away
  \/ \E op, w, seen, input :
       /\ call = [at |-> op, work |-> w, seen |-> seen, input |-> input] /\ Requested(op, input)
       /\ w \in LibraryWorks /\ seen \in LibraryWork /\ seen.revision < MaxCommits /\ seen.revision <= workRecord[w].revision
       /\ seen.revision = workRecord[w].revision => seen = workRecord[w]

ProcessorOK(its) ==
  its = Away \/ its \in [at : {"process", "failed"}, job : JobIds, token : 1..MaxAttempts + 1]

\* The inductive invariant.
AssetInv ==
  /\ LibraryOK /\ JobsOK
  /\ client = [c \in Clients |-> client[c]] /\ \A c \in Clients : ServiceOK(client[c])
  /\ worker = [k \in Workers |-> worker[k]] /\ \A k \in Workers : ProcessorOK(worker[k])

\* A Work changes only at a new revision, and no job is completed unless a worker did it.
WorksMove == \A w \in LibraryWorks : workRecord'[w] = workRecord[w] \/ workRecord[w].revision < workRecord'[w].revision
NoneEnds == \A j \in JobIds : job'[j].state = "completed" => job[j].state = "completed"

\* Media that are attached once are as many as their places.
LEMMA DistinctLength ==
  ASSUME NEW S, NEW order \in Seq(S), Distinct(order)
  PROVE  Len(order) = Cardinality(ToSet(order))
  <1>1. Len(order) \in Nat /\ order \in [1..Len(order) -> S] /\ DOMAIN order = 1..Len(order)
    BY LenProperties
  <1>2. ToSet(order) = {order[i] : i \in 1..Len(order)}
    BY <1>1 DEF ToSet
  <1>3. order \in [1..Len(order) -> ToSet(order)]
    BY <1>1, <1>2
  <1>4. \A x \in ToSet(order) : \E i \in 1..Len(order) : order[i] = x
    BY <1>2
  <1>5. order \in Bijection(1..Len(order), ToSet(order))
    <2>1. \A i, j \in 1..Len(order) : order[i] = order[j] => i = j
      BY DEF Distinct
    <2>2. QED
      BY <1>3, <1>4, <2>1, Fun_IsBij
  <1>6. ExistsBijection(1..Len(order), ToSet(order))
    BY <1>5 DEF ExistsBijection
  <1>7. QED
    BY <1>1, <1>6, FS_CountingElements

\* Attached last.
LEMMA AttachedLast ==
  ASSUME NEW S, NEW order \in Seq(S), Distinct(order), NEW a \in S, a \notin ToSet(order)
  PROVE  /\ Append(order, a) \in Seq(S) /\ Append(order, a) # <<>> /\ Distinct(Append(order, a))
         /\ ToSet(Append(order, a)) = ToSet(order) \cup {a}
  <1>1. Len(order) \in Nat /\ DOMAIN order = 1..Len(order)
    BY LenProperties
  <1>2. PICK new : new = Append(order, a)
    OBVIOUS
  <1>3. /\ new \in Seq(S) /\ new # <<>> /\ Len(new) = Len(order) + 1
        /\ \A i \in 1..Len(order) : new[i] = order[i]
        /\ new[Len(order) + 1] = a
    BY <1>2, AppendProperties
  <1>4. \A i \in 1..Len(order) : order[i] # a
    BY <1>1 DEF ToSet
  <1>5. Distinct(new)
    <2>1. SUFFICES ASSUME NEW i \in 1..Len(order) + 1, NEW j \in 1..Len(order) + 1, new[i] = new[j] PROVE i = j
      BY <1>3 DEF Distinct
    <2>2. CASE i = Len(order) + 1 \/ j = Len(order) + 1
      BY <1>1, <1>3, <1>4, <2>1, <2>2
    <2>3. CASE i \in 1..Len(order) /\ j \in 1..Len(order)
      BY <1>3, <2>1, <2>3 DEF Distinct
    <2>4. QED
      BY <1>1, <2>2, <2>3
  <1>6. ToSet(new) = ToSet(order) \cup {a}
    <2>1. DOMAIN new = 1..Len(order) + 1
      BY <1>3, LenProperties
    <2>2. \A i \in 1..Len(order) + 1 : i \in 1..Len(order) \/ i = Len(order) + 1
      BY <1>1
    <2>3. \A i \in 1..Len(order) : i \in 1..Len(order) + 1
      BY <1>1
    <2>4. Len(order) + 1 \in 1..Len(order) + 1
      BY <1>1
    <2>5. QED
      BY <1>1, <1>3, <2>1, <2>2, <2>3, <2>4 DEF ToSet
  <1>7. QED
    BY <1>2, <1>3, <1>5, <1>6

\* What remains of media that were attached once.
LEMMA LeftOut ==
  ASSUME NEW S, NEW order \in Seq(S), Distinct(order), NEW a \in ToSet(order)
  PROVE  LET rest == Without(order, a)
         IN rest \in Seq(S) /\ Distinct(rest) /\ ToSet(rest) = ToSet(order) \ {a}
  <1>1. Len(order) \in Nat /\ DOMAIN order = 1..Len(order) /\ order \in [1..Len(order) -> S]
    BY LenProperties
  <1>2. PICK n : n = Len(order)
    OBVIOUS
  <1>3. PICK p : p = CHOOSE i \in 1..Len(order) : order[i] = a
    OBVIOUS
  <1>4. p \in 1..n /\ order[p] = a /\ n \in Nat
    <2>1. \E i \in 1..Len(order) : order[i] = a
      BY <1>1 DEF ToSet
    <2>2. QED
      BY <1>1, <1>2, <1>3, <2>1
  <1>5. PICK s, t : s = SubSeq(order, 1, p - 1) /\ t = SubSeq(order, p + 1, n)
    OBVIOUS
  <1>6. s \in Seq(S) /\ Len(s) = p - 1 /\ \A i \in 1..p - 1 : s[i] = order[i]
    <2>1. 1 \in Int /\ p - 1 \in Int /\ \A i \in 1..p - 1 : order[i] \in S
      BY <1>1, <1>2, <1>4
    <2>2. /\ SubSeq(order, 1, p - 1) \in Seq(S) /\ Len(SubSeq(order, 1, p - 1)) = IF 1 <= p - 1 THEN p - 1 - 1 + 1 ELSE 0
          /\ \A i \in 1..p - 1 - 1 + 1 : SubSeq(order, 1, p - 1)[i] = order[1 + i - 1]
      BY <2>1, SubSeqProperties
    <2>3. QED
      BY <1>4, <1>5, <2>2, SMTT(30)
  <1>7. t \in Seq(S) /\ Len(t) = n - p /\ \A i \in 1..n - p : t[i] = order[p + i]
    <2>1. p + 1 \in Int /\ n \in Int /\ \A i \in p + 1..n : order[i] \in S
      BY <1>1, <1>2, <1>4
    <2>2. /\ SubSeq(order, p + 1, n) \in Seq(S) /\ Len(SubSeq(order, p + 1, n)) = IF p + 1 <= n THEN n - (p + 1) + 1 ELSE 0
          /\ \A i \in 1..n - (p + 1) + 1 : SubSeq(order, p + 1, n)[i] = order[p + 1 + i - 1]
      BY <2>1, SubSeqProperties
    <2>3. QED
      <3>1. n \in Int /\ p \in Int /\ p <= n
        BY <1>4
      <3>2. t \in Seq(S) /\ Len(t) = n - p
        BY <1>5, <2>2, <3>1
      <3>3. ASSUME NEW i \in 1..n - p PROVE t[i] = order[p + i]
        <4>1. i \in 1..n - (p + 1) + 1 /\ p + 1 + i - 1 = p + i
          BY <3>1
        <4>2. SubSeq(order, p + 1, n)[i] = order[p + 1 + i - 1]
          BY <2>2, <4>1
        <4>3. QED
          BY <1>5, <4>1, <4>2
      <3>4. QED
        BY <3>2, <3>3
  <1>8. PICK rest : rest = s \o t
    OBVIOUS
  <1>9. /\ rest \in Seq(S) /\ Len(rest) = n - 1
        /\ \A i \in 1..n - 1 : rest[i] = IF i < p THEN order[i] ELSE order[i + 1]
    <2>1. /\ rest \in Seq(S) /\ Len(rest) = Len(s) + Len(t)
          /\ \A i \in 1..Len(s) + Len(t) : rest[i] = IF i <= Len(s) THEN s[i] ELSE t[i - Len(s)]
      BY <1>6, <1>7, <1>8, ConcatProperties
    <2>2. p \in Nat /\ Len(s) + Len(t) = n - 1
      BY <1>4, <1>6, <1>7
    <2>3. ASSUME NEW i \in 1..n - 1 PROVE rest[i] = IF i < p THEN order[i] ELSE order[i + 1]
      <3>1. CASE i < p
        <4>1. i \in 1..p - 1 /\ i <= Len(s)
          BY <1>4, <1>6, <3>1
        <4>2. QED
          BY <1>6, <2>1, <2>2, <3>1, <4>1
      <3>2. CASE ~(i < p)
        <4>1. i - (p - 1) \in 1..n - p /\ ~(i <= Len(s)) /\ p + (i - (p - 1)) = i + 1
          BY <1>4, <1>6, <3>2
        <4>2. QED
          BY <1>6, <1>7, <2>1, <2>2, <3>2, <4>1
      <3>3. QED
        BY <3>1, <3>2
    <2>4. QED
      BY <2>1, <2>2, <2>3
  <1>10. rest = Without(order, a)
    BY <1>2, <1>3, <1>5, <1>8 DEF Without, RemoveAt
  <1>11. Distinct(rest)
    <2>1. SUFFICES ASSUME NEW i \in 1..n - 1, NEW j \in 1..n - 1, rest[i] = rest[j] PROVE i = j
      BY <1>9 DEF Distinct
    <2>2. PICK k \in 1..n : rest[i] = order[k] /\ (i < p => k = i) /\ (~(i < p) => k = i + 1)
      BY <1>4, <1>9, SMTT(30)
    <2>3. PICK m \in 1..n : rest[j] = order[m] /\ (j < p => m = j) /\ (~(j < p) => m = j + 1)
      BY <1>4, <1>9, SMTT(30)
    <2>4. k = m
      BY <1>2, <2>1, <2>2, <2>3 DEF Distinct
    <2>5. QED
      BY <1>4, <2>2, <2>3, <2>4
  <1>12. ToSet(rest) = ToSet(order) \ {a}
    <2>1. DOMAIN rest = 1..n - 1
      BY <1>9, LenProperties
    <2>2. ASSUME NEW i \in 1..n - 1 PROVE rest[i] \in ToSet(order) \ {a}
      <3>1. PICK k \in 1..n : rest[i] = order[k] /\ k # p
        BY <1>4, <1>9
      <3>2. order[k] # order[p]
        BY <1>2, <1>4, <3>1 DEF Distinct
      <3>3. QED
        BY <1>1, <1>2, <1>4, <3>1, <3>2 DEF ToSet
    <2>3. ASSUME NEW k \in 1..n, order[k] # a PROVE order[k] \in ToSet(rest)
      <3>1. k # p
        BY <1>4, <2>3
      <3>2. PICK i \in 1..n - 1 : rest[i] = order[k]
        <4>1. CASE k < p
          <5>1. k \in 1..n - 1 /\ rest[k] = order[k]
            BY <1>4, <1>9, <4>1
          <5>2. QED
            BY <5>1
        <4>2. CASE p < k
          <5>1. k - 1 \in 1..n - 1 /\ ~(k - 1 < p) /\ k - 1 + 1 = k
            BY <1>4, <4>2
          <5>2. rest[k - 1] = order[k]
            BY <1>9, <5>1
          <5>3. QED
            BY <5>1, <5>2
        <4>3. QED
          BY <1>4, <3>1, <4>1, <4>2
      <3>3. QED
        BY <2>1, <3>2 DEF ToSet
    <2>4. QED
      BY <1>1, <1>2, <2>1, <2>2, <2>3 DEF ToSet
  <1>13. QED
    BY <1>9, <1>10, <1>11, <1>12

-----------------------------------------------------------------------------
\* The first state: no media and no jobs.
LEMMA AssetStart ==
  ASSUME AssetAssumption, AssetInit
  PROVE  AssetInv
  <1> USE DEF AssetInit, AssetAssumption
  <1>1. LibraryOK
    <2>1. PICK order : order = <<>>
      OBVIOUS
    <2>2. order \in Seq(Assets) /\ ToSet(order) = {} /\ Distinct(order)
      BY <2>1 DEF ToSet, Distinct
    <2>3. ASSUME NEW w \in LibraryWorks
          PROVE  /\ workRecord[w] \in LibraryWork /\ media[w] = order /\ lead[w] = {}
                 /\ workRecord[w].refs = {} /\ workRecord[w].primary = NoAsset
      BY <2>1 DEF LibraryWork
    <2>4. \A w \in LibraryWorks : Media(w) = {} /\ Whole(workRecord[w], media[w], lead[w])
      BY <2>1, <2>2, <2>3 DEF Media, Whole
    <2>5. workRecord \in [LibraryWorks -> LibraryWork] /\ media \in [LibraryWorks -> Seq(Assets)] /\ lead \in [LibraryWorks -> SUBSET Assets]
      BY DEF LibraryWork
    <2>6. QED
      BY <2>4, <2>5 DEF LibraryOK
  <1>2. JobsOK
    <2>1. /\ NoJob \in AssetJob /\ NoJob.state = "none" /\ NoJob.attempt = 0
      BY DEF NoJob, AssetJob
    <2>2. job \in [JobIds -> AssetJob] /\ \A j \in JobIds : job[j].state = "none" /\ job[j].attempt = 0
      BY <2>1
    <2>3. asset \in [Assets -> StoredAsset]
      BY DEF StoredAsset
    <2>4. \A a \in Assets : AssetOK(a)
      BY <2>2 DEF AssetOK, JobsOf
    <2>5. QED
      BY <2>2, <2>3, <2>4 DEF JobsOK
  <1>3. QED
    BY <1>1, <1>2 DEF AssetInv, ServiceOK, ProcessorOK

\* A Work that is left alone stays whole, and media once stored stay so.
LEMMA LibraryStands ==
  ASSUME AssetInv, UNCHANGED library, \A a \in Assets : asset[a].stored => asset'[a].stored
  PROVE  LibraryOK' /\ WorksMove
  <1>1. workRecord' = workRecord /\ media' = media /\ lead' = lead
    BY DEF library
  <1>2. LibraryOK
    BY DEF AssetInv
  <1>3. \A w \in LibraryWorks : Media(w)' = Media(w) /\ Media(w) \subseteq Assets
    <2>1. \A w \in LibraryWorks : media[w] \in Seq(Assets)
      BY <1>2 DEF LibraryOK
    <2>2. QED
      BY <1>1, <2>1, LenProperties DEF Media, ToSet
  <1>4. QED
    BY <1>1, <1>2, <1>3 DEF LibraryOK, WorksMove

\* A commit to one Work.
LEMMA LibraryMoves ==
  ASSUME AssetInv, NEW w \in LibraryWorks, NEW next \in LibraryWork, NEW order \in Seq(Assets), NEW leading \in SUBSET Assets,
         workRecord' = [workRecord EXCEPT ![w] = next], media' = [media EXCEPT ![w] = order], lead' = [lead EXCEPT ![w] = leading],
         workRecord[w].revision < next.revision, Whole(next, order, leading),
         \A a \in Assets : asset[a].stored => asset'[a].stored, \A a \in ToSet(order) : asset'[a].stored
  PROVE  LibraryOK' /\ WorksMove /\ Committed(w)
  <1>1. workRecord \in [LibraryWorks -> LibraryWork] /\ media \in [LibraryWorks -> Seq(Assets)] /\ lead \in [LibraryWorks -> SUBSET Assets]
    BY DEF AssetInv, LibraryOK
  <1>2. /\ workRecord' \in [LibraryWorks -> LibraryWork] /\ media' \in [LibraryWorks -> Seq(Assets)]
        /\ lead' \in [LibraryWorks -> SUBSET Assets]
        /\ \A v \in LibraryWorks : /\ workRecord'[v] = IF v = w THEN next ELSE workRecord[v]
                                   /\ media'[v] = IF v = w THEN order ELSE media[v]
                                   /\ lead'[v] = IF v = w THEN leading ELSE lead[v]
    BY <1>1
  <1>3. workRecord[w] \in LibraryWork /\ workRecord[w].revision \in Int /\ next.revision \in Int
    BY <1>1 DEF LibraryWork
  <1>4. ASSUME NEW v \in LibraryWorks
        PROVE  Whole(workRecord'[v], media'[v], lead'[v]) /\ \A a \in ToSet(media'[v]) : asset'[a].stored
    <2>1. CASE v = w
      BY <1>2, <2>1
    <2>2. CASE v # w
      <3>1. Whole(workRecord[v], media[v], lead[v]) /\ \A a \in ToSet(media[v]) : asset[a].stored
        BY DEF AssetInv, LibraryOK, Media
      <3>2. ToSet(media[v]) \subseteq Assets
        <4>1. media[v] \in Seq(Assets)
          BY <1>1
        <4>2. QED
          BY <4>1, LenProperties DEF ToSet
      <3>3. QED
        BY <1>2, <2>2, <3>1, <3>2
    <2>3. QED
      BY <2>1, <2>2
  <1>5. QED
    BY <1>2, <1>3, <1>4 DEF LibraryOK, WorksMove, Committed, Media

\* What was read of a Work is not taken for what it has become.
LEMMA ServiceStays ==
  ASSUME AssetInv, LibraryOK', WorksMove, NEW call, ServiceOK(call)
  PROVE  ServiceOK(call)'
  <1>1. CASE call = Away
    BY <1>1 DEF ServiceOK, Away
  <1>2. CASE call # Away
    <2>1. PICK op, w, seen, input :
            /\ call = [at |-> op, work |-> w, seen |-> seen, input |-> input] /\ Requested(op, input)
            /\ w \in LibraryWorks /\ seen \in LibraryWork /\ seen.revision < MaxCommits /\ seen.revision <= workRecord[w].revision
            /\ seen.revision = workRecord[w].revision => seen = workRecord[w]
      BY <1>2 DEF ServiceOK
    <2>2. workRecord[w].revision \in Int /\ workRecord'[w].revision \in Int /\ seen.revision \in Int
      BY <2>1 DEF AssetInv, LibraryOK, LibraryWork
    <2>3. /\ seen.revision <= workRecord'[w].revision
          /\ seen.revision = workRecord'[w].revision => seen = workRecord'[w]
      BY <2>1, <2>2 DEF WorksMove
    <2>4. Requested(op, input)'
      BY <2>1 DEF Requested, Distinct
    <2>5. /\ call = [at |-> op, work |-> w, seen |-> seen, input |-> input] /\ Requested(op, input)'
          /\ w \in LibraryWorks /\ seen \in LibraryWork /\ seen.revision < MaxCommits /\ seen.revision <= workRecord'[w].revision
          /\ seen.revision = workRecord'[w].revision => seen = workRecord'[w]
      BY <2>1, <2>3, <2>4, Zenon
    <2>6. QED
      BY <2>5, ZenonT(40) DEF ServiceOK
  <1>3. QED
    BY <1>1, <1>2

\* One service goes on, and no worker does anything.
LEMMA ServiceTurns ==
  ASSUME AssetInv, LibraryOK', JobsOK', WorksMove, NEW c \in Clients, NEW call, client' = [client EXCEPT ![c] = call],
         ServiceOK(call)', UNCHANGED worker
  PROVE  AssetInv'
  <1>1. client' = [d \in Clients |-> client'[d]] /\ \A d \in Clients : client'[d] = IF d = c THEN call ELSE client[d]
    BY DEF AssetInv
  <1>2. ASSUME NEW d \in Clients PROVE ServiceOK(client[d])'
    <2>1. PICK x : x = client'[d]
      OBVIOUS
    <2>2. ServiceOK(x)'
      <3>1. CASE d = c
        BY <1>1, <2>1, <3>1
      <3>2. CASE d # c
        <4>1. x = client[d]
          BY <1>1, <2>1, <3>2
        <4>2. ServiceOK(x)
          BY <4>1 DEF AssetInv
        <4>3. QED
          BY <4>2, ServiceStays
      <3>3. QED
        BY <3>1, <3>2
    <2>3. QED
      BY <2>1, <2>2
  <1>3. QED
    BY <1>1, <1>2 DEF AssetInv, ProcessorOK, Away

\* The services wait and one worker, or none, goes on.
LEMMA ProcessorTurns ==
  ASSUME AssetInv, LibraryOK', JobsOK', WorksMove, UNCHANGED client, worker' = [k \in Workers |-> worker'[k]],
         \A k \in Workers : ProcessorOK(worker'[k])
  PROVE  AssetInv'
  <1>1. ASSUME NEW d \in Clients PROVE ServiceOK(client[d])'
    <2>1. PICK x : x = client[d] /\ x = client'[d]
      OBVIOUS
    <2>2. ServiceOK(x)
      BY <2>1 DEF AssetInv
    <2>3. ServiceOK(x)'
      BY <2>2, ServiceStays
    <2>4. QED
      BY <2>1, <2>3
  <1>2. QED
    BY <1>1 DEF AssetInv, ProcessorOK, Away

\* Jobs go on, and none comes or goes or loses its end.
LEMMA JobsTurn ==
  ASSUME AssetAssumption, AssetInv, UNCHANGED asset, job' \in [JobIds -> AssetJob],
         \A j \in JobIds : /\ job'[j].asset = job[j].asset /\ (job'[j].state = "none" <=> job[j].state = "none")
                           /\ job[j].state = "completed" => job'[j].state = "completed"
                           /\ job'[j].state \in {"none", "queued", "retry_scheduled"} => job'[j].attempt <= MaxAttempts
  PROVE  JobsOK' /\ ResultsFenced
  <1>1. JobsOK
    BY DEF AssetInv
  <1>2. \A a \in Assets : JobsOf(a)' = JobsOf(a)
    BY DEF JobsOf
  <1>3. ASSUME NEW a \in Assets PROVE AssetOK(a)'
    <2>1. AssetOK(a)
      BY <1>1 DEF JobsOK
    <2>2. \A j \in JobsOf(a) : j \in JobIds
      BY DEF JobsOf
    <2>3. QED
      BY <1>2, <2>1, <2>2 DEF AssetOK
  <1>4. \A j \in JobIds : job'[j].state # "none" => job'[j].asset \in Assets /\ \A i \in 1..j - 1 : job'[i].state # "none"
    <2>1. \A j \in JobIds : \A i \in 1..j - 1 : i \in JobIds
      BY DEF JobIds, AssetAssumption
    <2>2. QED
      BY <1>1, <2>1 DEF JobsOK
  <1>5. QED
    BY <1>1, <1>3, <1>4 DEF JobsOK, ResultsFenced

LEMMA JobsStand ==
  ASSUME AssetAssumption, AssetInv, UNCHANGED <<asset, job>>
  PROVE  JobsOK' /\ ResultsFenced /\ NoneEnds
  BY JobsTurn DEF AssetInv, JobsOK, NoneEnds

\* A job comes in: the first of an asset, or the one that is admitted.
LEMMA JobEnters ==
  ASSUME AssetAssumption, AssetInv, NEW w \in LibraryWorks, NEW a \in Assets, NEW key \in Regenerations \cup {NoRequest},
         NEW admitted \in BOOLEAN, admitted \/ ~asset[a].stored, Enters(w, a, key, admitted)
  PROVE  /\ JobsOK' /\ ResultsFenced /\ NoneEnds
         /\ asset'[a].stored /\ \A b \in Assets : asset[b].stored => asset'[b].stored
  <1>1. PICK j \in JobIds :
          /\ job[j].state = "none" /\ \A i \in 1..j - 1 : job[i].state # "none"
          /\ job' = [job EXCEPT ![j] = [state |-> "queued", work |-> w, asset |-> a, key |-> key, attempt |-> 0]]
          /\ asset' = [asset EXCEPT ![a] = [asset[a] EXCEPT !.stored = TRUE, !.admitted = IF admitted THEN j ELSE asset[a].admitted]]
    BY DEF Enters
  <1>2. /\ JobsOK /\ asset \in [Assets -> StoredAsset] /\ job \in [JobIds -> AssetJob]
        /\ \A i \in JobIds : job[i].state # "none" => \A k \in 1..i - 1 : job[k].state # "none"
    BY DEF AssetInv, JobsOK
  <1>3. JobIds \subseteq Int /\ j \in JobIds /\ j \in Int /\ j # 0 /\ j \in 0..MaxJobs
    BY <1>1 DEF JobIds, AssetAssumption
  <1>4. PICK new : new = [state |-> "queued", work |-> w, asset |-> a, key |-> key, attempt |-> 0]
    OBVIOUS
  <1>5. new \in AssetJob /\ new.state = "queued" /\ new.asset = a /\ new.attempt = 0
    BY <1>4 DEF AssetJob, AssetAssumption
  <1>6. /\ job' \in [JobIds -> AssetJob] /\ job'[j] = new
        /\ \A i \in JobIds : i # j => job'[i] = job[i]
    BY <1>1, <1>2, <1>4, <1>5
  <1>7. PICK its : its = asset'[a]
    OBVIOUS
  <1>8. asset[a] \in StoredAsset
    BY <1>2
  <1>9. /\ its \in StoredAsset /\ its.stored /\ its.result = asset[a].result
        /\ its.admitted = IF admitted THEN j ELSE asset[a].admitted
    <2>1. its = [asset[a] EXCEPT !.stored = TRUE, !.admitted = IF admitted THEN j ELSE asset[a].admitted]
      BY <1>1, <1>2, <1>7, <1>8 DEF StoredAsset
    <2>2. QED
      BY <1>3, <1>8, <2>1 DEF StoredAsset
  <1>10. /\ asset' \in [Assets -> StoredAsset] /\ asset'[a] = its
         /\ \A b \in Assets : b # a => asset'[b] = asset[b]
    <2>1. PICK entry : asset' = [asset EXCEPT ![a] = entry]
      BY <1>1
    <2>2. \A b \in Assets : b # a => asset'[b] = asset[b]
      BY <1>2, <2>1
    <2>3. entry = its
      BY <1>2, <1>7, <2>1
    <2>4. QED
      BY <1>2, <1>7, <1>9, <2>1, <2>2, <2>3
  <1>11. \A i \in JobIds : job[i].state # "none" => i < j
    <2>1. SUFFICES ASSUME NEW i \in JobIds, job[i].state # "none", ~(i < j) PROVE FALSE
      OBVIOUS
    <2>2. i # j /\ i \in Int
      BY <1>1, <1>3, <2>1
    <2>3. j \in 1..i - 1
      BY <1>3, <2>1, <2>2 DEF JobIds, AssetAssumption
    <2>4. QED
      BY <1>1, <1>2, <2>1, <2>3
  <1>12. JobsOf(a)' = JobsOf(a) \cup {j} /\ \A b \in Assets : b # a => JobsOf(b)' = JobsOf(b)
    BY <1>1, <1>5, <1>6 DEF JobsOf
  <1>13. ASSUME NEW b \in Assets PROVE AssetOK(b)'
    <2>1. AssetOK(b)
      BY <1>2 DEF JobsOK
    <2>2. ASSUME NEW i \in JobsOf(b) PROVE i \in JobIds /\ i \in Int /\ i < j /\ job'[i] = job[i]
      <3>1. i \in JobIds /\ job[i].state # "none"
        BY <2>2 DEF JobsOf
      <3>2. i \in Int /\ i < j /\ i # j
        BY <1>3, <1>11, <3>1
      <3>3. QED
        BY <1>6, <3>1, <3>2
    <2>3. CASE b # a
      <3>1. asset'[b] = asset[b] /\ JobsOf(b)' = JobsOf(b)
        BY <1>10, <1>12, <2>3
      <3>2. QED
        BY <2>1, <2>2, <3>1 DEF AssetOK
    <2>4. CASE b = a
      <3>1. its.result # 0 /\ MaxJobs > 0 => its.result \in JobsOf(a)' /\ job'[its.result].state = "completed"
        BY <1>9, <1>12, <2>1, <2>2, <2>4 DEF AssetOK
      <3>2. CASE admitted
        <4>1. its.admitted = j
          BY <1>9, <3>2
        <4>2. \A i \in JobsOf(a)' : i <= j
          BY <1>3, <1>12, <2>2, <2>4
        <4>3. QED
          BY <1>3, <1>9, <1>10, <2>4, <3>1, <4>1, <4>2 DEF AssetOK
      <3>3. CASE ~admitted
        <4>1. its.admitted = 0 /\ JobsOf(a) = {}
          BY <1>9, <2>1, <2>4, <3>3 DEF AssetOK
        <4>2. JobsOf(a)' = {j}
          BY <1>12, <4>1
        <4>3. QED
          BY <1>9, <1>10, <2>4, <3>1, <4>1, <4>2 DEF AssetOK
      <3>4. QED
        BY <3>2, <3>3
    <2>5. QED
      BY <2>3, <2>4
  <1>14. \A i \in JobIds : job'[i].state \in {"none", "queued", "retry_scheduled"} => job'[i].attempt <= MaxAttempts
    <2>1. 0 <= MaxAttempts
      BY DEF AssetAssumption
    <2>2. QED
      BY <1>2, <1>5, <1>6, <2>1 DEF JobsOK
  <1>15. \A i \in JobIds : job'[i].state # "none" => job'[i].asset \in Assets /\ \A k \in 1..i - 1 : job'[k].state # "none"
    <2>1. \A i \in JobIds : \A k \in 1..i - 1 : k \in JobIds
      BY DEF JobIds, AssetAssumption
    <2>2. ASSUME NEW i \in JobIds, job'[i].state # "none"
          PROVE  job'[i].asset \in Assets /\ \A k \in 1..i - 1 : job[k].state # "none"
      <3>1. CASE i = j
        BY <1>1, <1>5, <1>6, <3>1
      <3>2. CASE i # j
        BY <1>2, <1>6, <2>2, <3>2 DEF JobsOK
      <3>3. QED
        BY <3>1, <3>2
    <2>3. \A k \in JobIds : job[k].state # "none" => job'[k].state # "none"
      BY <1>5, <1>6
    <2>4. QED
      BY <2>1, <2>2, <2>3
  <1>16. JobsOK'
    BY <1>6, <1>10, <1>13, <1>14, <1>15 DEF JobsOK
  <1>17. \A b \in Assets : asset'[b].result = asset[b].result /\ (asset[b].stored => asset'[b].stored)
    BY <1>9, <1>10
  <1>18. ResultsFenced /\ NoneEnds
    BY <1>1, <1>5, <1>6, <1>17 DEF ResultsFenced, NoneEnds
  <1>19. QED
    BY <1>9, <1>10, <1>16, <1>17, <1>18

\* Where nothing is queued, what is attached is taken as processed.
LEMMA NoProcessing ==
  ASSUME AssetAssumption, AssetInv, ~(MaxJobs > 0), NEW a \in Assets, UNCHANGED job,
         asset' = [asset EXCEPT ![a].stored = TRUE, ![a].result = 1]
  PROVE  /\ JobsOK' /\ ResultsFenced /\ NoneEnds
         /\ asset'[a].stored /\ \A b \in Assets : asset[b].stored => asset'[b].stored
  <1>1. MaxJobs = 0 /\ JobIds = {}
    BY DEF AssetAssumption, JobIds
  <1>2. JobsOK /\ asset \in [Assets -> StoredAsset] /\ asset[a] \in StoredAsset
    BY DEF AssetInv, JobsOK
  <1>3. PICK its : its = [asset[a] EXCEPT !.stored = TRUE, !.result = 1]
    OBVIOUS
  <1>4. its \in StoredAsset /\ its.stored /\ its.admitted = asset[a].admitted
    <2>1. 1 \in 0..MaxJobs + 1
      BY <1>1
    <2>2. QED
      BY <1>2, <1>3, <2>1 DEF StoredAsset
  <1>5. /\ asset' \in [Assets -> StoredAsset] /\ asset'[a] = its
        /\ \A b \in Assets : b # a => asset'[b] = asset[b]
    BY <1>2, <1>3, <1>4
  <1>6. \A b \in Assets : JobsOf(b) = {} /\ JobsOf(b)' = {}
    BY <1>1 DEF JobsOf
  <1>7. ASSUME NEW b \in Assets PROVE AssetOK(b)'
    <2>1. AssetOK(b)
      BY <1>2 DEF JobsOK
    <2>2. CASE b = a
      BY <1>1, <1>4, <1>5, <1>6, <2>1, <2>2 DEF AssetOK
    <2>3. CASE b # a
      BY <1>1, <1>5, <1>6, <2>1, <2>3 DEF AssetOK
    <2>4. QED
      BY <2>2, <2>3
  <1>8. JobsOK'
    BY <1>1, <1>2, <1>5, <1>7 DEF JobsOK
  <1>9. ResultsFenced /\ NoneEnds
    BY <1>1 DEF ResultsFenced, NoneEnds
  <1>10. QED
    BY <1>4, <1>5, <1>8, <1>9

\* What a request that is under way asks for, and the Work it read.
LEMMA RequestRead ==
  ASSUME AssetInv, NEW c \in Clients, client[c].at # "idle"
  PROVE  /\ Requested(client[c].at, client[c].input)
         /\ client[c].work \in LibraryWorks /\ client[c].seen \in LibraryWork /\ client[c].seen.revision < MaxCommits
         /\ client[c].seen.revision = workRecord[client[c].work].revision => client[c].seen = workRecord[client[c].work]
  <1>1. PICK call : call = client[c]
    OBVIOUS
  <1>2. ServiceOK(call) /\ call # Away
    BY <1>1 DEF AssetInv, Away
  <1>3. PICK op, w, seen, input :
          /\ call = [at |-> op, work |-> w, seen |-> seen, input |-> input] /\ Requested(op, input)
          /\ w \in LibraryWorks /\ seen \in LibraryWork /\ seen.revision < MaxCommits /\ seen.revision <= workRecord[w].revision
          /\ seen.revision = workRecord[w].revision => seen = workRecord[w]
    BY <1>2 DEF ServiceOK
  <1>4. call.at = op /\ call.work = w /\ call.seen = seen /\ call.input = input
    BY <1>3
  <1>5. client[c].at = op /\ client[c].work = w /\ client[c].seen = seen /\ client[c].input = input
    BY <1>1, <1>4
  <1>6. Requested(client[c].at, client[c].input)
    BY <1>3, <1>5, Zenon
  <1>7. QED
    BY <1>3, <1>5, <1>6

\* The record of a Work after a commit that sets its primary asset.
Renewed(its, p) == [revision |-> its.revision + 1, status |-> its.status, primary |-> p, refs |-> its.refs]

LEMMA Successor ==
  ASSUME AssetAssumption, NEW its \in LibraryWork, its.revision < MaxCommits, NEW p \in Assets \cup {NoAsset}, NEW next,
         next = Renewed(its, p)
  PROVE  /\ next \in LibraryWork /\ its.revision < next.revision /\ next # its
         /\ next.primary = p /\ next.refs = its.refs
  <1>1. its.revision \in Int /\ its.revision + 1 \in 1..MaxCommits
    BY DEF LibraryWork, AssetAssumption
  <1>2. next.revision = its.revision + 1 /\ next.primary = p /\ next.refs = its.refs
    BY DEF Renewed
  <1>3. next \in LibraryWork
    BY <1>1 DEF LibraryWork, Renewed
  <1>4. its.revision < next.revision
    BY <1>1, <1>2
  <1>5. next # its
    <2>1. SUFFICES ASSUME next = its PROVE FALSE
      OBVIOUS
    <2>2. next.revision = its.revision
      BY <2>1
    <2>3. QED
      BY <1>1, <1>2, <2>2
  <1>6. QED
    BY <1>2, <1>3, <1>4, <1>5

\* A stored Work, its media and its primary one.
LEMMA StoredWork ==
  ASSUME AssetInv, NEW w \in LibraryWorks
  PROVE  /\ workRecord[w] \in LibraryWork /\ media[w] \in Seq(Assets) /\ lead[w] \in SUBSET Assets /\ Media(w) \subseteq Assets
         /\ Whole(workRecord[w], media[w], lead[w]) /\ \A a \in Media(w) : asset[a].stored
  <1>1. media[w] \in Seq(Assets) /\ workRecord[w] \in LibraryWork /\ lead[w] \in SUBSET Assets
    BY DEF AssetInv, LibraryOK
  <1>2. Media(w) \subseteq Assets
    BY <1>1, LenProperties DEF Media, ToSet
  <1>3. QED
    BY <1>1, <1>2 DEF AssetInv, LibraryOK

\* Media attached to whole media: the first is the primary one.
LEMMA WholeAttached ==
  ASSUME AssetAssumption, NEW w \in LibraryWorks, AssetInv, NEW a \in Assets, a \notin Media(w), NEW next, NEW leading,
         next.primary = First(w, a), next.refs = workRecord[w].refs,
         leading = lead[w] \cup (IF workRecord[w].primary = NoAsset THEN {a} ELSE {})
  PROVE  Whole(next, Append(media[w], a), leading) /\ leading \in SUBSET Assets
  <1>1. /\ media[w] \in Seq(Assets) /\ Whole(workRecord[w], media[w], lead[w]) /\ lead[w] \in SUBSET Assets
        /\ Media(w) \subseteq Assets
    BY StoredWork
  <1>2. PICK order : order = Append(media[w], a)
    OBVIOUS
  <1>3. order # <<>> /\ Distinct(order) /\ ToSet(order) = Media(w) \cup {a}
    BY <1>1, <1>2, AttachedLast DEF Whole, Media
  <1>4. next.primary \in ToSet(order) /\ leading = {next.primary}
    <2>1. CASE media[w] = <<>>
      <3>1. workRecord[w].primary = NoAsset /\ lead[w] = {}
        BY <1>1, <2>1 DEF Whole
      <3>2. QED
        BY <1>3, <3>1 DEF First
    <2>2. CASE media[w] # <<>>
      <3>1. workRecord[w].primary \in Media(w) /\ lead[w] = {workRecord[w].primary}
        BY <1>1, <2>2 DEF Whole, Media
      <3>2. workRecord[w].primary # NoAsset
        BY <1>1, <3>1 DEF AssetAssumption
      <3>3. QED
        BY <1>3, <3>1, <3>2 DEF First
    <2>3. QED
      BY <2>1, <2>2
  <1>5. next.refs \subseteq ToSet(order)
    BY <1>1, <1>3 DEF Whole, Media
  <1>6. QED
    BY <1>1, <1>2, <1>3, <1>4, <1>5 DEF Whole

\* New media.
LEMMA Attached ==
  ASSUME AssetAssumption, AssetInv, NEW c \in Clients, client[c].at = "attach", CommitAttach(c)
  PROVE  LibraryOK' /\ JobsOK' /\ WorksMove /\ ResultsFenced /\ NoneEnds
  <1>1. PICK w, a, seen : w = client[c].work /\ a = client[c].input.asset /\ seen = client[c].seen
    OBVIOUS
  <1>2. /\ w \in LibraryWorks /\ a \in Assets /\ seen.revision < MaxCommits
        /\ seen.revision = workRecord[w].revision => seen = workRecord[w]
    BY <1>1, RequestRead DEF Requested
  <1>3. PICK chosen : chosen = IF seen.primary = NoAsset THEN {a} ELSE {}
    OBVIOUS
  <1>4. /\ CommitsWork(c, ~asset[a].stored, [workRecord[w] EXCEPT !.primary = First(w, a)], Append(media[w], a), lead[w] \cup chosen)
        /\ IF ~Committed(w) THEN UNCHANGED <<asset, job>>
           ELSE IF MaxJobs > 0 THEN Enters(w, a, NoRequest, FALSE)
           ELSE asset' = [asset EXCEPT ![a].stored = TRUE, ![a].result = 1] /\ UNCHANGED job
    BY <1>1, <1>3 DEF CommitAttach
  <1>5. workRecord[w] \in LibraryWork /\ media[w] \in Seq(Assets) /\ \A b \in Media(w) : asset[b].stored
    BY <1>2, StoredWork
  <1>6. CASE ~asset[a].stored /\ workRecord[w].revision = seen.revision /\ workRecord[w].status # "deleted"
    <2>1. PICK next, order, leading : /\ next = [[workRecord[w] EXCEPT !.primary = First(w, a)] EXCEPT !.revision = workRecord[w].revision + 1]
                                      /\ order = Append(media[w], a) /\ leading = lead[w] \cup chosen
      OBVIOUS
    <2>2. /\ workRecord' = [workRecord EXCEPT ![w] = next] /\ media' = [media EXCEPT ![w] = order] /\ lead' = [lead EXCEPT ![w] = leading]
      BY <1>1, <1>4, <1>6, <2>1 DEF CommitsWork
    <2>3. First(w, a) \in Assets \cup {NoAsset}
      BY <1>2, <1>5 DEF First, LibraryWork
    <2>4. /\ next \in LibraryWork /\ workRecord[w].revision < next.revision /\ next # workRecord[w]
          /\ next.primary = First(w, a) /\ next.refs = workRecord[w].refs
      <3>1. workRecord[w] \in LibraryWork /\ workRecord[w].revision < MaxCommits
        BY <1>2, <1>5, <1>6
      <3>2. next = Renewed(workRecord[w], First(w, a))
        BY <2>1, <3>1 DEF Renewed, LibraryWork
      <3>3. QED
        BY <2>3, <3>1, <3>2, Successor
    <2>5. a \notin Media(w)
      BY <1>5, <1>6
    <2>6. Whole(next, order, leading) /\ leading \in SUBSET Assets
      <3>1. leading = lead[w] \cup (IF workRecord[w].primary = NoAsset THEN {a} ELSE {})
        BY <1>2, <1>3, <1>6, <2>1
      <3>2. Whole(next, Append(media[w], a), leading) /\ leading \in SUBSET Assets
        BY <1>2, <2>4, <2>5, <3>1, WholeAttached, ZenonT(40)
      <3>3. QED
        BY <2>1, <3>2
    <2>7. Committed(w)
      <3>1. workRecord'[w] = next
        BY <1>2, <2>2 DEF AssetInv, LibraryOK
      <3>2. QED
        BY <2>4, <3>1 DEF Committed
    <2>8. /\ JobsOK' /\ ResultsFenced /\ NoneEnds
          /\ asset'[a].stored /\ \A b \in Assets : asset[b].stored => asset'[b].stored
      <3>1. CASE MaxJobs > 0
        <4>1. Enters(w, a, NoRequest, FALSE)
          BY <1>4, <2>7, <3>1
        <4>2. NoRequest \in Regenerations \cup {NoRequest} /\ FALSE \in BOOLEAN
          OBVIOUS
        <4>3. QED
          BY <1>2, <1>6, <4>1, <4>2, JobEnters
      <3>2. CASE ~(MaxJobs > 0)
        BY <1>2, <1>4, <2>7, <3>2, NoProcessing
      <3>3. QED
        BY <3>1, <3>2
    <2>9. order \in Seq(Assets) /\ ToSet(order) = Media(w) \cup {a} /\ Media(w) \subseteq Assets
      <3>1. Distinct(media[w]) /\ Media(w) \subseteq Assets
        BY <1>2, StoredWork DEF Whole
      <3>2. QED
        BY <1>2, <1>5, <2>1, <2>5, <3>1, AttachedLast DEF Media
    <2>10. \A b \in ToSet(order) : asset'[b].stored
      BY <1>5, <2>8, <2>9
    <2>11. LibraryOK' /\ WorksMove
      BY <1>2, <2>2, <2>4, <2>6, <2>8, <2>9, <2>10, LibraryMoves
    <2>12. QED
      BY <2>8, <2>11
  <1>7. CASE ~(~asset[a].stored /\ workRecord[w].revision = seen.revision /\ workRecord[w].status # "deleted")
    <2>1. UNCHANGED library
      BY <1>1, <1>4, <1>7 DEF CommitsWork
    <2>2. UNCHANGED <<asset, job>>
      BY <1>4, <2>1 DEF library, Committed
    <2>3. QED
      BY <2>1, <2>2, JobsStand, LibraryStands
  <1>8. QED
    BY <1>6, <1>7

\* A commit of one Work and its media that leaves what is stored of the assets alone.
LEMMA MediaMove ==
  ASSUME AssetAssumption, AssetInv, NEW w \in LibraryWorks, NEW p \in Assets \cup {NoAsset}, NEW next,
         next = Renewed(workRecord[w], p), workRecord[w].revision < MaxCommits,
         NEW order \in Seq(Assets), NEW leading \in SUBSET Assets,
         workRecord' = [workRecord EXCEPT ![w] = next], media' = [media EXCEPT ![w] = order], lead' = [lead EXCEPT ![w] = leading],
         Distinct(order), workRecord[w].refs \subseteq ToSet(order),
         IF order = <<>> THEN p = NoAsset /\ leading = {} ELSE p \in ToSet(order) /\ leading = {p},
         \A a \in ToSet(order) : asset[a].stored, UNCHANGED asset
  PROVE  LibraryOK' /\ WorksMove /\ Committed(w)
  <1>1. workRecord[w] \in LibraryWork
    BY StoredWork
  <1>2. /\ next \in LibraryWork /\ workRecord[w].revision < next.revision
        /\ next.primary = p /\ next.refs = workRecord[w].refs
    BY <1>1, Successor
  <1>3. Whole(next, order, leading)
    BY <1>2 DEF Whole
  <1>4. (\A a \in Assets : asset[a].stored => asset'[a].stored) /\ \A a \in ToSet(order) : asset'[a].stored
    OBVIOUS
  <1>5. QED
    BY <1>2, <1>3, <1>4, LibraryMoves

\* Only what has media has any in order.
LEMMA NothingAttached ==
  ASSUME NEW S, NEW order \in Seq(S)
  PROVE  order = <<>> <=> ToSet(order) = {}
  <1>1. Len(order) \in Nat /\ DOMAIN order = 1..Len(order)
    BY LenProperties
  <1>2. ASSUME order = <<>> PROVE ToSet(order) = {}
    BY <1>2 DEF ToSet
  <1>3. ASSUME order # <<>> PROVE ToSet(order) # {}
    <2>1. Len(order) # 0
      BY <1>3, EmptySeq
    <2>2. 1 \in DOMAIN order
      BY <1>1, <2>1
    <2>3. QED
      BY <2>2 DEF ToSet
  <1>4. QED
    BY <1>2, <1>3

\* Media of another Work.
LEMMA AttachedAgain ==
  ASSUME AssetAssumption, AssetInv, NEW c \in Clients, client[c].at = "existing", CommitAttachExisting(c)
  PROVE  LibraryOK' /\ JobsOK' /\ WorksMove /\ ResultsFenced /\ NoneEnds
  <1>1. PICK w, a, v, seen : w = client[c].work /\ a = client[c].input.asset /\ v = client[c].input.source /\ seen = client[c].seen
    OBVIOUS
  <1>2. /\ w \in LibraryWorks /\ a \in Assets /\ v \in LibraryWorks /\ seen.revision < MaxCommits
        /\ seen.revision = workRecord[w].revision => seen = workRecord[w]
    BY <1>1, RequestRead DEF Requested
  <1>3. UNCHANGED <<asset, job>>
    BY DEF CommitAttachExisting
  <1>4. CommitsWork(c, /\ a \notin Media(w) /\ a \in Media(v) /\ asset[a].result # 0
                       /\ workRecord[w].status = "draft" /\ workRecord[v].status = "draft",
                    [workRecord[w] EXCEPT !.primary = First(w, a)], Append(media[w], a), lead[w] \cup ({a} \cap {First(w, a)}))
    BY <1>1 DEF CommitAttachExisting
  <1>5. /\ workRecord[w] \in LibraryWork /\ media[w] \in Seq(Assets) /\ \A b \in Media(w) : asset[b].stored
        /\ Whole(workRecord[w], media[w], lead[w])
    BY <1>2, StoredWork
  <1>6. CASE a \notin Media(w) /\ a \in Media(v) /\ workRecord[w].revision = seen.revision /\ ~UNCHANGED library
    <2>1. PICK next, order, leading : /\ next = Renewed(workRecord[w], First(w, a)) /\ order = Append(media[w], a)
                                      /\ leading = lead[w] \cup ({a} \cap {First(w, a)})
      OBVIOUS
    <2>2. workRecord' = [workRecord EXCEPT ![w] = next] /\ media' = [media EXCEPT ![w] = order] /\ lead' = [lead EXCEPT ![w] = leading]
      <3>1. PICK new : new = [[workRecord[w] EXCEPT !.primary = First(w, a)] EXCEPT !.revision = workRecord[w].revision + 1]
        OBVIOUS
      <3>2. new = next
        <4>1. workRecord[w] \in LibraryWork /\ next = Renewed(workRecord[w], First(w, a))
          BY <1>5, <2>1
        <4>2. new = Renewed(workRecord[w], First(w, a))
          BY <3>1, <4>1, ZenonT(40) DEF Renewed, LibraryWork
        <4>3. QED
          BY <4>1, <4>2
      <3>3. QED
        BY <1>1, <1>4, <1>6, <2>1, <3>1, <3>2, ZenonT(40) DEF CommitsWork
    <2>3. First(w, a) \in Assets \cup {NoAsset} /\ workRecord[w].revision < MaxCommits
      BY <1>2, <1>5, <1>6 DEF First, LibraryWork
    <2>4. leading = lead[w] \cup (IF workRecord[w].primary = NoAsset THEN {a} ELSE {})
      <3>1. workRecord[w].primary # NoAsset => workRecord[w].primary \in Media(w)
        BY <1>5 DEF Whole, Media
      <3>2. QED
        BY <1>6, <2>1, <3>1 DEF First
    <2>5. /\ next \in LibraryWork /\ next.primary = First(w, a) /\ next.refs = workRecord[w].refs
      BY <1>5, <2>1, <2>3, Successor
    <2>6. Whole(next, order, leading) /\ leading \in SUBSET Assets
      <3>1. Whole(next, Append(media[w], a), leading) /\ leading \in SUBSET Assets
        BY <1>2, <1>6, <2>4, <2>5, WholeAttached, ZenonT(40)
      <3>2. QED
        BY <2>1, <3>1
    <2>7. order \in Seq(Assets) /\ ToSet(order) = Media(w) \cup {a}
      BY <1>2, <1>5, <1>6, <2>1, AttachedLast DEF Media, Whole
    <2>8. asset[a].stored
      BY <1>2, <1>6, StoredWork
    <2>9. /\ Distinct(order) /\ workRecord[w].refs \subseteq ToSet(order) /\ \A b \in ToSet(order) : asset[b].stored
          /\ IF order = <<>> THEN First(w, a) = NoAsset /\ leading = {} ELSE First(w, a) \in ToSet(order) /\ leading = {First(w, a)}
      BY <1>5, <2>5, <2>6, <2>7, <2>8 DEF Whole
    <2>10. LibraryOK' /\ WorksMove
      BY <1>2, <1>3, <2>1, <2>2, <2>3, <2>6, <2>7, <2>9, MediaMove
    <2>11. QED
      BY <1>3, <2>10, JobsStand
  <1>7. CASE UNCHANGED library
    BY <1>3, <1>7, JobsStand, LibraryStands
  <1>8. QED
    BY <1>1, <1>4, <1>6, <1>7 DEF CommitsWork

\* Another primary one.
LEMMA PrimaryChosen ==
  ASSUME AssetAssumption, AssetInv, NEW c \in Clients, client[c].at = "primary", CommitPrimary(c)
  PROVE  LibraryOK' /\ JobsOK' /\ WorksMove /\ ResultsFenced /\ NoneEnds
  <1>1. PICK w, a, seen : w = client[c].work /\ a = client[c].input.asset /\ seen = client[c].seen
    OBVIOUS
  <1>2. /\ w \in LibraryWorks /\ a \in Assets /\ seen.revision < MaxCommits
        /\ seen.revision = workRecord[w].revision => seen = workRecord[w]
    BY <1>1, RequestRead DEF Requested
  <1>3. UNCHANGED <<asset, job>>
    BY DEF CommitPrimary
  <1>4. CommitsWork(c, a \in Media(w), [workRecord[w] EXCEPT !.primary = a], media[w], {a})
    BY <1>1 DEF CommitPrimary
  <1>5. /\ workRecord[w] \in LibraryWork /\ media[w] \in Seq(Assets) /\ \A b \in Media(w) : asset[b].stored
        /\ Whole(workRecord[w], media[w], lead[w])
    BY <1>2, StoredWork
  <1>6. CASE a \in Media(w) /\ workRecord[w].revision = seen.revision /\ ~UNCHANGED library
    <2>1. PICK next, order, leading : next = Renewed(workRecord[w], a) /\ order = media[w] /\ leading = {a}
      OBVIOUS
    <2>2. workRecord' = [workRecord EXCEPT ![w] = next] /\ media' = [media EXCEPT ![w] = order] /\ lead' = [lead EXCEPT ![w] = leading]
      <3>1. PICK new : new = [[workRecord[w] EXCEPT !.primary = a] EXCEPT !.revision = workRecord[w].revision + 1]
        OBVIOUS
      <3>2. new = next
        <4>1. workRecord[w] \in LibraryWork /\ next = Renewed(workRecord[w], a)
          BY <1>5, <2>1
        <4>2. new = Renewed(workRecord[w], a)
          BY <3>1, <4>1, ZenonT(40) DEF Renewed, LibraryWork
        <4>3. QED
          BY <4>1, <4>2
      <3>3. QED
        BY <1>1, <1>4, <1>6, <2>1, <3>1, <3>2, ZenonT(40) DEF CommitsWork
    <2>3. order # <<>>
      BY <1>5, <1>6, <2>1, NothingAttached DEF Media
    <2>4. /\ order \in Seq(Assets) /\ leading \in SUBSET Assets /\ workRecord[w].revision < MaxCommits
          /\ Distinct(order) /\ workRecord[w].refs \subseteq ToSet(order) /\ a \in ToSet(order) /\ \A b \in ToSet(order) : asset[b].stored
      BY <1>2, <1>5, <1>6, <2>1 DEF Whole, Media
    <2>5. LibraryOK' /\ WorksMove
      BY <1>2, <1>3, <2>1, <2>2, <2>3, <2>4, MediaMove
    <2>6. QED
      BY <1>3, <2>5, JobsStand
  <1>7. CASE UNCHANGED library
    BY <1>3, <1>7, JobsStand, LibraryStands
  <1>8. QED
    BY <1>1, <1>4, <1>6, <1>7 DEF CommitsWork

\* Media that leave, and their jobs.
LEMMA Detached ==
  ASSUME AssetAssumption, AssetInv, NEW c \in Clients, client[c].at = "detach", CommitDetach(c)
  PROVE  LibraryOK' /\ JobsOK' /\ WorksMove /\ ResultsFenced /\ NoneEnds
  <1>1. PICK w, a, seen : w = client[c].work /\ a = client[c].input.asset /\ seen = client[c].seen
    OBVIOUS
  <1>2. /\ w \in LibraryWorks /\ a \in Assets /\ seen.revision < MaxCommits
        /\ seen.revision = workRecord[w].revision => seen = workRecord[w]
    BY <1>1, RequestRead DEF Requested
  <1>3. /\ CommitsWork(c, a \in Media(w) /\ a \notin workRecord[w].refs, [workRecord[w] EXCEPT !.primary = Left(w, a)],
                       Without(media[w], a), {Left(w, a)} \ {NoAsset})
        /\ job' = [j \in JobIds |-> IF Committed(w) /\ job[j].state \in Active /\ job[j].work = w /\ job[j].asset = a
                                      THEN [job[j] EXCEPT !.state = "cancelled"] ELSE job[j]]
        /\ UNCHANGED asset
    BY <1>1 DEF CommitDetach
  <1>4. JobsOK' /\ ResultsFenced /\ NoneEnds
    <2>1. JobsOK /\ job \in [JobIds -> AssetJob]
      BY DEF AssetInv, JobsOK
    <2>2. ASSUME NEW j \in JobIds
          PROVE  /\ job'[j] \in AssetJob /\ job'[j].asset = job[j].asset /\ job'[j].attempt = job[j].attempt
                 /\ job'[j].state = job[j].state \/ (job[j].state \in Active /\ job'[j].state = "cancelled")
      <3>1. PICK its : its = job[j]
        OBVIOUS
      <3>2. its \in AssetJob
        BY <2>1, <3>1
      <3>3. job'[j] = its \/ (its.state \in Active /\ job'[j] = [its EXCEPT !.state = "cancelled"])
        BY <1>3, <3>1
      <3>4. QED
        BY <3>1, <3>2, <3>3 DEF AssetJob
    <2>3. job' = [j \in JobIds |-> job'[j]]
      BY <1>3
    <2>4. job' \in [JobIds -> AssetJob]
      BY <2>2, <2>3
    <2>5. \A j \in JobIds : job[j].state \in {"none", "queued", "retry_scheduled"} => job[j].attempt <= MaxAttempts
      BY <2>1 DEF JobsOK
    <2>6. \A j \in JobIds : /\ job'[j].asset = job[j].asset /\ (job'[j].state = "none" <=> job[j].state = "none")
                            /\ job[j].state = "completed" => job'[j].state = "completed"
                            /\ job'[j].state = "completed" => job[j].state = "completed"
                            /\ job'[j].state \in {"none", "queued", "retry_scheduled"} => job'[j].attempt <= MaxAttempts
      BY <2>2, <2>5 DEF Active
    <2>7. QED
      BY <1>3, <2>4, <2>6, JobsTurn DEF NoneEnds
  <1>5. /\ workRecord[w] \in LibraryWork /\ media[w] \in Seq(Assets) /\ Media(w) \subseteq Assets /\ \A b \in Media(w) : asset[b].stored
        /\ Whole(workRecord[w], media[w], lead[w])
    BY <1>2, StoredWork
  <1>6. CASE a \in Media(w) /\ a \notin workRecord[w].refs /\ workRecord[w].revision = seen.revision /\ ~UNCHANGED library
    <2>1. PICK next, order, leading, p : /\ next = Renewed(workRecord[w], p) /\ order = Without(media[w], a) /\ p = Left(w, a)
                                         /\ leading = {p} \ {NoAsset}
      OBVIOUS
    <2>2. workRecord' = [workRecord EXCEPT ![w] = next] /\ media' = [media EXCEPT ![w] = order] /\ lead' = [lead EXCEPT ![w] = leading]
      <3>1. PICK new : new = [[workRecord[w] EXCEPT !.primary = Left(w, a)] EXCEPT !.revision = workRecord[w].revision + 1]
        OBVIOUS
      <3>2. new = next
        <4>1. workRecord[w] \in LibraryWork /\ next = Renewed(workRecord[w], p)
          BY <1>5, <2>1
        <4>2. new = [[workRecord[w] EXCEPT !.primary = p] EXCEPT !.revision = workRecord[w].revision + 1]
          BY <2>1, <3>1
        <4>3. new = Renewed(workRecord[w], p)
          BY <4>1, <4>2, ZenonT(40) DEF Renewed, LibraryWork
        <4>4. QED
          BY <4>1, <4>3
      <3>3. QED
        BY <1>1, <1>3, <1>6, <2>1, <3>1, <3>2, ZenonT(40) DEF CommitsWork
    <2>3. order \in Seq(Assets) /\ Distinct(order) /\ ToSet(order) = Media(w) \ {a}
      <3>1. Distinct(media[w]) /\ a \in ToSet(media[w])
        BY <1>5, <1>6 DEF Whole, Media
      <3>2. QED
        BY <1>5, <2>1, <3>1, LeftOut DEF Media
    <2>4. order = <<>> \/ order[1] \in ToSet(order)
      <3>1. Len(order) \in Nat /\ DOMAIN order = 1..Len(order) /\ (order # <<>> => Len(order) # 0)
        BY <2>3, LenProperties, EmptySeq
      <3>2. QED
        BY <3>1 DEF ToSet
    <2>5. p = IF workRecord[w].primary \in ToSet(order) THEN workRecord[w].primary ELSE IF order = <<>> THEN NoAsset ELSE order[1]
      BY <2>1 DEF Left
    <2>6. /\ p \in Assets \cup {NoAsset}
          /\ IF order = <<>> THEN p = NoAsset /\ leading = {} ELSE p \in ToSet(order) /\ leading = {p}
      <3>1. CASE order = <<>>
        <4>1. ToSet(order) = {}
          BY <2>3, <3>1, NothingAttached
        <4>2. QED
          BY <2>1, <2>5, <3>1, <4>1
      <3>2. CASE order # <<>>
        <4>1. p \in ToSet(order)
          BY <2>4, <2>5, <3>2
        <4>2. p \in Assets /\ p # NoAsset
          BY <1>5, <2>3, <4>1 DEF AssetAssumption
        <4>3. QED
          BY <2>1, <3>2, <4>1, <4>2
      <3>3. QED
        BY <3>1, <3>2
    <2>7. /\ workRecord[w].refs \subseteq ToSet(order) /\ workRecord[w].revision < MaxCommits
          /\ \A b \in ToSet(order) : asset[b].stored
      BY <1>2, <1>5, <1>6, <2>3 DEF Whole, Media
    <2>8. leading \in SUBSET Assets
      BY <2>1, <2>6
    <2>9. LibraryOK' /\ WorksMove
      BY <1>2, <1>3, <2>1, <2>2, <2>3, <2>6, <2>7, <2>8, MediaMove
    <2>10. QED
      BY <1>4, <2>9
  <1>7. CASE UNCHANGED library
    BY <1>3, <1>4, <1>7, LibraryStands
  <1>8. QED
    BY <1>1, <1>3, <1>6, <1>7 DEF CommitsWork

\* Another order of the same media.
LEMMA Ordered ==
  ASSUME AssetAssumption, AssetInv, NEW c \in Clients, client[c].at = "order", CommitOrder(c)
  PROVE  LibraryOK' /\ JobsOK' /\ WorksMove /\ ResultsFenced /\ NoneEnds
  <1>1. PICK w, order, seen : w = client[c].work /\ order = client[c].input.order /\ seen = client[c].seen
    OBVIOUS
  <1>2. /\ w \in LibraryWorks /\ order \in Seq(Assets) /\ Distinct(order) /\ seen.revision < MaxCommits
        /\ seen.revision = workRecord[w].revision => seen = workRecord[w]
    BY <1>1, RequestRead DEF Requested
  <1>3. UNCHANGED <<asset, job>>
    BY DEF CommitOrder
  <1>4. CommitsWork(c, ToSet(order) = Media(w), workRecord[w], order, lead[w])
    BY <1>1 DEF CommitOrder
  <1>5. /\ workRecord[w] \in LibraryWork /\ media[w] \in Seq(Assets) /\ \A b \in Media(w) : asset[b].stored
        /\ Whole(workRecord[w], media[w], lead[w]) /\ lead[w] \in SUBSET Assets
    BY <1>2, StoredWork
  <1>6. CASE ToSet(order) = Media(w) /\ workRecord[w].revision = seen.revision /\ ~UNCHANGED library
    <2>1. PICK next, leading, p : next = Renewed(workRecord[w], p) /\ leading = lead[w] /\ p = workRecord[w].primary
      OBVIOUS
    <2>2. workRecord' = [workRecord EXCEPT ![w] = next] /\ media' = [media EXCEPT ![w] = order] /\ lead' = [lead EXCEPT ![w] = leading]
      <3>1. PICK new : new = [workRecord[w] EXCEPT !.revision = workRecord[w].revision + 1]
        OBVIOUS
      <3>2. new = next
        <4>1. workRecord[w] \in LibraryWork /\ next = Renewed(workRecord[w], workRecord[w].primary)
          BY <1>5, <2>1
        <4>2. new = Renewed(workRecord[w], workRecord[w].primary)
          BY <3>1, <4>1, ZenonT(40) DEF Renewed, LibraryWork
        <4>3. QED
          BY <4>1, <4>2
      <3>3. QED
        BY <1>1, <1>4, <1>6, <2>1, <3>1, <3>2, ZenonT(40) DEF CommitsWork
    <2>3. order = <<>> <=> media[w] = <<>>
      BY <1>2, <1>5, <1>6, NothingAttached DEF Media
    <2>4. /\ p \in Assets \cup {NoAsset} /\ leading \in SUBSET Assets /\ workRecord[w].revision < MaxCommits
          /\ workRecord[w].refs \subseteq ToSet(order) /\ \A b \in ToSet(order) : asset[b].stored
          /\ IF order = <<>> THEN p = NoAsset /\ leading = {} ELSE p \in ToSet(order) /\ leading = {p}
      BY <1>2, <1>5, <1>6, <2>1, <2>3 DEF Whole, Media, LibraryWork
    <2>5. LibraryOK' /\ WorksMove
      BY <1>2, <1>3, <2>1, <2>2, <2>4, MediaMove
    <2>6. QED
      BY <1>3, <2>5, JobsStand
  <1>7. CASE UNCHANGED library
    BY <1>3, <1>7, JobsStand, LibraryStands
  <1>8. QED
    BY <1>1, <1>4, <1>6, <1>7 DEF CommitsWork

\* Another job for media that are attached.
LEMMA Regenerated ==
  ASSUME AssetAssumption, AssetInv, NEW c \in Clients, client[c].at = "regenerate", CommitRegenerate(c)
  PROVE  LibraryOK' /\ JobsOK' /\ WorksMove /\ ResultsFenced /\ NoneEnds
  <1>1. PICK w, a, request : w = client[c].work /\ a = client[c].input.asset /\ request = client[c].input.request
    OBVIOUS
  <1>2. w \in LibraryWorks /\ a \in Assets /\ request \in Regenerations
    BY <1>1, RequestRead DEF Requested
  <1>3. UNCHANGED library /\ (Enters(w, a, request, TRUE) \/ UNCHANGED <<asset, job>>)
    BY <1>1 DEF CommitRegenerate
  <1>4. CASE Enters(w, a, request, TRUE)
    <2>1. request \in Regenerations \cup {NoRequest} /\ TRUE \in BOOLEAN
      BY <1>2
    <2>2. JobsOK' /\ ResultsFenced /\ NoneEnds /\ \A b \in Assets : asset[b].stored => asset'[b].stored
      BY <1>2, <1>4, <2>1, JobEnters
    <2>3. QED
      BY <1>3, <2>2, LibraryStands
  <1>5. CASE UNCHANGED <<asset, job>>
    BY <1>3, <1>5, JobsStand, LibraryStands
  <1>6. QED
    BY <1>3, <1>4, <1>5

\* The content and the status of a Work.
LEMMA WorkRevised ==
  ASSUME AssetAssumption, AssetInv, NEW c \in Clients, client[c].at = "revise", CommitRevise(c)
  PROVE  LibraryOK' /\ JobsOK' /\ WorksMove /\ ResultsFenced /\ NoneEnds
  <1>1. PICK w, refs, status, seen : w = client[c].work /\ refs = client[c].input.refs /\ status = client[c].input.status /\ seen = client[c].seen
    OBVIOUS
  <1>2. /\ w \in LibraryWorks /\ refs \in SUBSET Assets /\ status \in {"draft", "archived", "deleted"}
        /\ seen.revision < MaxCommits /\ seen \in LibraryWork
        /\ seen.revision = workRecord[w].revision => seen = workRecord[w]
    BY <1>1, RequestRead DEF Requested
  <1>3. UNCHANGED <<media, lead, asset, job>>
    BY DEF CommitRevise
  <1>4. CASE workRecord[w].revision = seen.revision /\ Refers(w, refs)
    <2>1. PICK next : next = [seen EXCEPT !.revision = seen.revision + 1, !.refs = refs, !.status = status]
      OBVIOUS
    <2>2. workRecord' = [workRecord EXCEPT ![w] = next]
      BY <1>1, <1>4, <2>1 DEF CommitRevise
    <2>3. seen.revision \in Int /\ seen.revision + 1 \in 1..MaxCommits
      BY <1>2 DEF LibraryWork, AssetAssumption
    <2>4. /\ next \in LibraryWork /\ next.revision = seen.revision + 1 /\ next.refs = refs /\ next.primary = seen.primary
      BY <1>2, <2>1, <2>3 DEF LibraryWork
    <2>5. PICK order, leading : order = media[w] /\ leading = lead[w]
      OBVIOUS
    <2>6. /\ order \in Seq(Assets) /\ leading \in SUBSET Assets /\ Whole(workRecord[w], order, leading)
          /\ \A a \in ToSet(order) : asset[a].stored
      BY <1>2, <2>5, StoredWork DEF Media
    <2>7. Whole(next, order, leading)
      BY <1>2, <1>4, <2>4, <2>5, <2>6 DEF Whole, Refers, Media
    <2>8. media' = [media EXCEPT ![w] = order] /\ lead' = [lead EXCEPT ![w] = leading]
      BY <1>2, <1>3, <2>5 DEF AssetInv, LibraryOK
    <2>9. workRecord[w].revision < next.revision
      BY <1>4, <2>3, <2>4
    <2>10. (\A a \in Assets : asset[a].stored => asset'[a].stored) /\ \A a \in ToSet(order) : asset'[a].stored
      BY <1>3, <2>6
    <2>11. LibraryOK' /\ WorksMove
      BY <1>2, <2>2, <2>4, <2>6, <2>7, <2>8, <2>9, <2>10, LibraryMoves
    <2>12. QED
      BY <1>3, <2>11, JobsStand
  <1>5. CASE ~(workRecord[w].revision = seen.revision /\ Refers(w, refs))
    <2>1. UNCHANGED library
      BY <1>1, <1>3, <1>5 DEF CommitRevise, library
    <2>2. QED
      BY <1>3, <2>1, JobsStand, LibraryStands
  <1>6. QED
    BY <1>4, <1>5

\* A service reads a Work.
LEMMA Asked ==
  ASSUME AssetAssumption, AssetInv, NEW c \in Clients, NEW w \in LibraryWorks, NEW op, NEW input, Requested(op, input),
         Reads(c, w, op, input)
  PROVE  AssetInv' /\ ResultsFenced /\ NoneEnds
  <1>1. /\ workRecord[w].revision < MaxCommits
        /\ client' = [client EXCEPT ![c] = [at |-> op, work |-> w, seen |-> workRecord[w], input |-> input]]
        /\ UNCHANGED library /\ UNCHANGED <<asset, job>> /\ UNCHANGED worker
    BY DEF Reads
  <1>2. LibraryOK' /\ WorksMove /\ JobsOK' /\ ResultsFenced /\ NoneEnds
    BY <1>1, JobsStand, LibraryStands
  <1>3. PICK call, seen : call = [at |-> op, work |-> w, seen |-> workRecord[w], input |-> input] /\ seen = workRecord[w]
    OBVIOUS
  <1>4. workRecord' = workRecord /\ seen \in LibraryWork /\ seen.revision \in Int /\ seen.revision < MaxCommits
    BY <1>1, <1>3, StoredWork DEF library, LibraryWork
  <1>5. ServiceOK(call)'
    <2>1. /\ call = [at |-> op, work |-> w, seen |-> seen, input |-> input] /\ Requested(op, input)
          /\ w \in LibraryWorks /\ seen \in LibraryWork /\ seen.revision < MaxCommits /\ seen.revision <= workRecord'[w].revision
          /\ seen.revision = workRecord'[w].revision => seen = workRecord'[w]
      BY <1>3, <1>4
    <2>2. QED
      BY <2>1, ZenonT(40) DEF ServiceOK
  <1>6. QED
    BY <1>1, <1>2, <1>3, <1>5, ServiceTurns

\* A request is committed or refused, and its service is done.
LEMMA RequestDone ==
  ASSUME AssetAssumption, AssetInv, NEW c \in Clients, CommitRequest(c)
  PROVE  AssetInv' /\ ResultsFenced /\ NoneEnds
  <1>1. LibraryOK' /\ JobsOK' /\ WorksMove /\ ResultsFenced /\ NoneEnds
    BY Attached, AttachedAgain, PrimaryChosen, Detached, Ordered, Regenerated, WorkRevised DEF CommitRequest
  <1>2. client' = [client EXCEPT ![c] = Away] /\ UNCHANGED worker
    BY DEF CommitRequest
  <1>3. PICK call : call = Away
    OBVIOUS
  <1>4. ServiceOK(call)'
    BY <1>3 DEF ServiceOK, Away
  <1>5. QED
    BY <1>1, <1>2, <1>3, <1>4, ServiceTurns

\* What a service asks for is well formed; the order of media names each of them once.
LEMMA AskingStep ==
  ASSUME AssetAssumption, AssetInv, NEW c \in Clients, NEW w \in LibraryWorks,
         \/ \E a \in Assets : \/ AskAttach(c, w, a) \/ AskPrimary(c, w, a) \/ AskDetach(c, w, a)
                              \/ \E source \in LibraryWorks \ {w} : AskAttachExisting(c, w, source, a)
                              \/ \E request \in Regenerations : AskRegenerate(c, w, a, request)
         \/ \E order \in SetToSeqs(Media(w)) : AskOrder(c, w, order)
         \/ \E refs \in SUBSET Assets, status \in {"draft", "archived", "deleted"} : AskRevise(c, w, refs, status)
  PROVE  AssetInv' /\ ResultsFenced /\ NoneEnds
  <1>1. ASSUME NEW a \in Assets, AskAttach(c, w, a) PROVE AssetInv' /\ ResultsFenced /\ NoneEnds
    <2>1. Requested("attach", [asset |-> a])
      BY DEF Requested
    <2>2. QED
      BY <1>1, <2>1, Asked DEF AskAttach
  <1>2. ASSUME NEW a \in Assets, AskPrimary(c, w, a) PROVE AssetInv' /\ ResultsFenced /\ NoneEnds
    <2>1. Requested("primary", [asset |-> a])
      BY DEF Requested
    <2>2. QED
      BY <1>2, <2>1, Asked DEF AskPrimary
  <1>3. ASSUME NEW a \in Assets, AskDetach(c, w, a) PROVE AssetInv' /\ ResultsFenced /\ NoneEnds
    <2>1. Requested("detach", [asset |-> a])
      BY DEF Requested
    <2>2. QED
      BY <1>3, <2>1, Asked DEF AskDetach
  <1>4. ASSUME NEW a \in Assets, NEW source \in LibraryWorks, AskAttachExisting(c, w, source, a)
        PROVE  AssetInv' /\ ResultsFenced /\ NoneEnds
    <2>1. Requested("existing", [asset |-> a, source |-> source])
      BY <1>4 DEF Requested
    <2>2. QED
      BY <1>4, <2>1, Asked DEF AskAttachExisting
  <1>5. ASSUME NEW a \in Assets, NEW request \in Regenerations, AskRegenerate(c, w, a, request)
        PROVE  AssetInv' /\ ResultsFenced /\ NoneEnds
    <2>1. Requested("regenerate", [asset |-> a, request |-> request])
      BY <1>5 DEF Requested
    <2>2. QED
      BY <1>5, <2>1, Asked DEF AskRegenerate
  <1>6. ASSUME NEW order \in SetToSeqs(Media(w)), AskOrder(c, w, order) PROVE AssetInv' /\ ResultsFenced /\ NoneEnds
    <2>1. media[w] \in Seq(Assets) /\ Distinct(media[w]) /\ Media(w) \subseteq Assets /\ Len(media[w]) \in Nat
      BY StoredWork, LenProperties DEF Whole
    <2>2. PICK n : n = Cardinality(Media(w)) /\ n \in Nat
      BY <2>1, DistinctLength DEF Media
    <2>3. /\ order \in [1..n -> Assets]
          /\ \A i, j \in 1..n : order[i] = order[j] => i = j
      BY <1>6, <2>1, <2>2 DEF SetToSeqs
    <2>4. order \in Seq(Assets) /\ Len(order) = n
      BY <2>2, <2>3, SeqDef, LenProperties
    <2>5. Distinct(order)
      BY <2>3, <2>4 DEF Distinct
    <2>6. Requested("order", [order |-> order])
      BY <2>4, <2>5 DEF Requested
    <2>7. QED
      BY <1>6, <2>6, Asked DEF AskOrder
  <1>7. ASSUME NEW refs \in SUBSET Assets, NEW status \in {"draft", "archived", "deleted"}, AskRevise(c, w, refs, status)
        PROVE  AssetInv' /\ ResultsFenced /\ NoneEnds
    <2>1. Requested("revise", [refs |-> refs, status |-> status])
      BY <1>7 DEF Requested
    <2>2. QED
      BY <1>7, <2>1, Asked DEF AskRevise
  <1>8. QED
    BY <1>1, <1>2, <1>3, <1>4, <1>5, <1>6, <1>7

\* The worker's steps on a job: what they make of its state and its attempts.
LEMMA JobGoesOn ==
  ASSUME AssetAssumption, AssetInv, UNCHANGED <<library, asset, client>>, worker' = [k \in Workers |-> worker'[k]],
         \A k \in Workers : ProcessorOK(worker'[k]),
         NEW j \in JobIds, job[j].state # "none", job[j].state # "completed", NEW state, NEW attempt \in 0..(MaxAttempts + 1),
         job' = [job EXCEPT ![j].state = state, ![j].attempt = attempt],
         state \in {"queued", "leased", "lapsed", "retry_scheduled", "dead_lettered"},
         state \in {"queued", "retry_scheduled"} => attempt <= MaxAttempts
  PROVE  AssetInv' /\ ResultsFenced /\ NoneEnds
  <1>1. JobsOK /\ job \in [JobIds -> AssetJob]
    BY DEF AssetInv, JobsOK
  <1>2. PICK its, new : its = job[j] /\ new = [[its EXCEPT !.state = state] EXCEPT !.attempt = attempt]
    OBVIOUS
  <1>3. /\ new \in AssetJob /\ new.state = state /\ new.attempt = attempt /\ new.asset = its.asset
    <2>1. its \in AssetJob
      BY <1>1, <1>2
    <2>2. new = [state |-> state, work |-> its.work, asset |-> its.asset, key |-> its.key, attempt |-> attempt]
      BY <1>2, <2>1, ZenonT(40) DEF AssetJob
    <2>3. QED
      BY <2>1, <2>2 DEF AssetJob
  <1>4. job' = [job EXCEPT ![j] = new]
    BY <1>1, <1>2
  <1>5. job' \in [JobIds -> AssetJob] /\ job'[j] = new /\ \A i \in JobIds : i # j => job'[i] = job[i]
    BY <1>1, <1>3, <1>4
  <1>6. \A i \in JobIds : job[i].state \in {"none", "queued", "retry_scheduled"} => job[i].attempt <= MaxAttempts
    BY <1>1 DEF JobsOK
  <1>7. \A i \in JobIds : /\ job'[i].asset = job[i].asset /\ (job'[i].state = "none" <=> job[i].state = "none")
                          /\ job[i].state = "completed" => job'[i].state = "completed"
                          /\ job'[i].state = "completed" => job[i].state = "completed"
                          /\ job'[i].state \in {"none", "queued", "retry_scheduled"} => job'[i].attempt <= MaxAttempts
    BY <1>2, <1>3, <1>5, <1>6
  <1>8. JobsOK' /\ ResultsFenced
    BY <1>5, <1>7, JobsTurn
  <1>9. LibraryOK' /\ WorksMove
    BY LibraryStands
  <1>10. AssetInv'
    BY <1>8, <1>9, ProcessorTurns
  <1>11. QED
    BY <1>7, <1>8, <1>10 DEF NoneEnds

\* Workers do something, and no job does.
LEMMA JobsWait ==
  ASSUME AssetAssumption, AssetInv, UNCHANGED <<library, asset, job, client>>, worker' = [k \in Workers |-> worker'[k]],
         \A k \in Workers : ProcessorOK(worker'[k])
  PROVE  AssetInv' /\ ResultsFenced /\ NoneEnds
  <1>1. JobsOK' /\ ResultsFenced /\ NoneEnds
    BY JobsStand
  <1>2. LibraryOK' /\ WorksMove
    BY LibraryStands
  <1>3. QED
    BY <1>1, <1>2, ProcessorTurns

\* One worker goes on.
LEMMA WorkerTurns ==
  ASSUME AssetInv, NEW k \in Workers, NEW its, worker' = [worker EXCEPT ![k] = its], ProcessorOK(its)
  PROVE  /\ worker' = [l \in Workers |-> worker'[l]] /\ worker'[k] = its
         /\ \A l \in Workers : ProcessorOK(worker'[l])
  <1>1. worker = [l \in Workers |-> worker[l]] /\ \A l \in Workers : ProcessorOK(worker[l])
    BY DEF AssetInv
  <1>2. worker' = [l \in Workers |-> worker'[l]] /\ \A l \in Workers : worker'[l] = IF l = k THEN its ELSE worker[l]
    BY <1>1
  <1>3. QED
    BY <1>1, <1>2

\* A job and a worker as they are.
LEMMA StoredJob ==
  ASSUME AssetAssumption, AssetInv, NEW j \in JobIds
  PROVE  /\ job \in [JobIds -> AssetJob] /\ job[j] \in AssetJob /\ job[j].attempt \in 0..(MaxAttempts + 1)
         /\ job[j].state \in {"none", "queued", "retry_scheduled"} => job[j].attempt <= MaxAttempts
  BY DEF AssetInv, JobsOK, AssetJob

LEMMA BusyWorker ==
  ASSUME AssetInv, NEW k \in Workers, worker[k].at # "idle"
  PROVE  /\ worker[k].job \in JobIds /\ worker[k].token \in 1..MaxAttempts + 1
         /\ worker[k] \in [at : {"process", "failed"}, job : JobIds, token : 1..MaxAttempts + 1]
         /\ worker[k] # Away
  <1>1. ProcessorOK(worker[k])
    BY DEF AssetInv
  <1>2. worker[k] # Away
    BY DEF Away
  <1>3. QED
    BY <1>1, <1>2 DEF ProcessorOK

LEMMA Leased ==
  ASSUME AssetAssumption, AssetInv, NEW k \in Workers, NEW j \in JobIds, LeaseJob(k, j)
  PROVE  AssetInv' /\ ResultsFenced /\ NoneEnds
  <1>1. PICK attempt : attempt = job[j].attempt
    OBVIOUS
  <1>2. /\ job \in [JobIds -> AssetJob] /\ attempt \in 0..(MaxAttempts + 1)
        /\ job[j].state \in {"none", "queued", "retry_scheduled"} => attempt <= MaxAttempts
    BY <1>1, StoredJob
  <1>3. job[j].state \in {"queued", "retry_scheduled", "lapsed"}
    BY DEF LeaseJob, Leasable
  <1>4. UNCHANGED <<library, asset, client>>
    BY DEF LeaseJob
  <1>5. CASE job[j].state = "lapsed" /\ job[j].attempt >= MaxAttempts
    <2>1. job' = [job EXCEPT ![j].state = "dead_lettered"] /\ UNCHANGED worker
      BY <1>5 DEF LeaseJob
    <2>2. job' = [job EXCEPT ![j].state = "dead_lettered", ![j].attempt = attempt]
      BY <1>1, <1>2, <2>1 DEF AssetJob
    <2>3. worker' = [l \in Workers |-> worker'[l]] /\ \A l \in Workers : ProcessorOK(worker'[l])
      BY <2>1 DEF AssetInv
    <2>4. PICK state : state = "dead_lettered"
      OBVIOUS
    <2>5. /\ job[j].state # "none" /\ job[j].state # "completed"
          /\ job' = [job EXCEPT ![j].state = state, ![j].attempt = attempt]
          /\ state \in {"queued", "leased", "lapsed", "retry_scheduled", "dead_lettered"}
          /\ state \in {"queued", "retry_scheduled"} => attempt <= MaxAttempts
      BY <1>3, <2>2, <2>4
    <2>6. QED
      BY <1>2, <1>4, <2>3, <2>5, JobGoesOn
  <1>6. CASE ~(job[j].state = "lapsed" /\ job[j].attempt >= MaxAttempts)
    <2>1. PICK its : its = [at |-> "process", job |-> j, token |-> attempt + 1]
      OBVIOUS
    <2>2. /\ job' = [job EXCEPT ![j].state = "leased", ![j].attempt = attempt + 1]
          /\ worker' = [worker EXCEPT ![k] = its]
      BY <1>1, <1>6, <2>1 DEF LeaseJob
    <2>3. attempt + 1 \in 0..(MaxAttempts + 1) /\ attempt + 1 \in 1..MaxAttempts + 1
      BY <1>1, <1>2, <1>3, <1>6 DEF AssetAssumption
    <2>4. ProcessorOK(its)
      BY <2>1, <2>3 DEF ProcessorOK
    <2>5. worker' = [l \in Workers |-> worker'[l]] /\ \A l \in Workers : ProcessorOK(worker'[l])
      BY <2>2, <2>4, WorkerTurns
    <2>6. PICK state, next : state = "leased" /\ next = attempt + 1
      OBVIOUS
    <2>7. /\ job[j].state # "none" /\ job[j].state # "completed" /\ next \in 0..(MaxAttempts + 1)
          /\ job' = [job EXCEPT ![j].state = state, ![j].attempt = next]
          /\ state \in {"queued", "leased", "lapsed", "retry_scheduled", "dead_lettered"}
          /\ state \in {"queued", "retry_scheduled"} => next <= MaxAttempts
      BY <1>3, <2>2, <2>3, <2>6
    <2>8. QED
      BY <1>4, <2>5, <2>7, JobGoesOn
  <1>7. QED
    BY <1>5, <1>6

LEMMA Lapsed ==
  ASSUME AssetAssumption, AssetInv, NEW j \in JobIds, LeaseLapses(j) \/ RecoverJob(j)
  PROVE  AssetInv' /\ ResultsFenced /\ NoneEnds
  <1>1. PICK attempt : attempt = job[j].attempt
    OBVIOUS
  <1>2. job \in [JobIds -> AssetJob] /\ attempt \in 0..(MaxAttempts + 1)
    BY <1>1, StoredJob
  <1>3. UNCHANGED <<library, asset, client, worker>>
    BY DEF LeaseLapses, RecoverJob
  <1>4. worker' = [l \in Workers |-> worker'[l]] /\ \A l \in Workers : ProcessorOK(worker'[l])
    BY <1>3 DEF AssetInv
  <1>5. CASE LeaseLapses(j)
    <2>1. job[j].state = "leased" /\ job' = [job EXCEPT ![j].state = "lapsed"]
      BY <1>5 DEF LeaseLapses
    <2>2. PICK state : state = "lapsed"
      OBVIOUS
    <2>3. /\ job[j].state # "none" /\ job[j].state # "completed"
          /\ job' = [job EXCEPT ![j].state = state, ![j].attempt = attempt]
          /\ state \in {"queued", "leased", "lapsed", "retry_scheduled", "dead_lettered"}
          /\ state \in {"queued", "retry_scheduled"} => attempt <= MaxAttempts
      BY <1>1, <1>2, <2>1, <2>2 DEF AssetJob
    <2>4. QED
      BY <1>2, <1>3, <1>4, <2>3, JobGoesOn
  <1>6. CASE RecoverJob(j)
    <2>1. /\ job[j].state \in {"retry_scheduled", "dead_lettered"} /\ attempt <= MaxAttempts
          /\ job' = [job EXCEPT ![j].state = "queued"]
      BY <1>1, <1>6 DEF RecoverJob
    <2>2. PICK state : state = "queued"
      OBVIOUS
    <2>3. /\ job[j].state # "none" /\ job[j].state # "completed"
          /\ job' = [job EXCEPT ![j].state = state, ![j].attempt = attempt]
          /\ state \in {"queued", "leased", "lapsed", "retry_scheduled", "dead_lettered"}
          /\ state \in {"queued", "retry_scheduled"} => attempt <= MaxAttempts
      BY <1>1, <1>2, <2>1, <2>2 DEF AssetJob
    <2>4. QED
      BY <1>2, <1>3, <1>4, <2>3, JobGoesOn
  <1>7. QED
    BY <1>5, <1>6

LEMMA FailedOrCrashed ==
  ASSUME AssetAssumption, AssetInv, NEW k \in Workers, ProcessingFails(k) \/ Fail(k) \/ CrashWorker(k)
  PROVE  AssetInv' /\ ResultsFenced /\ NoneEnds
  <1>1. CASE ProcessingFails(k)
    <2>1. PICK its : its = worker[k]
      OBVIOUS
    <2>2. its \in [at : {"process", "failed"}, job : JobIds, token : 1..MaxAttempts + 1]
      BY <1>1, <2>1, BusyWorker DEF ProcessingFails
    <2>3. PICK new : new = [its EXCEPT !.at = "failed"]
      OBVIOUS
    <2>4. ProcessorOK(new)
      BY <2>2, <2>3 DEF ProcessorOK
    <2>5. worker' = [worker EXCEPT ![k] = new] /\ UNCHANGED <<library, asset, job, client>>
      BY <1>1, <2>1, <2>3 DEF ProcessingFails
    <2>6. QED
      BY <2>4, <2>5, WorkerTurns, JobsWait
  <1>2. PICK away : away = Away
    OBVIOUS
  <1>3. ProcessorOK(away)
    BY <1>2 DEF ProcessorOK
  <1>4. CASE CrashWorker(k)
    <2>1. worker' = [worker EXCEPT ![k] = away] /\ UNCHANGED <<library, asset, job, client>>
      BY <1>2, <1>4 DEF CrashWorker
    <2>2. QED
      BY <1>3, <2>1, WorkerTurns, JobsWait
  <1>5. CASE Fail(k)
    <2>1. PICK j, token, attempt : j = worker[k].job /\ token = worker[k].token /\ attempt = job[j].attempt
      OBVIOUS
    <2>2. worker' = [worker EXCEPT ![k] = away] /\ UNCHANGED <<library, asset, client>>
      BY <1>2, <1>5 DEF Fail
    <2>3. worker' = [l \in Workers |-> worker'[l]] /\ \A l \in Workers : ProcessorOK(worker'[l])
      BY <1>3, <2>2, WorkerTurns
    <2>4. j \in JobIds /\ token \in 1..MaxAttempts + 1
      BY <1>5, <2>1, BusyWorker DEF Fail
    <2>5. CASE Holds(k)
      <3>1. PICK state : state = IF token >= MaxAttempts THEN "dead_lettered" ELSE "retry_scheduled"
        OBVIOUS
      <3>2. /\ job' = [job EXCEPT ![j].state = state] /\ job[j].state = "leased" /\ attempt = token
        BY <1>5, <2>1, <2>5, <3>1 DEF Fail, Holds
      <3>3. job \in [JobIds -> AssetJob] /\ attempt \in 0..(MaxAttempts + 1)
        BY <2>1, <2>4, StoredJob
      <3>4. job' = [job EXCEPT ![j].state = state, ![j].attempt = attempt]
        BY <2>1, <2>4, <3>2, <3>3, ZenonT(40) DEF AssetJob
      <3>5. state \in {"queued", "leased", "lapsed", "retry_scheduled", "dead_lettered"}
            /\ (state \in {"queued", "retry_scheduled"} => attempt <= MaxAttempts)
        BY <2>4, <3>1, <3>2 DEF AssetAssumption
      <3>6. QED
        BY <2>2, <2>3, <2>4, <3>2, <3>3, <3>4, <3>5, JobGoesOn
    <2>6. CASE ~Holds(k)
      <3>1. UNCHANGED job
        BY <1>5, <2>6 DEF Fail
      <3>2. QED
        BY <2>2, <2>3, <3>1, JobsWait
    <2>7. QED
      BY <2>5, <2>6
  <1>6. QED
    BY <1>1, <1>4, <1>5

\* A result is stored: of a job that no other one of its asset has come after.
LEMMA ResultStored ==
  ASSUME AssetAssumption, AssetInv, NEW k \in Workers, CommitProcessing(k)
  PROVE  AssetInv' /\ ResultsFenced /\ OnlyHolderEnds
  <1>1. PICK j, a : j = worker[k].job /\ a = job[j].asset
    OBVIOUS
  <1>2. worker[k].at = "process" /\ UNCHANGED <<library, client>>
    BY DEF CommitProcessing
  <1>3. /\ j \in JobIds /\ worker[k] # Away
        /\ worker[k] \in [at : {"process", "failed"}, job : JobIds, token : 1..MaxAttempts + 1]
    BY <1>1, <1>2, BusyWorker
  <1>4. CASE ~Fits(k)
    <2>1. PICK its, new : its = worker[k] /\ new = [its EXCEPT !.at = "failed"]
      OBVIOUS
    <2>2. ProcessorOK(new)
      BY <1>3, <2>1 DEF ProcessorOK
    <2>3. worker' = [worker EXCEPT ![k] = new] /\ UNCHANGED <<library, asset, job, client>>
      BY <1>4, <2>1 DEF CommitProcessing
    <2>4. AssetInv' /\ ResultsFenced /\ NoneEnds
      BY <2>2, <2>3, WorkerTurns, JobsWait
    <2>5. QED
      BY <2>4 DEF OnlyHolderEnds, NoneEnds
  <1>5. CASE Fits(k)
    <2>1. /\ asset' = [asset EXCEPT ![a].result = j] /\ job' = [job EXCEPT ![j].state = "completed"]
          /\ worker' = [worker EXCEPT ![k] = Away]
      BY <1>1, <1>5 DEF CommitProcessing
    <2>2. /\ job[j].state = "leased" /\ job[j].attempt = worker[k].token /\ asset[a].admitted \in {0, j}
          /\ a \in Media(job[j].work)
      BY <1>1, <1>5 DEF Fits, Holds
    <2>3. JobsOK /\ asset \in [Assets -> StoredAsset] /\ job \in [JobIds -> AssetJob]
      BY DEF AssetInv, JobsOK
    <2>4. a \in Assets
      BY <1>1, <1>3, <2>2, <2>3 DEF JobsOK
    <2>5. j \in Int /\ j > 0 /\ MaxJobs > 0 /\ j \in 0..(MaxJobs + 1) /\ JobIds \subseteq Int
      BY <1>3 DEF JobIds, AssetAssumption
    <2>6. PICK r : r = asset[a].result
      OBVIOUS
    <2>7. j > r
      <3>1. CASE r = 0
        BY <2>5, <3>1
      <3>2. CASE r # 0
        <4>1. AssetOK(a)
          BY <2>3, <2>4 DEF JobsOK
        <4>2. r \in JobsOf(a) /\ job[r].state = "completed"
          BY <2>5, <2>6, <3>2, <4>1 DEF AssetOK
        <4>3. j \in JobsOf(a) /\ r # j
          BY <1>1, <1>3, <2>2, <4>2 DEF JobsOf
        <4>4. asset[a].admitted = j
          <5>1. asset[a].admitted # 0
            BY <4>1, <4>2, <4>3 DEF AssetOK
          <5>2. QED
            BY <2>2, <5>1
        <4>5. r <= j /\ r \in Int
          BY <2>5, <4>1, <4>2, <4>4 DEF AssetOK, JobsOf
        <4>6. QED
          BY <2>5, <4>3, <4>5
      <3>3. QED
        BY <3>1, <3>2
    <2>8. PICK its, new : its = job[j] /\ new = [its EXCEPT !.state = "completed"]
      OBVIOUS
    <2>9. new \in AssetJob /\ new.state = "completed" /\ new.asset = a
      BY <1>1, <1>3, <2>3, <2>8 DEF AssetJob
    <2>10. job' \in [JobIds -> AssetJob] /\ job'[j] = new /\ \A i \in JobIds : i # j => job'[i] = job[i]
      BY <1>3, <2>1, <2>3, <2>8, <2>9
    <2>11. PICK was, now : was = asset[a] /\ now = [was EXCEPT !.result = j]
      OBVIOUS
    <2>12. now \in StoredAsset /\ now.result = j /\ now.stored = was.stored /\ now.admitted = was.admitted
      BY <2>3, <2>4, <2>5, <2>11 DEF StoredAsset
    <2>13. asset' \in [Assets -> StoredAsset] /\ asset'[a] = now /\ \A b \in Assets : b # a => asset'[b] = asset[b]
      BY <2>1, <2>3, <2>4, <2>11, <2>12
    <2>14. \A b \in Assets : JobsOf(b)' = JobsOf(b)
      <3>1. \A i \in JobIds : job'[i].asset = job[i].asset /\ (job'[i].state # "none" <=> job[i].state # "none")
        BY <1>1, <2>2, <2>9, <2>10
      <3>2. QED
        BY <3>1 DEF JobsOf
    <2>15. ASSUME NEW b \in Assets PROVE AssetOK(b)'
      <3>1. AssetOK(b) /\ JobsOf(b)' = JobsOf(b) /\ \A i \in JobsOf(b) : i \in JobIds
        BY <2>3, <2>14 DEF JobsOK, JobsOf
      <3>2. CASE b = a
        <4>1. j \in JobsOf(a)
          BY <1>1, <1>3, <2>2 DEF JobsOf
        <4>2. now.stored
          BY <2>11, <2>12, <3>1, <3>2, <4>1 DEF AssetOK
        <4>3. asset'[b] = now /\ now.result = j /\ now.admitted = asset[b].admitted
          BY <2>11, <2>12, <2>13, <3>2
        <4>4. j \in JobsOf(b)' /\ job'[j].state = "completed"
          BY <2>9, <2>10, <3>1, <3>2, <4>1
        <4>5. /\ asset[b].admitted = 0 => \A i, n \in JobsOf(b) : i = n
              /\ asset[b].admitted # 0 => \A i \in JobsOf(b) : i <= asset[b].admitted
          BY <3>1 DEF AssetOK
        <4>6. /\ now.admitted = 0 => \A i, n \in JobsOf(b)' : i = n
              /\ now.admitted # 0 => \A i \in JobsOf(b)' : i <= now.admitted
          BY <3>1, <4>3, <4>5
        <4>7. QED
          BY <4>2, <4>3, <4>4, <4>6 DEF AssetOK
      <3>3. CASE b # a
        <4>1. asset'[b] = asset[b]
          BY <2>13, <3>3
        <4>2. \A i \in JobsOf(b) : job[i].state = "completed" => job'[i].state = "completed"
          BY <2>9, <2>10, <3>1
        <4>3. QED
          BY <3>1, <4>1, <4>2 DEF AssetOK
      <3>4. QED
        BY <3>2, <3>3
    <2>16. \A i \in JobIds : /\ job'[i].state \in {"none", "queued", "retry_scheduled"} => job'[i].attempt <= MaxAttempts
                             /\ job'[i].state # "none" => job'[i].asset \in Assets /\ \A n \in 1..i - 1 : job'[n].state # "none"
      <3>1. \A i \in JobIds : \A n \in 1..i - 1 : n \in JobIds
        BY DEF JobIds, AssetAssumption
      <3>2. \A i \in JobIds : job'[i].state # "none" <=> job[i].state # "none"
        BY <2>2, <2>9, <2>10
      <3>3. \A i \in JobIds : job[i].state # "none" => job[i].asset \in Assets /\ \A n \in 1..i - 1 : job[n].state # "none"
        BY <2>3 DEF JobsOK
      <3>4. \A i \in JobIds : job[i].state \in {"none", "queued", "retry_scheduled"} => job[i].attempt <= MaxAttempts
        BY <2>3 DEF JobsOK
      <3>5. ASSUME NEW i \in JobIds, job'[i].state # "none" PROVE job'[i].asset \in Assets /\ \A n \in 1..i - 1 : job'[n].state # "none"
        BY <2>4, <2>9, <2>10, <3>1, <3>2, <3>3, <3>5
      <3>6. QED
        BY <2>9, <2>10, <3>4, <3>5
    <2>17. JobsOK'
      BY <2>10, <2>13, <2>15, <2>16 DEF JobsOK
    <2>18. ResultsFenced
      BY <1>1, <1>3, <2>2, <2>4, <2>6, <2>7, <2>9, <2>10, <2>12, <2>13 DEF ResultsFenced
    <2>19. \A b \in Assets : asset[b].stored => asset'[b].stored
      BY <2>11, <2>12, <2>13
    <2>20. LibraryOK' /\ WorksMove
      BY <1>2, <2>19, LibraryStands
    <2>21. PICK away : away = Away
      OBVIOUS
    <2>22. worker' = [l \in Workers |-> worker'[l]] /\ worker'[k] = away /\ \A l \in Workers : ProcessorOK(worker'[l])
      <3>1. ProcessorOK(away)
        BY <2>21 DEF ProcessorOK
      <3>2. worker' = [worker EXCEPT ![k] = away]
        BY <2>1, <2>21
      <3>3. QED
        BY <3>1, <3>2, WorkerTurns
    <2>23. AssetInv'
      BY <1>2, <2>17, <2>20, <2>22, ProcessorTurns
    <2>24. OnlyHolderEnds
      BY <1>1, <1>3, <2>2, <2>10, <2>21, <2>22 DEF OnlyHolderEnds
    <2>25. QED
      BY <2>18, <2>23, <2>24
  <1>6. QED
    BY <1>4, <1>5

-----------------------------------------------------------------------------
\* Every step keeps the invariant.
LEMMA AssetStep ==
  ASSUME AssetAssumption, AssetInv, [AssetNext]_assetVars
  PROVE  AssetInv' /\ ResultsFenced /\ OnlyHolderEnds
  <1>1. NoneEnds => OnlyHolderEnds
    BY DEF NoneEnds, OnlyHolderEnds
  <1>2. CASE UNCHANGED assetVars
    <2>1. UNCHANGED <<library, asset, job, client, worker>>
      BY <1>2 DEF assetVars, library
    <2>2. worker' = [k \in Workers |-> worker'[k]] /\ \A k \in Workers : ProcessorOK(worker'[k])
      BY <2>1 DEF AssetInv
    <2>3. QED
      BY <1>1, <2>1, <2>2, JobsWait
  <1>3. ASSUME NEW c \in Clients, CommitRequest(c) PROVE AssetInv' /\ ResultsFenced /\ OnlyHolderEnds
    BY <1>1, <1>3, RequestDone
  <1>4. ASSUME NEW c \in Clients, NEW w \in LibraryWorks,
               \/ \E a \in Assets : \/ AskAttach(c, w, a) \/ AskPrimary(c, w, a) \/ AskDetach(c, w, a)
                                    \/ \E source \in LibraryWorks \ {w} : AskAttachExisting(c, w, source, a)
                                    \/ \E request \in Regenerations : AskRegenerate(c, w, a, request)
               \/ \E order \in SetToSeqs(Media(w)) : AskOrder(c, w, order)
               \/ \E refs \in SUBSET Assets, status \in {"draft", "archived", "deleted"} : AskRevise(c, w, refs, status)
        PROVE  AssetInv' /\ ResultsFenced /\ OnlyHolderEnds
    BY <1>1, <1>4, AskingStep
  <1>5. ASSUME NEW k \in Workers, (\E j \in JobIds : LeaseJob(k, j)) \/ ProcessingFails(k) \/ Fail(k) \/ CrashWorker(k)
        PROVE  AssetInv' /\ ResultsFenced /\ OnlyHolderEnds
    BY <1>1, <1>5, Leased, FailedOrCrashed
  <1>6. ASSUME NEW j \in JobIds, LeaseLapses(j) \/ RecoverJob(j) PROVE AssetInv' /\ ResultsFenced /\ OnlyHolderEnds
    BY <1>1, <1>6, Lapsed
  <1>7. QED
    BY <1>2, <1>3, <1>4, <1>5, <1>6, ResultStored DEF AssetNext

THEOREM AssetAlways ==
  ASSUME AssetAssumption
  PROVE  AssetSpec => []AssetInv
  <1>1. AssetInit => AssetInv
    BY AssetStart
  <1>2. AssetInv /\ [AssetNext]_assetVars => AssetInv'
    BY AssetStep
  <1>3. QED
    BY <1>1, <1>2, PTL DEF AssetSpec

\* The records and their media, as the run checks them.
THEOREM AssetsTyped ==
  ASSUME AssetAssumption
  PROVE  AssetSpec => []AssetTypeOK
  <1>1. AssetInv => AssetTypeOK
    <2>1. SUFFICES ASSUME AssetInv PROVE AssetTypeOK
      OBVIOUS
    <2>2. \A w \in LibraryWorks : Media(w) \subseteq Assets
      BY <2>1, StoredWork
    <2>3. \A j \in JobIds : job[j].attempt \in 0..(MaxAttempts + 1)
      BY <2>1, StoredJob
    <2>4. QED
      BY <2>1, <2>2, <2>3 DEF AssetInv, LibraryOK, JobsOK, AssetTypeOK, LibraryWork, StoredAsset
  <1>2. QED
    BY <1>1, AssetAlways, PTL

\* What readers of a Work rely on, whichever edits of its media and its content overlap
\* (validWorkAssetReferences and the commits of creator-library.ts).
THEOREM MediaWhole ==
  ASSUME AssetAssumption
  PROVE  AssetSpec => []MediaConsistent
  <1>1. AssetInv => MediaConsistent
    <2>1. SUFFICES ASSUME AssetInv PROVE MediaConsistent
      OBVIOUS
    <2>2. ASSUME NEW w \in LibraryWorks
          PROVE  /\ workRecord[w].refs \subseteq Media(w) /\ Len(media[w]) = Cardinality(Media(w))
                 /\ IF media[w] = <<>> THEN workRecord[w].primary = NoAsset /\ lead[w] = {}
                    ELSE workRecord[w].primary \in Media(w) /\ lead[w] = {workRecord[w].primary}
                 /\ \A a \in Media(w) : asset[a].stored
      <3>1. /\ media[w] \in Seq(Assets) /\ Whole(workRecord[w], media[w], lead[w])
            /\ \A a \in Media(w) : asset[a].stored
        BY <2>1, StoredWork
      <3>2. Len(media[w]) = Cardinality(Media(w))
        BY <3>1, DistinctLength DEF Whole, Media
      <3>3. QED
        BY <3>1, <3>2 DEF Whole, Media
    <2>3. QED
      BY <2>2 DEF MediaConsistent
  <1>2. QED
    BY <1>1, AssetAlways, PTL

\* No result of an older job replaces one of a later job, whichever leases lapse and whichever
\* jobs an operator revives, and a worker whose lease is over ends no job and stores nothing
\* (commitAssetProcessing and the fenced updates of the job's row).
THEOREM ResultsKept ==
  ASSUME AssetAssumption
  PROVE  AssetSpec => [][ResultsFenced /\ OnlyHolderEnds]_assetVars
  <1>1. AssetInv /\ [AssetNext]_assetVars => [ResultsFenced /\ OnlyHolderEnds]_assetVars
    BY AssetStep
  <1>2. QED
    BY <1>1, AssetAlways, PTL DEF AssetSpec
=============================================================================
