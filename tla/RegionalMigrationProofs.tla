----------------------- MODULE RegionalMigrationProofs -----------------------
(***************************************************************************)
(* Theorems about RegionalMigration, for any cells, migrations, workers    *)
(* and rollback window: first whatever commands are repeated over whatever *)
(* stale checkpoints, then for operators who run one migration at a time   *)
(* (CarefulNext of MCRegionalMigration), then for a single migration and   *)
(* the creator's last acknowledged write.                                  *)
(***************************************************************************)
EXTENDS MCRegionalMigration, TLAPS

\* What the constants stand for: NoCheckpoint is no checkpoint.
MigrationAssumption ==
  /\ Home \in Cells
  /\ Migrations \subseteq Nat
  /\ Window \in Nat
  /\ NoCheckpoint \notin Checkpoint

-----------------------------------------------------------------------------
(* The invariant that every command keeps.                                  *)

Rank == [requested |-> 0, source_hold |-> 1, exported |-> 2, transferred |-> 3,
         verified |-> 4, cutover |-> 5, rolled_back |-> 6, retired |-> 6]

\* A worker's checkpoint is one the store has or once had: of the same
\* migration, and the same altogether unless the store's was written since.
Older(cp, new) ==
  /\ cp.id = new.id /\ cp.source = new.source
  /\ cp.revision = new.revision /\ cp.destination = new.destination
  /\ cp.updatedAt <= new.updatedAt
  /\ cp.updatedAt = new.updatedAt => cp = new

\* The number of writes of a checkpoint tells how far it is, and the route has
\* moved by as much as its state says.
CheckpointOK(m) ==
  LET cp == checkpoint[m]
  IN  /\ cp.id = m
      /\ cp.updatedAt = Rank[cp.state]
      /\ cp.state \in {"cutover", "rolled_back", "retired"} => route.revision > cp.revision
      /\ cp.state = "rolled_back" => route.revision >= cp.revision + 2

\* Where a command is, over the checkpoint it works from.
PlaceOK(w) ==
  LET cp == loaded[w]
  IN  /\ pc[w] = "advance" /\ command[w] = "resume" => cp.state \in DOMAIN Following
      /\ pc[w] = "advance" /\ command[w] # "resume" => cp.state = "cutover"
      /\ pc[w] = "holds" => command[w] = "resume" /\ cp.state = "transferred"
      /\ pc[w] = "cutover" => command[w] = "resume" /\ cp.state = "verified"
      /\ pc[w] \in {"route", "restore", "release"} =>
           command[w] = "rollback" /\ cp.state = "cutover"
      /\ pc[w] \in {"retire", "creator"} => command[w] = "retire" /\ cp.state = "cutover"

\* The route it read is the current one or an older one, and the route has moved
\* before the checkpoint says so.
RouteOK(w) ==
  LET cp == loaded[w]
  IN  /\ pc[w] \in {"cutover", "restore"} =>
           /\ read[w].revision <= route.revision
           /\ read[w].revision = route.revision => read[w] = route
      /\ pc[w] = "cutover" => read[w].home = cp.source /\ read[w].revision = cp.revision
      /\ pc[w] = "restore" => read[w].home = cp.destination /\ read[w].revision = cp.revision + 1
      /\ pc[w] = "release" => route.revision >= cp.revision + 2
      /\ pc[w] = "advance" /\ cp.state = "verified" => route.revision > cp.revision
      /\ pc[w] = "advance" /\ command[w] = "rollback" => route.revision >= cp.revision + 2

WorkerOK(w) ==
  /\ loaded[w] \in Checkpoint
  /\ loaded[w].id \in Requested
  /\ loaded[w].updatedAt = Rank[loaded[w].state]
  /\ Older(loaded[w], checkpoint[loaded[w].id])
  /\ PlaceOK(w)
  /\ RouteOK(w)

CommandInv ==
  /\ TypeOK
  /\ \A m \in Requested : CheckpointOK(m)
  /\ \A w \in Workers : pc[w] # "idle" => WorkerOK(w)

-----------------------------------------------------------------------------
(* Lemmas.                                                                  *)

\* The five steps of resume() and what follows each.
LEMMA FollowingIs ==
  /\ DOMAIN Following = {"requested", "source_hold", "exported", "transferred", "verified"}
  /\ \A s \in DOMAIN Following : /\ Following[s] \in MigrationState
                                 /\ Rank[s] \in Nat /\ Rank[Following[s]] = Rank[s] + 1
                                 /\ Following[s] \notin {"rolled_back", "retired"}
                                 /\ Following[s] = "cutover" <=> s = "verified"
                                 /\ Following[s] = "exported" <=> s = "source_hold"
  BY DEF Following, Rank, MigrationState

\* What the write of a step puts into the store.
LEMMA AdvancedIs ==
  ASSUME MigrationAssumption, CommandInv, NEW w \in Workers, pc[w] = "advance"
  PROVE  /\ Advanced(w) \in Checkpoint
         /\ Advanced(w).id = loaded[w].id
         /\ Advanced(w).source = loaded[w].source
         /\ Advanced(w).revision = loaded[w].revision
         /\ Advanced(w).destination = loaded[w].destination
         /\ Advanced(w).state = Target(w)
         /\ Advanced(w).updatedAt = loaded[w].updatedAt + 1
         /\ Advanced(w).manifest =
              (IF Target(w) = "exported" THEN taken[w] ELSE loaded[w].manifest)
         /\ Advanced(w).rollbackUntil =
              (IF Target(w) = "cutover" THEN now + Window ELSE loaded[w].rollbackUntil)
         /\ Target(w) \in MigrationState
         /\ Rank[Target(w)] = loaded[w].updatedAt + 1
  <1>1. /\ loaded[w] \in Checkpoint /\ PlaceOK(w) /\ loaded[w].updatedAt = Rank[loaded[w].state]
        /\ command[w] \in {"resume", "rollback", "retire"} /\ taken[w] \in Manifest
        /\ now + Window \in Nat
    BY DEF CommandInv, WorkerOK, TypeOK, MigrationAssumption
  <1>2. Target(w) \in MigrationState /\ Rank[Target(w)] = loaded[w].updatedAt + 1
    <2>1. CASE command[w] = "resume"
      BY <1>1, <2>1, FollowingIs DEF PlaceOK, Target
    <2>2. CASE command[w] # "resume"
      BY <1>1, <2>2 DEF PlaceOK, Target, Rank, MigrationState
    <2>3. QED
      BY <2>1, <2>2
  <1> DEFINE manifest == IF Target(w) = "exported" THEN taken[w] ELSE loaded[w].manifest
             until == IF Target(w) = "cutover" THEN now + Window ELSE loaded[w].rollbackUntil
             next == loaded[w].updatedAt + 1
  <1>3. /\ Advanced(w) = [loaded[w] EXCEPT !.state = Target(w), !.updatedAt = next,
                                           !.manifest = manifest, !.rollbackUntil = until]
    BY DEF Advanced
  <1>4. manifest \in Manifest /\ until \in Nat /\ next \in Nat
    BY <1>1 DEF Checkpoint
  <1> HIDE DEF manifest, until, next
  <1>5. /\ Advanced(w) \in Checkpoint
        /\ Advanced(w).id = loaded[w].id
        /\ Advanced(w).source = loaded[w].source
        /\ Advanced(w).revision = loaded[w].revision
        /\ Advanced(w).destination = loaded[w].destination
        /\ Advanced(w).state = Target(w)
        /\ Advanced(w).updatedAt = next
        /\ Advanced(w).manifest = manifest
        /\ Advanced(w).rollbackUntil = until
    BY <1>1, <1>2, <1>3, <1>4 DEF Checkpoint
  <1>6. QED
    BY <1>2, <1>5 DEF manifest, until, next

\* A worker whose own variables stay is where it should be after any step that
\* rewrites the checkpoints and the route only forward.
LEMMA OthersKept ==
  ASSUME CommandInv, NEW v \in Workers, pc'[v] # "idle",
         pc'[v] = pc[v], command'[v] = command[v], loaded'[v] = loaded[v], read'[v] = read[v],
         \A m \in Requested : /\ checkpoint'[m] # NoCheckpoint
                              /\ loaded[v].id = m => Older(loaded[v], checkpoint'[m]),
         \/ route' = route
         \/ route'.revision = route.revision + 1
  PROVE  WorkerOK(v)'
  <1>1. WorkerOK(v)
    BY DEF CommandInv
  <1>2. PlaceOK(v)'
    BY <1>1 DEF WorkerOK, PlaceOK
  <1>3. RouteOK(v)'
    <2>1. /\ route.revision \in Nat /\ loaded[v].revision \in Nat /\ read[v].revision \in Nat
      BY <1>1 DEF CommandInv, TypeOK, Route, WorkerOK, Checkpoint
    <2>2. QED
      BY <1>1, <2>1 DEF WorkerOK, RouteOK
  <1>4. loaded'[v].id \in Requested'
    BY <1>1 DEF WorkerOK, Requested
  <1>5. Older(loaded'[v], checkpoint'[loaded'[v].id])
    BY <1>1 DEF WorkerOK
  <1>6. QED
    BY <1>1, <1>2, <1>3, <1>4, <1>5 DEF WorkerOK

\* A step of one worker that writes neither a checkpoint nor the route.
LEMMA WorkerMoves ==
  ASSUME CommandInv, TypeOK', NEW w \in Workers,
         UNCHANGED <<route, checkpoint, command, loaded>>,
         \A v \in Workers : v # w => pc'[v] = pc[v] /\ read'[v] = read[v],
         PlaceOK(w)', pc'[w] # "idle", pc[w] # "idle", RouteOK(w)'
  PROVE  CommandInv'
  <1>1. \A m \in Requested' : CheckpointOK(m)'
    BY DEF CommandInv, Requested, CheckpointOK
  <1>2. ASSUME NEW v \in Workers, pc'[v] # "idle" PROVE WorkerOK(v)'
    <2>1. CASE v = w
      <3>1. WorkerOK(w)
        BY DEF CommandInv
      <3>2. QED
        BY <2>1, <3>1 DEF WorkerOK, Requested
    <2>2. CASE v # w
      <3>1. WorkerOK(v)
        BY <1>2, <2>2 DEF CommandInv
      <3>2. \A m \in Requested : /\ checkpoint'[m] # NoCheckpoint
                                 /\ loaded[v].id = m => Older(loaded[v], checkpoint'[m])
        BY <3>1 DEF WorkerOK, Requested
      <3>3. QED
        BY <1>2, <2>2, <3>2, OthersKept
    <2>3. QED
      BY <2>1, <2>2
  <1>3. QED
    BY <1>1, <1>2 DEF CommandInv

-----------------------------------------------------------------------------
(* Types.                                                                   *)

LEMMA TypeNext ==
  ASSUME MigrationAssumption, CommandInv, [Next]_vars
  PROVE  TypeOK'
  <1> USE DEF MigrationAssumption
  <1>0. TypeOK /\ \A w \in Workers : pc[w] # "idle" => loaded[w] \in Checkpoint
    BY DEF CommandInv, WorkerOK
  <1>1. ASSUME NEW m \in Migrations, NEW c \in Cells, Request(m, c) PROVE TypeOK'
    <2> DEFINE cp == [id |-> m, source |-> route.home, revision |-> route.revision,
                      destination |-> c, state |-> "requested", rollbackUntil |-> 0,
                      manifest |-> NoManifest, updatedAt |-> 0]
    <2>1. cp \in Checkpoint
      BY <1>0 DEF TypeOK, Route, Checkpoint, MigrationState, Manifest, NoManifest, Hold
    <2>2. checkpoint' = [checkpoint EXCEPT ![m] = cp]
      BY <1>1 DEF Request
    <2>3. checkpoint' \in [Migrations -> Checkpoint \cup {NoCheckpoint}]
      BY <1>0, <2>1, <2>2 DEF TypeOK
    <2>4. QED
      BY <1>0, <1>1, <2>3 DEF Request, TypeOK, cells, workers
  <1>2. ASSUME NEW w \in Workers, Stop(w) PROVE TypeOK'
    <2>1. InitialRoute \in Route /\ NoManifest \in Manifest
      BY DEF InitialRoute, Route, Manifest, NoManifest, Hold
    <2>2. QED
      BY <1>0, <1>2, <2>1 DEF Stop, Goto, TypeOK, cells, Where
  <1>3. ASSUME NEW w \in Workers, Advance(w) PROVE TypeOK'
    <2>1. pc[w] = "advance"
      BY <1>3 DEF Advance
    <2>2. Advanced(w) \in Checkpoint
      BY <2>1, AdvancedIs
    <2>3. QED
      BY <1>0, <1>3, <2>2 DEF Advance, Goto, TypeOK, cells, Where
  <1>4. ASSUME NEW w \in Workers, NEW c \in Cells, NEW m \in Migrations, NEW h \in Hold,
               holds' = [holds EXCEPT ![c][m] = h]
        PROVE  holds' \in [Cells -> [Migrations -> Hold]]
    BY <1>0, <1>4 DEF TypeOK
  <1>5. ASSUME NEW w \in Workers, PlaceSourceHold(w) \/ ReleaseSourceHold(w) PROVE TypeOK'
    <2>1. PICK c \in Cells, m \in Migrations, h \in Hold : holds' = [holds EXCEPT ![c][m] = h]
      <3>1. loaded[w] \in Checkpoint
        BY <1>0, <1>5 DEF PlaceSourceHold, ReleaseSourceHold, At
      <3>2. PICK c \in Cells, m \in Migrations : c = loaded[w].source /\ m = loaded[w].id
        BY <3>1 DEF Checkpoint
      <3>3. holds[c][m] \in Hold
        BY <1>0 DEF TypeOK
      <3>4. CASE PlaceSourceHold(w)
        <4>1. holds' = [holds EXCEPT ![c][m] = IF holds[c][m] = "none" THEN "active" ELSE holds[c][m]]
          BY <3>2, <3>4 DEF PlaceSourceHold
        <4>2. (IF holds[c][m] = "none" THEN "active" ELSE holds[c][m]) \in Hold
          BY <3>3 DEF Hold
        <4>3. QED
          BY <4>1, <4>2
      <3>5. CASE ReleaseSourceHold(w)
        <4>1. holds' = [holds EXCEPT ![c][m] = IF holds[c][m] = "active" THEN "released" ELSE holds[c][m]]
          BY <3>2, <3>5 DEF ReleaseSourceHold
        <4>2. (IF holds[c][m] = "active" THEN "released" ELSE holds[c][m]) \in Hold
          BY <3>3 DEF Hold
        <4>3. QED
          BY <4>1, <4>2
      <3>6. QED
        BY <1>5, <3>4, <3>5
    <2>2. holds' \in [Cells -> [Migrations -> Hold]]
      BY <1>4, <2>1
    <2>3. QED
      BY <1>0, <1>5, <2>2 DEF PlaceSourceHold, ReleaseSourceHold, Goto, TypeOK, Where
  <1>6. ASSUME NEW w \in Workers, ExportSource(w) PROVE TypeOK'
    <2>1. PICK c \in Cells : c = loaded[w].source
      BY <1>0, <1>6 DEF ExportSource, At, Checkpoint
    <2>2. [version |-> copy[c], holds |-> holds[c]] \in Manifest
      BY <1>0 DEF TypeOK, Manifest
    <2>3. QED
      BY <1>0, <1>6, <2>1, <2>2 DEF ExportSource, Goto, TypeOK, cells, Where
  <1>7. ASSUME NEW w \in Workers, TransferObjects(w) PROVE TypeOK'
    BY <1>0, <1>7 DEF TransferObjects, Goto, TypeOK, cells, Where
  <1>8. ASSUME NEW w \in Workers, ImportRecords(w) PROVE TypeOK'
    <2>1. PICK c \in Cells : c = loaded[w].destination
      BY <1>0, <1>8 DEF ImportRecords, At, Checkpoint
    <2>2. loaded[w].manifest.version \in Nat
      BY <1>0, <1>8 DEF ImportRecords, At, Checkpoint, Manifest
    <2>3. QED
      BY <1>0, <1>8, <2>1, <2>2 DEF ImportRecords, Goto, TypeOK, Where
  <1>9. ASSUME NEW w \in Workers, ImportHolds(w) PROVE TypeOK'
    <2>1. PICK c \in Cells : c = loaded[w].destination
      BY <1>0, <1>9 DEF ImportHolds, Checkpoint
    <2>2. loaded[w].manifest.holds \in [Migrations -> Hold] /\ holds[c] \in [Migrations -> Hold]
      BY <1>0, <1>9 DEF ImportHolds, Checkpoint, Manifest, TypeOK
    <2> DEFINE merged == [m \in Migrations |-> IF holds[c][m] = "none" THEN loaded[w].manifest.holds[m]
                                               ELSE holds[c][m]]
    <2>3. merged \in [Migrations -> Hold]
      BY <2>2
    <2>4. holds' = [holds EXCEPT ![c] = merged]
      BY <1>9, <2>1 DEF ImportHolds
    <2> HIDE DEF merged
    <2>5. QED
      BY <1>0, <1>9, <2>3, <2>4 DEF ImportHolds, Goto, TypeOK, Where
  <1>10. ASSUME NEW w \in Workers, ReadRoute(w) \/ ReadRouteBack(w) PROVE TypeOK'
    BY <1>0, <1>10 DEF ReadRoute, ReadRouteBack, Goto, TypeOK, cells, Where
  <1>11. ASSUME NEW w \in Workers, CutOver(w) \/ Restore(w) PROVE TypeOK'
    <2>1. loaded[w].destination \in Cells /\ loaded[w].source \in Cells /\ read[w].revision + 1 \in Nat
      BY <1>0, <1>11 DEF CutOver, Restore, Checkpoint, TypeOK, Route
    <2>2. route' \in Route
      BY <1>11, <2>1 DEF CutOver, Restore, Swapped, Route
    <2>3. QED
      BY <1>0, <1>11, <2>2 DEF CutOver, Restore, Goto, TypeOK, cells, Where
  <1>12. ASSUME NEW w \in Workers, RetireContent(w) PROVE TypeOK'
    <2>1. PICK c \in Cells : c = loaded[w].source
      BY <1>0, <1>12 DEF RetireContent, Checkpoint
    <2>2. [m \in Migrations |-> "none"] \in [Migrations -> Hold]
      BY DEF Hold
    <2>3. QED
      BY <1>0, <1>12, <2>1, <2>2 DEF RetireContent, Goto, TypeOK, Where
  <1>13. ASSUME NEW w \in Workers, RetireCreator(w) PROVE TypeOK'
    BY <1>0, <1>13 DEF RetireCreator, Goto, TypeOK, Where
  <1>14. ASSUME NEW w \in Workers, NEW m \in Migrations,
                NEW what \in {"resume", "rollback", "retire"}, Begin(w, m, what)
         PROVE  TypeOK'
    BY <1>0, <1>14 DEF Begin, Goto, TypeOK, cells, Where
  <1>15. ASSUME NEW c \in Cells, WriteAdmitted(c) \/ WriteDone(c) PROVE TypeOK'
    <2>1. strayed' \in BOOLEAN
      BY <1>0, <1>15 DEF WriteAdmitted, WriteDone, TypeOK
    <2>2. QED
      BY <1>0, <1>15, <2>1 DEF WriteAdmitted, WriteDone, TypeOK, cells, workers
  <1>16. ASSUME NEW c \in Cells, NEW m \in Migrations, OperatorRelease(c, m) PROVE TypeOK'
    <2>1. holds' \in [Cells -> [Migrations -> Hold]]
      BY <1>0, <1>16 DEF OperatorRelease, TypeOK, Hold
    <2>2. QED
      BY <1>0, <1>16, <2>1 DEF OperatorRelease, TypeOK, workers
  <1>17. CASE Tick \/ UNCHANGED vars
    BY <1>0, <1>17 DEF Tick, vars, TypeOK, cells, workers
  <1>18. QED
    BY <1>1, <1>2, <1>3, <1>5, <1>6, <1>7, <1>8, <1>9, <1>10, <1>11, <1>12, <1>13,
       <1>14, <1>15, <1>16, <1>17 DEF Next, Step

-----------------------------------------------------------------------------
(* The invariant is inductive.                                              *)

\* A checkpoint that is written is the one the worker read, and it takes the
\* next state of the lifecycle; a worker that has not read it is left behind.
LEMMA AdvanceKeeps ==
  ASSUME MigrationAssumption, CommandInv, TypeOK', NEW w \in Workers, Advance(w)
  PROVE  CommandInv'
  <1> DEFINE m == loaded[w].id
  <1>1. /\ pc[w] = "advance" /\ checkpoint[m].updatedAt = loaded[w].updatedAt
        /\ checkpoint' = [checkpoint EXCEPT ![m] = Advanced(w)]
        /\ loaded' = [loaded EXCEPT ![w] = Advanced(w)]
        /\ pc' = [pc EXCEPT ![w] = "run"]
        /\ UNCHANGED <<route, command, read>>
    BY DEF Advance, Goto
  <1>2. WorkerOK(w)
    BY <1>1 DEF CommandInv
  <1>3. m \in Migrations /\ m \in Requested /\ checkpoint[m] = loaded[w] /\ loaded[w] \in Checkpoint
    BY <1>1, <1>2 DEF WorkerOK, Older, Requested
  <1>4. /\ Advanced(w) \in Checkpoint /\ Advanced(w).id = m
        /\ Advanced(w).source = loaded[w].source /\ Advanced(w).revision = loaded[w].revision
        /\ Advanced(w).destination = loaded[w].destination /\ Advanced(w).state = Target(w)
        /\ Advanced(w).updatedAt = loaded[w].updatedAt + 1
        /\ Rank[Target(w)] = loaded[w].updatedAt + 1
    BY <1>1, AdvancedIs
  <1>5. \A n \in Migrations : checkpoint'[n] = IF n = m THEN Advanced(w) ELSE checkpoint[n]
    BY <1>1, <1>3 DEF CommandInv, TypeOK
  <1>6. Requested' = Requested
    BY <1>3, <1>4, <1>5 DEF Requested, MigrationAssumption
  <1>7. ASSUME NEW n \in Requested' PROVE CheckpointOK(n)'
    <2>1. CASE n # m
      BY <1>1, <1>5, <1>6, <2>1 DEF CommandInv, CheckpointOK, Requested
    <2>2. CASE n = m
      <3>1. Target(w) \in {"cutover", "rolled_back", "retired"} => route.revision > loaded[w].revision
        <4>1. CASE command[w] = "resume"
          BY <1>1, <1>2, <4>1, FollowingIs DEF WorkerOK, PlaceOK, RouteOK, Target
        <4>2. CASE command[w] # "resume"
          BY <1>1, <1>2, <1>3, <4>2 DEF WorkerOK, PlaceOK, CommandInv, CheckpointOK
        <4>3. QED
          BY <4>1, <4>2
      <3>2. Target(w) = "rolled_back" => route.revision >= loaded[w].revision + 2
        <4>1. CASE command[w] = "resume"
          BY <1>1, <1>2, <4>1, FollowingIs DEF WorkerOK, PlaceOK, Target
        <4>2. CASE command[w] = "rollback"
          BY <1>1, <1>2, <4>2 DEF WorkerOK, RouteOK
        <4>3. CASE command[w] = "retire"
          BY <4>3 DEF Target
        <4>4. QED
          BY <4>1, <4>2, <4>3 DEF CommandInv, TypeOK
      <3>3. QED
        BY <1>1, <1>3, <1>4, <1>5, <2>2, <3>1, <3>2 DEF CheckpointOK
    <2>3. QED
      BY <2>1, <2>2
  <1>8. ASSUME NEW v \in Workers, pc'[v] # "idle" PROVE WorkerOK(v)'
    <2>1. CASE v = w
      <3>1. pc'[w] = "run" /\ loaded'[w] = Advanced(w)
        BY <1>1 DEF CommandInv, TypeOK
      <3>2. PlaceOK(w)' /\ RouteOK(w)'
        BY <3>1 DEF PlaceOK, RouteOK
      <3>3. checkpoint'[Advanced(w).id] = Advanced(w) /\ Advanced(w).id \in Requested'
        BY <1>3, <1>4, <1>5, <1>6
      <3>4. Older(loaded'[w], checkpoint'[loaded'[w].id])
        BY <1>4, <3>1, <3>3 DEF Older, Checkpoint
      <3>5. QED
        BY <1>4, <2>1, <3>1, <3>2, <3>3, <3>4 DEF WorkerOK
    <2>2. CASE v # w
      <3>1. pc'[v] = pc[v] /\ command'[v] = command[v] /\ loaded'[v] = loaded[v] /\ read'[v] = read[v]
        BY <1>1, <2>2 DEF CommandInv, TypeOK
      <3>2. WorkerOK(v)
        BY <1>8, <3>1 DEF CommandInv
      <3>3. \A n \in Requested : /\ checkpoint'[n] # NoCheckpoint
                                 /\ loaded[v].id = n => Older(loaded[v], checkpoint'[n])
        <4>1. \A n \in Requested : checkpoint'[n] # NoCheckpoint
          BY <1>6 DEF Requested
        <4>2. ASSUME loaded[v].id = m PROVE Older(loaded[v], Advanced(w))
          BY <1>3, <1>4, <3>2, <4>2 DEF WorkerOK, Older, Checkpoint
        <4>3. ASSUME NEW n \in Requested, n # m, loaded[v].id = n PROVE Older(loaded[v], checkpoint'[n])
          BY <1>5, <3>2, <4>3 DEF WorkerOK, Requested
        <4>4. QED
          BY <1>3, <1>5, <4>1, <4>2, <4>3
      <3>4. QED
        BY <1>1, <1>8, <3>1, <3>3, OthersKept
    <2>3. QED
      BY <2>1, <2>2
  <1>9. QED
    BY <1>7, <1>8 DEF CommandInv

\* The route is swapped by a command whose checkpoint it was read for.
LEMMA SwapKeeps ==
  ASSUME MigrationAssumption, CommandInv, TypeOK', NEW w \in Workers, CutOver(w) \/ Restore(w)
  PROVE  CommandInv'
  <1>1. /\ route'.revision = route.revision + 1
        /\ pc[w] \in {"cutover", "restore"}
        /\ UNCHANGED <<checkpoint, command, loaded, read>>
    BY DEF CutOver, Restore, Current, Swapped
  <1>2. WorkerOK(w) /\ route.revision \in Nat
    BY <1>1 DEF CommandInv, TypeOK, Route
  <1>3. \A m \in Requested' : CheckpointOK(m)'
    <2> SUFFICES ASSUME NEW m \in Requested PROVE CheckpointOK(m)'
      BY <1>1 DEF Requested
    <2>1. CheckpointOK(m) /\ checkpoint[m] \in Checkpoint
      BY DEF CommandInv, TypeOK, Requested
    <2>2. checkpoint[m].revision \in Nat
      BY <2>1 DEF Checkpoint
    <2>3. QED
      BY <1>1, <1>2, <2>1, <2>2 DEF CheckpointOK
  <1>4. ASSUME NEW v \in Workers, pc'[v] # "idle" PROVE WorkerOK(v)'
    <2>1. CASE v = w
      <3>1. loaded[w].revision \in Nat /\ read[w].revision \in Nat
        BY <1>2 DEF WorkerOK, Checkpoint, CommandInv, TypeOK, Route
      <3>2. CASE CutOver(w)
        <4>1. pc'[w] = "advance" /\ pc[w] = "cutover"
          BY <3>2 DEF CutOver, Goto, CommandInv, TypeOK
        <4>2. command[w] = "resume" /\ loaded[w].state = "verified"
              /\ read[w].revision = loaded[w].revision /\ read[w].revision <= route.revision
          BY <1>2, <4>1 DEF WorkerOK, PlaceOK, RouteOK
        <4>3. PlaceOK(w)'
          BY <1>1, <4>1, <4>2, FollowingIs DEF PlaceOK
        <4>4. RouteOK(w)'
          BY <1>1, <1>2, <3>1, <4>1, <4>2 DEF RouteOK
        <4>5. QED
          BY <1>1, <1>2, <2>1, <4>3, <4>4 DEF WorkerOK, Requested
      <3>3. CASE Restore(w)
        <4>1. pc'[w] = "release" /\ pc[w] = "restore" /\ route.revision = read[w].revision
          BY <3>3 DEF Restore, Goto, Current, CommandInv, TypeOK
        <4>2. command[w] = "rollback" /\ loaded[w].state = "cutover"
              /\ read[w].revision = loaded[w].revision + 1
          BY <1>2, <4>1 DEF WorkerOK, PlaceOK, RouteOK
        <4>3. PlaceOK(w)'
          BY <1>1, <4>1, <4>2 DEF PlaceOK
        <4>4. RouteOK(w)'
          BY <1>1, <1>2, <3>1, <4>1, <4>2 DEF RouteOK
        <4>5. QED
          BY <1>1, <1>2, <2>1, <4>3, <4>4 DEF WorkerOK, Requested
      <3>4. QED
        BY <3>2, <3>3
    <2>2. CASE v # w
      <3>1. pc'[v] = pc[v]
        BY <2>2 DEF CutOver, Restore, Goto, CommandInv, TypeOK
      <3>2. WorkerOK(v)
        BY <1>4, <3>1 DEF CommandInv
      <3>3. \A m \in Requested : /\ checkpoint'[m] # NoCheckpoint
                                 /\ loaded[v].id = m => Older(loaded[v], checkpoint'[m])
        BY <1>1, <3>2 DEF WorkerOK, Requested
      <3>4. QED
        BY <1>1, <1>4, <3>1, <3>3, OthersKept
    <2>3. QED
      BY <2>1, <2>2
  <1>5. QED
    BY <1>3, <1>4 DEF CommandInv

\* A step that touches neither a worker, nor a checkpoint, nor the route.
LEMMA OutsideKeeps ==
  ASSUME CommandInv, TypeOK', UNCHANGED <<route, checkpoint, pc, command, loaded, read>>
  PROVE  CommandInv'
  BY DEF CommandInv, CheckpointOK, Requested, WorkerOK, PlaceOK, RouteOK

LEMMA CommandStep ==
  ASSUME MigrationAssumption, CommandInv, [Next]_vars
  PROVE  CommandInv'
  <1>0. TypeOK' /\ TypeOK
    BY TypeNext DEF CommandInv
  <1>1. ASSUME NEW m \in Migrations, NEW c \in Cells, Request(m, c) PROVE CommandInv'
    <2>1. /\ checkpoint[m] = NoCheckpoint
          /\ \A n \in Migrations : n # m => checkpoint'[n] = checkpoint[n]
          /\ checkpoint'[m].id = m /\ checkpoint'[m].state = "requested"
          /\ checkpoint'[m].updatedAt = 0
          /\ UNCHANGED <<route, pc, command, loaded, read>>
      BY <1>0, <1>1 DEF Request, TypeOK, workers
    <2>2. \A n \in Requested' : CheckpointOK(n)'
      <3>1. CheckpointOK(m)'
        BY <2>1 DEF CheckpointOK, Rank
      <3>2. ASSUME NEW n \in Requested', n # m PROVE CheckpointOK(n)'
        BY <2>1, <3>2 DEF CommandInv, CheckpointOK, Requested
      <3>3. QED
        BY <3>1, <3>2
    <2>3. checkpoint'[m] # NoCheckpoint
      <3>1. checkpoint'[m] \in Checkpoint
        BY <1>0, <1>1 DEF Request, TypeOK, Route, Checkpoint, MigrationState, Manifest, NoManifest, Hold
      <3>2. QED
        BY <3>1 DEF MigrationAssumption
    <2>4. ASSUME NEW v \in Workers, pc'[v] # "idle" PROVE WorkerOK(v)'
      <3>1. WorkerOK(v) /\ loaded[v].id # m
        BY <2>1, <2>4 DEF CommandInv, WorkerOK, Requested
      <3>2. \A n \in Requested : /\ checkpoint'[n] # NoCheckpoint
                                 /\ loaded[v].id = n => Older(loaded[v], checkpoint'[n])
        BY <2>1, <2>3, <3>1 DEF WorkerOK, Requested
      <3>3. QED
        BY <2>1, <2>4, <3>2, OthersKept
    <2>5. QED
      BY <1>0, <2>2, <2>4 DEF CommandInv
  <1>2. ASSUME NEW w \in Workers, Stop(w) PROVE CommandInv'
    <2>1. /\ UNCHANGED <<route, checkpoint, command>> /\ pc'[w] = "idle"
          /\ \A v \in Workers : v # w => pc'[v] = pc[v] /\ loaded'[v] = loaded[v] /\ read'[v] = read[v]
      BY <1>0, <1>2 DEF Stop, Goto, TypeOK
    <2>2. \A m \in Requested' : CheckpointOK(m)'
      BY <2>1 DEF CommandInv, Requested, CheckpointOK
    <2>3. ASSUME NEW v \in Workers, pc'[v] # "idle" PROVE WorkerOK(v)'
      <3>1. v # w /\ WorkerOK(v)
        BY <2>1, <2>3 DEF CommandInv
      <3>2. \A n \in Requested : /\ checkpoint'[n] # NoCheckpoint
                                 /\ loaded[v].id = n => Older(loaded[v], checkpoint'[n])
        BY <2>1, <3>1 DEF WorkerOK, Requested
      <3>3. QED
        BY <2>1, <2>3, <3>1, <3>2, OthersKept
    <2>4. QED
      BY <1>0, <2>2, <2>3 DEF CommandInv
  <1>3. ASSUME NEW w \in Workers, Advance(w) PROVE CommandInv'
    BY <1>0, <1>3, AdvanceKeeps
  <1>4. ASSUME NEW w \in Workers,
               \/ PlaceSourceHold(w) \/ ExportSource(w) \/ TransferObjects(w)
               \/ ImportRecords(w) \/ ImportHolds(w)
        PROVE  CommandInv'
    <2>1. /\ UNCHANGED <<route, checkpoint, command, loaded, read>>
          /\ pc[w] \in {"run", "holds"} /\ command[w] = "resume"
          /\ loaded[w].state \in {"requested", "source_hold", "exported", "transferred"}
          /\ pc'[w] \in {"advance", "holds"}
          /\ pc'[w] = "holds" => loaded[w].state = "transferred"
          /\ \A v \in Workers : v # w => pc'[v] = pc[v]
      BY <1>0, <1>4 DEF PlaceSourceHold, ExportSource, TransferObjects, ImportRecords, ImportHolds,
         Goto, At, TypeOK, CommandInv, WorkerOK, PlaceOK
    <2>2. PlaceOK(w)'
      BY <2>1, FollowingIs DEF PlaceOK
    <2>3. RouteOK(w)'
      BY <2>1 DEF RouteOK
    <2>4. QED
      BY <1>0, <2>1, <2>2, <2>3, WorkerMoves
  <1>5. ASSUME NEW w \in Workers, ReadRoute(w) PROVE CommandInv'
    <2>1. /\ UNCHANGED <<route, checkpoint, command, loaded>>
          /\ pc[w] = "run" /\ command[w] = "resume" /\ loaded[w].state = "verified"
          /\ pc'[w] \in {"advance", "cutover"} /\ read'[w] = route
          /\ pc'[w] = "cutover" => MayCutOver(loaded[w], route)
          /\ pc'[w] = "advance" => AlreadyCutOver(loaded[w], route)
          /\ \A v \in Workers : v # w => pc'[v] = pc[v] /\ read'[v] = read[v]
      BY <1>0, <1>5 DEF ReadRoute, Goto, At, TypeOK
    <2>2. PlaceOK(w)'
      BY <2>1, FollowingIs DEF PlaceOK
    <2>3. route.revision \in Nat /\ loaded[w].revision \in Nat
      BY <1>0, <2>1 DEF TypeOK, Route, CommandInv, WorkerOK, Checkpoint
    <2>4. RouteOK(w)'
      BY <2>1, <2>3 DEF RouteOK, MayCutOver, AlreadyCutOver
    <2>5. QED
      BY <1>0, <2>1, <2>2, <2>4, WorkerMoves
  <1>6. ASSUME NEW w \in Workers, ReadRouteBack(w) PROVE CommandInv'
    <2>1. /\ UNCHANGED <<route, checkpoint, command, loaded>>
          /\ pc[w] = "route" /\ pc'[w] \in {"release", "restore"} /\ read'[w] = route
          /\ pc'[w] = "restore" => MayRollBack(loaded[w], route)
          /\ pc'[w] = "release" => AlreadyRestored(loaded[w], route)
          /\ \A v \in Workers : v # w => pc'[v] = pc[v] /\ read'[v] = read[v]
      BY <1>0, <1>6 DEF ReadRouteBack, Goto, TypeOK
    <2>2. command[w] = "rollback" /\ loaded[w].state = "cutover"
      BY <2>1 DEF CommandInv, WorkerOK, PlaceOK
    <2>3. PlaceOK(w)'
      BY <2>1, <2>2 DEF PlaceOK
    <2>4. route.revision \in Nat /\ loaded[w].revision \in Nat
      BY <1>0, <2>1 DEF TypeOK, Route, CommandInv, WorkerOK, Checkpoint
    <2>5. RouteOK(w)'
      BY <2>1, <2>2, <2>4 DEF RouteOK, MayRollBack, AlreadyRestored
    <2>6. QED
      BY <1>0, <2>1, <2>3, <2>5, WorkerMoves
  <1>7. ASSUME NEW w \in Workers, CutOver(w) \/ Restore(w) PROVE CommandInv'
    BY <1>0, <1>7, SwapKeeps
  <1>8. ASSUME NEW w \in Workers, ReleaseSourceHold(w) \/ RetireContent(w) \/ RetireCreator(w)
        PROVE  CommandInv'
    <2>1. /\ UNCHANGED <<route, checkpoint, command, loaded, read>>
          /\ pc[w] \in {"release", "retire", "creator"}
          /\ pc'[w] = IF pc[w] = "retire" THEN "creator" ELSE "advance"
          /\ \A v \in Workers : v # w => pc'[v] = pc[v]
      BY <1>0, <1>8 DEF ReleaseSourceHold, RetireContent, RetireCreator, Goto, TypeOK
    <2>2. /\ command[w] = (IF pc[w] = "release" THEN "rollback" ELSE "retire")
          /\ loaded[w].state = "cutover"
          /\ pc[w] = "release" => route.revision >= loaded[w].revision + 2
      BY <2>1 DEF CommandInv, WorkerOK, PlaceOK, RouteOK
    <2>3. PlaceOK(w)'
      BY <2>1, <2>2 DEF PlaceOK
    <2>4. RouteOK(w)'
      BY <2>1, <2>2 DEF RouteOK
    <2>5. pc'[w] # "idle" /\ pc[w] # "idle"
      BY <2>1
    <2>6. QED
      BY <1>0, <2>1, <2>3, <2>4, <2>5, WorkerMoves
  <1>9. ASSUME NEW w \in Workers, NEW m \in Migrations,
               NEW what \in {"resume", "rollback", "retire"}, Begin(w, m, what)
        PROVE  CommandInv'
    <2>1. /\ UNCHANGED <<route, checkpoint>> /\ m \in Requested
          /\ what \in {"rollback", "retire"} => checkpoint[m].state = "cutover"
          /\ loaded'[w] = checkpoint[m] /\ command'[w] = what
          /\ pc'[w] = (CASE what = "resume" -> "run" [] what = "rollback" -> "route"
                         [] what = "retire" -> "retire")
          /\ \A v \in Workers : v # w => /\ pc'[v] = pc[v] /\ command'[v] = command[v]
                                         /\ loaded'[v] = loaded[v] /\ read'[v] = read[v]
      BY <1>0, <1>9 DEF Begin, Goto, TypeOK, Requested
    <2>2. \A n \in Requested' : CheckpointOK(n)'
      BY <2>1 DEF CommandInv, Requested, CheckpointOK
    <2>3. CheckpointOK(m) /\ checkpoint[m] \in Checkpoint
      BY <1>0, <2>1 DEF CommandInv, TypeOK, Requested
    <2>4. WorkerOK(w)'
      <3>1. PlaceOK(w)' /\ RouteOK(w)'
        <4>1. CASE what = "resume"
          BY <2>1, <4>1 DEF PlaceOK, RouteOK
        <4>2. CASE what = "rollback"
          BY <2>1, <4>2 DEF PlaceOK, RouteOK
        <4>3. CASE what = "retire"
          BY <2>1, <4>3 DEF PlaceOK, RouteOK
        <4>4. QED
          BY <4>1, <4>2, <4>3
      <3>2. Older(checkpoint[m], checkpoint[m])
        BY <2>3 DEF Older, Checkpoint
      <3>3. QED
        BY <2>1, <2>3, <3>1, <3>2 DEF WorkerOK, CheckpointOK, Requested
    <2>5. ASSUME NEW v \in Workers, v # w, pc'[v] # "idle" PROVE WorkerOK(v)'
      <3>1. WorkerOK(v)
        BY <2>1, <2>5 DEF CommandInv
      <3>2. \A n \in Requested : /\ checkpoint'[n] # NoCheckpoint
                                 /\ loaded[v].id = n => Older(loaded[v], checkpoint'[n])
        BY <2>1, <3>1 DEF WorkerOK, Requested
      <3>3. QED
        BY <2>1, <2>5, <3>2, OthersKept
    <2>6. QED
      BY <1>0, <2>2, <2>4, <2>5 DEF CommandInv
  <1>10. ASSUME NEW c \in Cells,
                \/ WriteAdmitted(c) \/ WriteDone(c)
                \/ \E m \in Migrations : OperatorRelease(c, m)
         PROVE  CommandInv'
    BY <1>0, <1>10, OutsideKeeps DEF WriteAdmitted, WriteDone, OperatorRelease, workers
  <1>11. CASE Tick \/ UNCHANGED vars
    BY <1>0, <1>11, OutsideKeeps DEF Tick, vars, workers
  <1>12. QED
    BY <1>1, <1>2, <1>3, <1>4, <1>5, <1>6, <1>7, <1>8, <1>9, <1>10, <1>11 DEF Next, Step

LEMMA CommandStart ==
  ASSUME MigrationAssumption, Init
  PROVE  CommandInv
  <1>1. InitialRoute \in Route /\ NoManifest \in Manifest
    BY DEF MigrationAssumption, InitialRoute, Route, Manifest, NoManifest, Hold
  <1>2. TypeOK
    BY <1>1 DEF MigrationAssumption, Init, TypeOK, Hold, Where
  <1>3. QED
    BY <1>2 DEF Init, CommandInv, Requested

-----------------------------------------------------------------------------
(* Whatever is repeated, by however many workers.                           *)

\* Routes, checkpoints, cells and workers keep their types.
THEOREM TypeCorrect ==
  ASSUME MigrationAssumption
  PROVE  Spec => []TypeOK
  <1>1. CommandInv => TypeOK
    BY DEF CommandInv
  <1>2. QED
    BY <1>1, CommandStart, CommandStep, PTL DEF Spec

\* The write of a checkpoint: from the state it was read in to the next one.
LEMMA ForwardStep ==
  ASSUME MigrationAssumption, CommandInv, [Next]_vars
  PROVE  LifecycleForward
  <1> SUFFICES ASSUME NEW m \in Requested, checkpoint'[m] # checkpoint[m]
               PROVE  /\ checkpoint'[m].updatedAt = checkpoint[m].updatedAt + 1
                      /\ checkpoint'[m].state \in Followers(checkpoint[m].state)
    BY DEF LifecycleForward
  <1>1. ASSUME NEW w \in Workers, Advance(w)
        PROVE  /\ checkpoint'[m].updatedAt = checkpoint[m].updatedAt + 1
               /\ checkpoint'[m].state \in Followers(checkpoint[m].state)
    <2>1. pc[w] = "advance" /\ WorkerOK(w)
      BY <1>1 DEF Advance, CommandInv
    <2>2. m = loaded[w].id /\ checkpoint'[m] = Advanced(w)
      BY <1>1, <2>1 DEF Advance, CommandInv, TypeOK, Requested
    <2>3. checkpoint[m] = loaded[w]
      BY <1>1, <2>1, <2>2 DEF Advance, WorkerOK, Older
    <2>4. Advanced(w).updatedAt = loaded[w].updatedAt + 1 /\ Advanced(w).state = Target(w)
      BY <2>1, AdvancedIs
    <2>5. Target(w) \in Followers(loaded[w].state)
      <3>1. CASE command[w] = "resume"
        BY <2>1, <3>1 DEF WorkerOK, PlaceOK, Target, Followers
      <3>2. CASE command[w] # "resume"
        <4>1. loaded[w].state = "cutover" /\ "cutover" \notin DOMAIN Following
          BY <2>1, <3>2, FollowingIs DEF WorkerOK, PlaceOK
        <4>2. Target(w) \in {"rolled_back", "retired"}
          BY <3>2 DEF Target, CommandInv, TypeOK
        <4>3. QED
          BY <4>1, <4>2 DEF Followers
      <3>3. QED
        BY <3>1, <3>2
    <2>6. QED
      BY <2>2, <2>3, <2>4, <2>5
  <1>2. ASSUME NEW n \in Migrations, NEW c \in Cells, Request(n, c) PROVE FALSE
    BY <1>2 DEF Request, Requested, CommandInv, TypeOK
  <1>3. CASE \/ \E w \in Workers : Stop(w) \/ (Step(w) /\ ~Advance(w))
             \/ \E w \in Workers, n \in Migrations, what \in {"resume", "rollback", "retire"} :
                  Begin(w, n, what)
             \/ \E c \in Cells : WriteAdmitted(c) \/ WriteDone(c)
             \/ \E c \in Cells, n \in Migrations : OperatorRelease(c, n)
             \/ Tick \/ UNCHANGED vars
    <2>1. checkpoint' = checkpoint
      BY <1>3 DEF Stop, Step, PlaceSourceHold, ExportSource, TransferObjects, ImportRecords,
         ImportHolds, ReadRoute, CutOver, ReadRouteBack, Restore, ReleaseSourceHold,
         RetireContent, RetireCreator, Begin, WriteAdmitted, WriteDone, OperatorRelease, Tick, vars
    <2>2. QED
      BY <2>1
  <1>4. QED
    BY <1>1, <1>2, <1>3 DEF Next, Step

\* A checkpoint only moves along its lifecycle, one write at a time, however
\* many workers act on however old copies of it (advance).
THEOREM CheckpointsGoForward ==
  ASSUME MigrationAssumption
  PROVE  Spec => [][LifecycleForward]_vars
  BY CommandStart, CommandStep, ForwardStep, PTL DEF Spec

\* A swap of the route is the one its migration was requested and verified for.
LEMMA RouteStep ==
  ASSUME MigrationAssumption, CommandInv, [Next]_vars
  PROVE  RouteMovesVerified
  <1> SUFFICES ASSUME route' # route PROVE RouteMovesVerified
    BY DEF RouteMovesVerified
  <1>1. ASSUME NEW w \in Workers, CutOver(w) \/ Restore(w) PROVE RouteMovesVerified
    <2>1. /\ pc[w] \in {"cutover", "restore"} /\ route.revision = read[w].revision
          /\ route' = Swapped(w, route'.home, route'.state)
          /\ route'.home = IF pc[w] = "cutover" THEN loaded[w].destination ELSE loaded[w].source
      BY <1>1 DEF CutOver, Restore, Current, Swapped
    <2>2. WorkerOK(w)
      BY <2>1 DEF CommandInv
    <2> DEFINE m == loaded[w].id
    <2>3. /\ m \in Requested /\ CheckpointOK(m) /\ checkpoint[m] \in Checkpoint
          /\ loaded[w] \in Checkpoint /\ Older(loaded[w], checkpoint[m])
      BY <2>2 DEF WorkerOK, CommandInv, TypeOK, Requested
    <2>4. route'.revision = route.revision + 1 /\ read[w] = route
      BY <2>1, <2>2 DEF Swapped, WorkerOK, RouteOK
    <2>5. /\ route.revision \in Nat /\ checkpoint[m].revision \in Nat
          /\ loaded[w].source = checkpoint[m].source /\ loaded[w].revision = checkpoint[m].revision
          /\ loaded[w].destination = checkpoint[m].destination
          /\ checkpoint[m].state \in MigrationState /\ loaded[w].updatedAt <= checkpoint[m].updatedAt
      BY <2>3 DEF CommandInv, TypeOK, Route, Checkpoint, Older
    <2>6. CASE pc[w] = "cutover"
      <3>1. /\ loaded[w].state = "verified" /\ loaded[w].updatedAt = 4
            /\ route.home = loaded[w].source /\ route.revision = loaded[w].revision
        BY <2>2, <2>4, <2>6 DEF WorkerOK, PlaceOK, RouteOK, Rank
      <3>2. checkpoint[m].state \notin {"cutover", "rolled_back", "retired"}
        BY <2>3, <2>5, <3>1 DEF CheckpointOK
      <3>3. checkpoint[m].state = "verified"
        BY <2>3, <2>5, <3>1, <3>2 DEF CheckpointOK, Rank, MigrationState
      <3>4. QED
        BY <2>1, <2>3, <2>4, <2>5, <2>6, <3>1, <3>3 DEF RouteMovesVerified
    <2>7. CASE pc[w] = "restore"
      <3>1. /\ loaded[w].state = "cutover" /\ loaded[w].updatedAt = 5
            /\ route.home = loaded[w].destination /\ route.revision = loaded[w].revision + 1
        BY <2>2, <2>4, <2>7 DEF WorkerOK, PlaceOK, RouteOK, Rank
      <3>2. checkpoint[m].state # "rolled_back"
        BY <2>3, <2>5, <3>1 DEF CheckpointOK
      <3>3. checkpoint[m].state \in {"cutover", "retired"}
        BY <2>3, <2>5, <3>1, <3>2 DEF CheckpointOK, Rank, MigrationState
      <3>4. QED
        BY <2>1, <2>3, <2>4, <2>5, <2>7, <3>1, <3>3 DEF RouteMovesVerified
    <2>8. QED
      BY <2>1, <2>6, <2>7
  <1>2. ASSUME NEW w \in Workers, Step(w), ~CutOver(w), ~Restore(w) PROVE FALSE
    BY <1>2 DEF Step, Advance, PlaceSourceHold, ExportSource, TransferObjects, ImportRecords,
       ImportHolds, ReadRoute, ReadRouteBack, ReleaseSourceHold, RetireContent, RetireCreator
  <1>3. CASE \/ \E w \in Workers : Stop(w)
             \/ \E n \in Migrations, c \in Cells : Request(n, c)
             \/ \E w \in Workers, n \in Migrations, what \in {"resume", "rollback", "retire"} :
                  Begin(w, n, what)
             \/ \E c \in Cells : WriteAdmitted(c) \/ WriteDone(c)
             \/ \E c \in Cells, n \in Migrations : OperatorRelease(c, n)
             \/ Tick \/ UNCHANGED vars
    BY <1>3 DEF Stop, Request, Begin, WriteAdmitted, WriteDone, OperatorRelease, Tick, vars
  <1>4. QED
    BY <1>1, <1>2, <1>3 DEF Next

\* Repeated, late and interrupted commands create no second revision of the
\* route: it moves only by a migration verified at the revision it moves from,
\* and comes back only by the rollback of that migration.
THEOREM RouteMovesOnce ==
  ASSUME MigrationAssumption
  PROVE  Spec => [][RouteMovesVerified]_vars
  BY CommandStart, CommandStep, RouteStep, PTL DEF Spec

-----------------------------------------------------------------------------
(* One migration at a time, each either rolled back or retired.             *)

Rung(cp) == Rank[cp.state]
Over(cp) == cp.state \in {"rolled_back", "retired"}

\* A command works from a checkpoint of m in which m had not ended.
AtWork(w, m) == pc[w] # "idle" /\ loaded[w].id = m /\ ~Over(loaded[w])

InPlay(m) == m \in Requested /\ (~Ended(m) \/ \E w \in Workers : AtWork(w, m))

\* How far the route is from the one the migration was requested from.
RouteAt(m) ==
  LET cp == checkpoint[m]
  IN  /\ cp.source # cp.destination
      /\ \/ route.revision = cp.revision /\ route.home = cp.source /\ Rung(cp) <= 4
         \/ route.revision = cp.revision + 1 /\ route.home = cp.destination /\ Rung(cp) >= 4
         \/ /\ route.revision = cp.revision + 2 /\ route.home = cp.source
            /\ Rung(cp) >= 5 /\ Decided(m, "rollback")

\* The source keeps the content until the migration may be retired, and the
\* destination has it before the migration is verified.
ContentAt(m) ==
  LET cp == checkpoint[m]
  IN  /\ \/ Rung(cp) <= 4
         \/ Decided(m, "rollback")
         \/ cp.state = "cutover" /\ cp.rollbackUntil > now
         => copy[cp.source] # 0
      /\ Rung(cp) >= 2 => cp.manifest.version # 0
      /\ Rung(cp) >= 4 => copy[cp.destination] # 0

\* The source is held by the migration's own hold.
HoldAt(m) ==
  LET cp == checkpoint[m]
  IN  /\ cp.state = "requested" => holds[cp.source][m] \in {"none", "active"}
      /\ UnderWay(m) /\ ~Restored(m) => holds[cp.source][m] = "active"

\* What a command has done so far, and that it was decided.
ProgressOK(w) ==
  LET cp == loaded[w]
      current == checkpoint[cp.id] = cp
  IN  /\ Decided(cp.id, command[w])
      /\ command[w] = "retire" => cp.rollbackUntil <= now
      /\ Rung(cp) >= 2 /\ ~Over(cp) => cp.manifest.version # 0
      /\ pc[w] = "advance" /\ cp.state = "requested" /\ current =>
           holds[cp.source][cp.id] = "active"
      /\ pc[w] = "advance" /\ cp.state = "source_hold" /\ current => taken[w].version # 0
      /\ pc[w] \in {"advance", "holds"} /\ cp.state = "transferred" => copy[cp.destination] # 0

\* A migration that is not requested yet has no hold anywhere.
Fresh(n) ==
  /\ \A c \in Cells : holds[c][n] = "none"
  /\ \A m \in Requested : checkpoint[m].manifest.holds[n] = "none"
  /\ \A w \in Workers : /\ taken[w].holds[n] = "none"
                        /\ pc[w] # "idle" => loaded[w].manifest.holds[n] = "none"

CarefulInv ==
  /\ \A m, n \in Migrations : InPlay(m) /\ InPlay(n) => m = n
  /\ HomeHasContent
  /\ \A m \in Migrations : InPlay(m) => RouteAt(m) /\ ContentAt(m) /\ HoldAt(m)
  /\ \A w \in Workers : pc[w] # "idle" => ProgressOK(w)
  /\ \A n \in Migrations \ Requested : Fresh(n)

-----------------------------------------------------------------------------
(* Lemmas for one migration at a time.                                      *)

\* A migration is not decided both ways.
LEMMA Decisions ==
  ASSUME NEW m \in Nat
  PROVE  Decided(m, "resume") /\ ~(Decided(m, "rollback") /\ Decided(m, "retire"))
  BY DEF Decided

\* What is known of the migration a command works on.
LEMMA WorkIs ==
  ASSUME MigrationAssumption, CommandInv, CarefulInv, NEW w \in Workers,
         pc[w] # "idle", ~Over(loaded[w])
  PROVE  LET m == loaded[w].id
         IN  /\ m \in Migrations /\ m \in Nat /\ m \in Requested
             /\ checkpoint[m] \in Checkpoint /\ checkpoint[m].id = m
             /\ checkpoint[m].source = loaded[w].source
             /\ checkpoint[m].destination = loaded[w].destination
             /\ checkpoint[m].revision = loaded[w].revision
             /\ checkpoint[m].source \in Cells /\ checkpoint[m].destination \in Cells
             /\ loaded[w] \in Checkpoint
             /\ Rung(loaded[w]) <= Rung(checkpoint[m])
             /\ Rung(loaded[w]) = Rung(checkpoint[m]) => checkpoint[m] = loaded[w]
             /\ InPlay(m) /\ RouteAt(m) /\ ContentAt(m) /\ HoldAt(m)
             /\ \A n \in Migrations : InPlay(n) => n = m
             /\ \A v \in Workers : pc[v] # "idle" => Over(loaded[v]) \/ loaded[v].id = m
  <1> DEFINE m == loaded[w].id
  <1>1. WorkerOK(w)
    BY DEF CommandInv
  <1>2. m \in Migrations /\ m \in Requested /\ loaded[w] \in Checkpoint /\ CheckpointOK(m)
    BY <1>1 DEF WorkerOK, Requested, CommandInv
  <1>3. checkpoint[m] \in Checkpoint
    BY <1>2 DEF Requested, CommandInv, TypeOK
  <1>4. /\ checkpoint[m].source = loaded[w].source
        /\ checkpoint[m].destination = loaded[w].destination
        /\ checkpoint[m].revision = loaded[w].revision
        /\ Rung(loaded[w]) <= Rung(checkpoint[m])
        /\ Rung(loaded[w]) = Rung(checkpoint[m]) => checkpoint[m] = loaded[w]
    BY <1>1, <1>2 DEF WorkerOK, Older, CheckpointOK, Rung
  <1>5. InPlay(m)
    BY <1>2 DEF InPlay, AtWork
  <1>6. ASSUME NEW v \in Workers, pc[v] # "idle", ~Over(loaded[v]) PROVE loaded[v].id = m
    <2>1. WorkerOK(v)
      BY <1>6 DEF CommandInv
    <2>2. loaded[v].id \in Requested /\ loaded[v].id \in Migrations
      BY <2>1 DEF WorkerOK, Requested
    <2>3. InPlay(loaded[v].id)
      BY <1>6, <2>2 DEF InPlay, AtWork
    <2>4. QED
      BY <1>2, <1>5, <2>2, <2>3 DEF CarefulInv
  <1>7. /\ m \in Nat /\ checkpoint[m].source \in Cells /\ checkpoint[m].destination \in Cells
        /\ checkpoint[m].id = m
    BY <1>2, <1>3 DEF MigrationAssumption, Checkpoint, CheckpointOK
  <1>8. RouteAt(m) /\ ContentAt(m) /\ HoldAt(m) /\ \A n \in Migrations : InPlay(n) => n = m
    BY <1>2, <1>5 DEF CarefulInv
  <1>9. QED
    BY <1>2, <1>3, <1>4, <1>5, <1>6, <1>7, <1>8

\* How far each state is.
LEMMA Rungs ==
  ASSUME NEW cp \in Checkpoint
  PROVE  /\ Rung(cp) \in 0..6
         /\ Rung(cp) = 0 <=> cp.state = "requested"
         /\ Rung(cp) = 1 <=> cp.state = "source_hold"
         /\ Rung(cp) = 2 <=> cp.state = "exported"
         /\ Rung(cp) = 3 <=> cp.state = "transferred"
         /\ Rung(cp) = 4 <=> cp.state = "verified"
         /\ Rung(cp) = 5 <=> cp.state = "cutover"
         /\ Rung(cp) = 6 <=> Over(cp)
  <1>1. cp.state \in MigrationState
    BY DEF Checkpoint
  <1>2. QED
    BY <1>1 DEF MigrationState, Rung, Rank, Over

\* A step of one worker on the cells alone.  It takes content only from a source
\* that is retired, and the migration's hold only from there or when the route is back.
LEMMA CellsMove ==
  ASSUME MigrationAssumption, CommandInv, CarefulInv, CommandInv', NEW w \in Workers,
         pc[w] # "idle", pc'[w] # "idle", ~Over(loaded[w]),
         UNCHANGED <<route, checkpoint, command, loaded, now>>,
         \A v \in Workers : v # w => pc'[v] = pc[v] /\ taken'[v] = taken[v],
         NEW retiring \in BOOLEAN,
         retiring => command[w] = "retire" /\ loaded[w].state = "cutover",
         \A c \in Cells : copy[c] # 0 => copy'[c] # 0 \/ (retiring /\ c = loaded[w].source),
         LET before == holds[loaded[w].source][loaded[w].id]
             after == holds'[loaded[w].source][loaded[w].id]
         IN  \/ after = before
             \/ before = "none" /\ after = "active"
             \/ retiring
             \/ route.revision >= loaded[w].revision + 2,
         ProgressOK(w)',
         \A n \in Migrations \ Requested :
           taken'[w].holds[n] = "none" /\ \A c \in Cells : holds'[c][n] = "none"
  PROVE  CarefulInv'
  <1> DEFINE m == loaded[w].id
             cp == checkpoint[m]
  <1>1. /\ m \in Migrations /\ m \in Nat /\ m \in Requested
        /\ cp \in Checkpoint /\ cp.id = m
        /\ cp.source = loaded[w].source /\ cp.destination = loaded[w].destination
        /\ cp.revision = loaded[w].revision
        /\ cp.source \in Cells /\ cp.destination \in Cells /\ loaded[w] \in Checkpoint
        /\ Rung(loaded[w]) <= Rung(cp)
        /\ Rung(loaded[w]) = Rung(cp) => cp = loaded[w]
        /\ InPlay(m) /\ RouteAt(m) /\ ContentAt(m) /\ HoldAt(m)
        /\ \A n \in Migrations : InPlay(n) => n = m
        /\ \A v \in Workers : pc[v] # "idle" => Over(loaded[v]) \/ loaded[v].id = m
    BY WorkIs
  <1>2. /\ route.home \in Cells /\ route.revision \in Nat /\ cp.revision \in Nat
        /\ cp.rollbackUntil \in Nat /\ now \in Nat /\ ProgressOK(w)
    BY <1>1 DEF CommandInv, TypeOK, Route, Checkpoint, CarefulInv
  <1>3. Rung(cp) \in 0..6 /\ Rung(loaded[w]) \in 0..6
    BY <1>1, Rungs
  <1>4. retiring => /\ Rung(cp) >= 5 /\ ~Decided(m, "rollback")
                    /\ cp.state = "cutover" => cp.rollbackUntil <= now
    <2> SUFFICES ASSUME retiring
                 PROVE  /\ Rung(cp) >= 5 /\ ~Decided(m, "rollback")
                        /\ cp.state = "cutover" => cp.rollbackUntil <= now
      OBVIOUS
    <2>1. Rung(loaded[w]) = 5 /\ (cp.state = "cutover" => Rung(cp) = 5)
      BY <1>1, Rungs
    <2>2. ~Decided(m, "rollback") /\ loaded[w].rollbackUntil <= now
      BY <1>1, <1>2, Decisions DEF ProgressOK
    <2>3. QED
      BY <1>1, <1>3, <2>1, <2>2
  <1>5. \A n \in Migrations : InPlay(n)' => n = m
    BY <1>1 DEF InPlay, AtWork, Requested, Ended
  <1>6. HomeHasContent'
    BY <1>1, <1>2, <1>3, <1>4 DEF RouteAt, HomeHasContent, CarefulInv
  <1>7. RouteAt(m)'
    BY <1>1 DEF RouteAt
  <1>8. ContentAt(m)'
    BY <1>1, <1>2, <1>3, <1>4 DEF ContentAt, RouteAt
  <1>9. HoldAt(m)'
    <2>1. cp.state = "requested" => Rung(cp) = 0
      BY <1>1, Rungs
    <2>2. UnderWay(m) => Rung(cp) \in 1..4 \/ (cp.state = "cutover" /\ cp.rollbackUntil > now)
      BY <1>1, Rungs DEF UnderWay
    <2>3. cp.state = "requested" => route.revision = cp.revision
      BY <1>1, <1>2, <2>1 DEF RouteAt
    <2>4. cp.state = "requested" => holds'[cp.source][m] \in {"none", "active"}
      BY <1>1, <1>2, <1>4, <2>1, <2>3 DEF HoldAt
    <2>5. UnderWay(m) /\ ~Restored(m) => holds'[cp.source][m] = "active"
      BY <1>1, <1>2, <1>3, <1>4, <2>2 DEF HoldAt, Restored
    <2>6. QED
      BY <2>4, <2>5 DEF HoldAt, UnderWay, Restored
  <1>10. ASSUME NEW v \in Workers, pc'[v] # "idle" PROVE ProgressOK(v)'
    <2>1. CASE v = w
      BY <2>1
    <2>2. CASE v # w
      <3>1. pc[v] # "idle" /\ ProgressOK(v)
        BY <1>10, <2>2 DEF CarefulInv
      <3>2. CASE Over(loaded[v])
        BY <2>2, <3>1, <3>2 DEF ProgressOK, Over
      <3>3. CASE ~Over(loaded[v])
        <4>1. /\ loaded[v].id = m /\ loaded[v].source = cp.source
              /\ loaded[v].destination = cp.destination /\ loaded[v] \in Checkpoint
          BY <1>1, <3>1, <3>3, WorkIs, SMTT(20)
        <4>2. copy[cp.destination] # 0 => copy'[cp.destination] # 0
          BY <1>1, <1>2 DEF RouteAt
        <4>3. ASSUME cp = loaded[v], loaded[v].state = "requested", holds[cp.source][m] = "active"
              PROVE  holds'[cp.source][m] = "active"
          <5>1. Rung(cp) = 0
            BY <4>1, <4>3, Rungs
          <5>2. route.revision = cp.revision
            BY <1>1, <1>2, <5>1 DEF RouteAt
          <5>3. QED
            BY <1>1, <1>2, <1>4, <4>3, <5>1, <5>2
        <4>4. QED
          BY <2>2, <3>1, <4>1, <4>2, <4>3 DEF ProgressOK
      <3>4. QED
        BY <3>2, <3>3
    <2>3. QED
      BY <2>1, <2>2
  <1>11. ASSUME NEW n \in Migrations \ Requested' PROVE Fresh(n)'
    <2>1. n \in Migrations \ Requested /\ Fresh(n)
      BY <1>11 DEF Requested, CarefulInv
    <2>2. \A v \in Workers : /\ taken'[v].holds[n] = "none"
                             /\ pc'[v] # "idle" => loaded'[v].manifest.holds[n] = "none"
      BY <2>1 DEF Fresh
    <2>3. QED
      BY <2>1, <2>2 DEF Fresh, Requested
  <1>12. QED
    BY <1>5, <1>6, <1>7, <1>8, <1>9, <1>10, <1>11 DEF CarefulInv

-----------------------------------------------------------------------------
(* The steps of a command.                                                  *)

\* A step of resume() up to the import, or of rollback() and retire() on the cells.
LEMMA CellsStep ==
  ASSUME MigrationAssumption, CommandInv, CarefulInv, CommandInv', NEW w \in Workers,
         \/ PlaceSourceHold(w) \/ ExportSource(w) \/ TransferObjects(w)
         \/ ImportRecords(w) \/ ImportHolds(w) \/ ReadRoute(w) \/ ReadRouteBack(w)
         \/ ReleaseSourceHold(w) \/ RetireContent(w) \/ RetireCreator(w)
  PROVE  CarefulInv'
  <1> DEFINE m == loaded[w].id
             cp == checkpoint[m]
             before == holds[loaded[w].source][m]
             after == holds'[loaded[w].source][m]
  <1>1. /\ pc[w] # "idle" /\ pc'[w] # "idle" /\ ~Over(loaded[w])
        /\ UNCHANGED <<route, checkpoint, command, loaded, now>>
        /\ \A v \in Workers : v # w => pc'[v] = pc[v] /\ taken'[v] = taken[v]
    <2>1. TypeOK /\ (pc[w] # "idle" => PlaceOK(w))
      BY DEF CommandInv, WorkerOK
    <2>2. CASE PlaceSourceHold(w) \/ ExportSource(w) \/ TransferObjects(w)
               \/ ImportRecords(w) \/ ReadRoute(w)
      BY <2>1, <2>2 DEF PlaceSourceHold, ExportSource, TransferObjects, ImportRecords, ReadRoute,
         At, Goto, Over, TypeOK, cells
    <2>3. CASE ImportHolds(w) \/ ReadRouteBack(w) \/ ReleaseSourceHold(w)
               \/ RetireContent(w) \/ RetireCreator(w)
      BY <2>1, <2>3 DEF ImportHolds, ReadRouteBack, ReleaseSourceHold, RetireContent, RetireCreator,
         PlaceOK, Goto, Over, TypeOK, cells
    <2>4. QED
      BY <2>2, <2>3
  <1>2. /\ m \in Migrations /\ m \in Requested
        /\ cp \in Checkpoint /\ loaded[w] \in Checkpoint
        /\ cp.source = loaded[w].source /\ cp.destination = loaded[w].destination
        /\ cp.source \in Cells /\ cp.destination \in Cells
        /\ Rung(loaded[w]) = Rung(cp) => cp = loaded[w]
        /\ RouteAt(m) /\ ContentAt(m) /\ HoldAt(m)
    BY <1>1, WorkIs
  <1>3. ProgressOK(w) /\ PlaceOK(w) /\ RouteOK(w) /\ TypeOK
    BY <1>1 DEF CarefulInv, CommandInv, WorkerOK
  <1>4. \A n \in Migrations \ Requested :
          /\ Fresh(n) /\ n # m
          /\ loaded[w].manifest.holds[n] = "none"
    BY <1>1, <1>2 DEF CarefulInv, Fresh
  <1>5. ASSUME NEW retiring \in BOOLEAN,
               retiring => command[w] = "retire" /\ loaded[w].state = "cutover",
               \A c \in Cells : copy[c] # 0 => copy'[c] # 0 \/ (retiring /\ c = loaded[w].source),
               \/ after = before
               \/ before = "none" /\ after = "active"
               \/ retiring
               \/ route.revision >= loaded[w].revision + 2,
               ProgressOK(w)',
               \A n \in Migrations \ Requested :
                 taken'[w].holds[n] = "none" /\ \A c \in Cells : holds'[c][n] = "none"
        PROVE  CarefulInv'
    BY <1>1, <1>5, CellsMove
  <1> HIDE DEF before, after
  <1>6. CASE PlaceSourceHold(w)
    <2>1. /\ loaded[w].state = "requested" /\ pc'[w] = "advance" /\ UNCHANGED <<copy, taken>>
          /\ \A c \in Cells, n \in Migrations :
               holds'[c][n] = IF c = loaded[w].source /\ n = m /\ holds[c][n] = "none"
                              THEN "active" ELSE holds[c][n]
      BY <1>2, <1>3, <1>6 DEF PlaceSourceHold, At, Goto, TypeOK
    <2>2. after = IF before = "none" THEN "active" ELSE before
      BY <1>2, <2>1 DEF before, after
    <2>3. cp = loaded[w] => before \in {"none", "active"}
      BY <1>2, <2>1 DEF HoldAt, before
    <2>4. ProgressOK(w)'
      BY <1>1, <1>3, <2>1, <2>2, <2>3 DEF ProgressOK, after
    <2>5. \A n \in Migrations \ Requested :
            taken'[w].holds[n] = "none" /\ \A c \in Cells : holds'[c][n] = "none"
      BY <1>4, <2>1 DEF Fresh
    <2>6. QED
      BY <1>5, <2>1, <2>2, <2>4, <2>5
  <1>7. CASE ExportSource(w)
    <2>1. /\ loaded[w].state = "source_hold" /\ pc'[w] = "advance" /\ UNCHANGED <<copy, holds>>
          /\ taken'[w].version = copy[loaded[w].source] /\ taken'[w].holds = holds[loaded[w].source]
      BY <1>3, <1>7 DEF ExportSource, At, Goto, TypeOK, cells
    <2>2. Rung(loaded[w]) = 1 /\ (cp = loaded[w] => taken'[w].version # 0)
      BY <1>2, <2>1, Rungs DEF ContentAt
    <2>3. ProgressOK(w)'
      BY <1>1, <1>3, <2>1, <2>2 DEF ProgressOK
    <2>4. \A n \in Migrations \ Requested :
            taken'[w].holds[n] = "none" /\ \A c \in Cells : holds'[c][n] = "none"
      BY <1>2, <1>4, <2>1 DEF Fresh
    <2>5. QED
      BY <1>5, <2>1, <2>3, <2>4 DEF before, after
  <1>8. CASE TransferObjects(w) \/ ReadRoute(w) \/ ReadRouteBack(w)
    <2>1. /\ UNCHANGED <<copy, holds, taken>>
          /\ pc'[w] = "advance" => loaded[w].state \in {"exported", "verified"}
          /\ pc'[w] # "holds"
      BY <1>3, <1>8 DEF TransferObjects, ReadRoute, ReadRouteBack, At, Goto, TypeOK, cells
    <2>2. ProgressOK(w)'
      BY <1>1, <1>3, <2>1 DEF ProgressOK
    <2>3. \A n \in Migrations \ Requested :
            taken'[w].holds[n] = "none" /\ \A c \in Cells : holds'[c][n] = "none"
      BY <1>4, <2>1 DEF Fresh
    <2>4. QED
      BY <1>5, <2>1, <2>2, <2>3 DEF before, after
  <1>9. CASE ImportRecords(w)
    <2>1. /\ loaded[w].state = "transferred" /\ pc'[w] = "holds" /\ UNCHANGED <<holds, taken>>
          /\ \A c \in Cells : copy'[c] = IF c = loaded[w].destination /\ copy[c] = 0
                                         THEN loaded[w].manifest.version ELSE copy[c]
      BY <1>2, <1>3, <1>9 DEF ImportRecords, At, Goto, TypeOK
    <2>2. Rung(loaded[w]) = 3 /\ loaded[w].manifest.version # 0
      BY <1>1, <1>2, <1>3, <2>1, Rungs DEF ProgressOK
    <2>3. ProgressOK(w)'
      BY <1>1, <1>2, <1>3, <2>1, <2>2 DEF ProgressOK
    <2>4. \A n \in Migrations \ Requested :
            taken'[w].holds[n] = "none" /\ \A c \in Cells : holds'[c][n] = "none"
      BY <1>4, <2>1 DEF Fresh
    <2>5. QED
      BY <1>5, <2>1, <2>3, <2>4 DEF before, after
  <1>10. CASE ImportHolds(w)
    <2>1. /\ pc[w] = "holds" /\ pc'[w] = "advance" /\ UNCHANGED <<copy, taken>>
          /\ \A c \in Cells, n \in Migrations :
               holds'[c][n] = IF c = loaded[w].destination /\ holds[c][n] = "none"
                              THEN loaded[w].manifest.holds[n] ELSE holds[c][n]
      BY <1>2, <1>3, <1>10 DEF ImportHolds, Goto, TypeOK
    <2>2. loaded[w].state = "transferred"
      BY <1>3, <2>1 DEF PlaceOK
    <2>3. ProgressOK(w)'
      BY <1>1, <1>3, <2>1, <2>2 DEF ProgressOK
    <2>4. \A n \in Migrations \ Requested :
            taken'[w].holds[n] = "none" /\ \A c \in Cells : holds'[c][n] = "none"
      BY <1>4, <2>1 DEF Fresh
    <2>5. after = before
      BY <1>2, <2>1 DEF RouteAt, before, after
    <2>6. QED
      BY <1>5, <2>1, <2>3, <2>4, <2>5
  <1>11. CASE ReleaseSourceHold(w)
    <2>1. /\ pc[w] = "release" /\ pc'[w] = "advance" /\ UNCHANGED <<copy, taken>>
          /\ \A c \in Cells, n \in Migrations :
               holds'[c][n] = IF c = loaded[w].source /\ n = m /\ holds[c][n] = "active"
                              THEN "released" ELSE holds[c][n]
      BY <1>2, <1>3, <1>11 DEF ReleaseSourceHold, Goto, TypeOK
    <2>2. loaded[w].state = "cutover" /\ route.revision >= loaded[w].revision + 2
      BY <1>3, <2>1 DEF PlaceOK, RouteOK
    <2>3. ProgressOK(w)'
      BY <1>1, <1>3, <2>1, <2>2 DEF ProgressOK
    <2>4. \A n \in Migrations \ Requested :
            taken'[w].holds[n] = "none" /\ \A c \in Cells : holds'[c][n] = "none"
      BY <1>4, <2>1 DEF Fresh
    <2>5. QED
      BY <1>5, <2>1, <2>2, <2>3, <2>4
  <1>12. CASE RetireContent(w)
    <2>1. /\ pc[w] = "retire" /\ pc'[w] = "creator" /\ UNCHANGED taken
          /\ \A c \in Cells : c # loaded[w].source => copy'[c] = copy[c]
          /\ \A c \in Cells, n \in Migrations :
               holds'[c][n] = IF c = loaded[w].source THEN "none" ELSE holds[c][n]
      BY <1>2, <1>3, <1>12 DEF RetireContent, Goto, TypeOK
    <2>2. loaded[w].state = "cutover" /\ command[w] = "retire"
      BY <1>3, <2>1 DEF PlaceOK
    <2>3. ProgressOK(w)'
      BY <1>1, <1>3, <2>1, <2>2 DEF ProgressOK
    <2>4. \A n \in Migrations \ Requested :
            taken'[w].holds[n] = "none" /\ \A c \in Cells : holds'[c][n] = "none"
      BY <1>4, <2>1 DEF Fresh
    <2>5. QED
      BY <1>5, <2>1, <2>2, <2>3, <2>4
  <1>13. CASE RetireCreator(w)
    <2>1. pc[w] = "creator" /\ pc'[w] = "advance" /\ UNCHANGED <<copy, holds, taken>>
      BY <1>3, <1>13 DEF RetireCreator, Goto, TypeOK
    <2>2. loaded[w].state = "cutover"
      BY <1>3, <2>1 DEF PlaceOK
    <2>3. ProgressOK(w)'
      BY <1>1, <1>3, <2>1, <2>2 DEF ProgressOK
    <2>4. \A n \in Migrations \ Requested :
            taken'[w].holds[n] = "none" /\ \A c \in Cells : holds'[c][n] = "none"
      BY <1>4, <2>1 DEF Fresh
    <2>5. QED
      BY <1>5, <2>1, <2>3, <2>4 DEF before, after
  <1>14. QED
    BY <1>6, <1>7, <1>8, <1>9, <1>10, <1>11, <1>12, <1>13

\* The write of a checkpoint takes the migration one rung up, and leaves behind
\* every other copy of the checkpoint that was current.
LEMMA WriteStep ==
  ASSUME MigrationAssumption, CommandInv, CarefulInv, CommandInv', NEW w \in Workers, Advance(w)
  PROVE  CarefulInv'
  <1>0. PICK m \in Migrations : m = loaded[w].id
    BY DEF Advance, CommandInv, WorkerOK, Requested
  <1> DEFINE cp == checkpoint[m]
             new == Advanced(w)
  <1>1. /\ pc[w] = "advance" /\ pc'[w] = "run" /\ cp.updatedAt = loaded[w].updatedAt
        /\ UNCHANGED <<route, holds, copy, now, command, taken>>
        /\ \A v \in Workers : v # w => pc'[v] = pc[v] /\ loaded'[v] = loaded[v]
        /\ loaded'[w] = new
    BY <1>0 DEF Advance, Goto, CommandInv, TypeOK, cells
  <1>2. TypeOK /\ WorkerOK(w) /\ ProgressOK(w) /\ m \in Requested
    BY <1>0, <1>1 DEF CommandInv, CarefulInv, WorkerOK
  <1>3. loaded[w].state \notin {"rolled_back", "retired"}
    BY <1>1, <1>2, FollowingIs DEF WorkerOK, PlaceOK
  <1>4. /\ m \in Migrations /\ m \in Nat /\ cp \in Checkpoint /\ loaded[w] \in Checkpoint
        /\ cp.source \in Cells /\ cp.destination \in Cells
        /\ RouteAt(m) /\ ContentAt(m) /\ HoldAt(m)
        /\ \A n \in Migrations : InPlay(n) => n = m
        /\ \A v \in Workers : pc[v] # "idle" => Over(loaded[v]) \/ loaded[v].id = m
    BY <1>0, <1>1, <1>3, WorkIs DEF Over
  <1>5. cp = loaded[w]
    BY <1>0, <1>1, <1>2 DEF WorkerOK, Older
  <1>6. /\ new \in Checkpoint /\ new.id = m /\ new.source = cp.source
        /\ new.revision = cp.revision /\ new.destination = cp.destination
        /\ new.state = Target(w) /\ Rung(new) = Rung(cp) + 1
        /\ new.updatedAt = cp.updatedAt + 1
        /\ new.manifest = (IF Target(w) = "exported" THEN taken[w] ELSE cp.manifest)
        /\ new.rollbackUntil = (IF Target(w) = "cutover" THEN now + Window ELSE cp.rollbackUntil)
    BY <1>0, <1>1, <1>2, <1>5, AdvancedIs DEF WorkerOK, Rung
  <1>7. /\ command[w] = "resume" => Target(w) = Following[cp.state] /\ cp.state \in DOMAIN Following
        /\ command[w] = "rollback" => Target(w) = "rolled_back" /\ cp.state = "cutover"
        /\ command[w] = "retire" => Target(w) = "retired" /\ cp.state = "cutover"
        /\ command[w] \in {"resume", "rollback", "retire"}
    BY <1>1, <1>2, <1>5 DEF Target, WorkerOK, PlaceOK, TypeOK
  <1>8. \A n \in Migrations : checkpoint'[n] = IF n = m THEN new ELSE checkpoint[n]
    BY <1>0, <1>2, <1>4 DEF Advance, TypeOK
  <1>9. Requested' = Requested /\ NoCheckpoint # new
    <2>1. NoCheckpoint # new /\ checkpoint[m] # NoCheckpoint
      BY <1>4, <1>6 DEF MigrationAssumption
    <2> HIDE DEF cp, new
    <2>2. \A n \in Migrations : checkpoint'[n] # NoCheckpoint <=> checkpoint[n] # NoCheckpoint
      BY <1>8, <2>1
    <2>3. QED
      BY <2>1, <2>2 DEF Requested
  <1>10. /\ Rung(cp) \in 0..6 /\ Rung(new) \in 0..6 /\ Rung(cp) <= 5
         /\ route.revision \in Nat /\ cp.revision \in Nat /\ now \in Nat
         /\ cp.rollbackUntil \in Nat /\ route.home \in Cells
    BY <1>2, <1>4, <1>6, Rungs DEF TypeOK, Route, Checkpoint
  <1>11. InPlay(m)
    BY <1>0, <1>1, <1>2, <1>3, <1>4 DEF InPlay, AtWork, Over
  <1>12. \A n \in Migrations : InPlay(n)' => n = m
    <2> SUFFICES ASSUME NEW n \in Migrations, InPlay(n)', n # m PROVE FALSE
      OBVIOUS
    <2>1. InPlay(n)
      BY <1>1, <1>6, <1>8, <1>9 DEF InPlay, AtWork, Ended, Over
    <2>2. QED
      BY <1>4, <2>1
  <1>13. HomeHasContent'
    BY <1>1 DEF HomeHasContent, CarefulInv
  <1>14. Rung(cp) = 4 => route.revision > cp.revision
    BY <1>1, <1>2, <1>4, <1>5, Rungs DEF WorkerOK, RouteOK
  <1>15. RouteAt(m)'
    BY <1>1, <1>4, <1>6, <1>8, <1>10, <1>14 DEF RouteAt
  <1>16. /\ Rung(new) = 2 <=> Target(w) = "exported"
         /\ Rung(new) = 5 <=> Target(w) = "cutover"
         /\ Rung(cp) = 5 <=> cp.state = "cutover"
         /\ Rung(cp) = 1 <=> cp.state = "source_hold"
         /\ Rung(cp) = 3 <=> cp.state = "transferred"
         /\ Rung(cp) = 0 <=> cp.state = "requested"
         /\ new.state = "source_hold" <=> Rung(new) = 1
         /\ new.state = "requested" <=> Rung(new) = 0
         /\ UnderWay(m) <=> Rung(cp) \in 1..4 \/ (Rung(cp) = 5 /\ cp.rollbackUntil > now)
    BY <1>4, <1>6, Rungs DEF UnderWay
  <1>17. Rung(new) >= 2 => new.manifest.version # 0
    BY <1>0, <1>1, <1>2, <1>4, <1>5, <1>6, <1>10, <1>16 DEF ProgressOK, ContentAt
  <1>18. ContentAt(m)'
    <2>1. Rung(new) >= 4 => copy[cp.destination] # 0
      BY <1>0, <1>1, <1>2, <1>4, <1>5, <1>6, <1>10, <1>16 DEF ProgressOK, ContentAt
    <2>2. \/ Rung(new) <= 4
          \/ Decided(m, "rollback")
          \/ new.state = "cutover" /\ new.rollbackUntil > now
          => copy[cp.source] # 0
      BY <1>4, <1>6, <1>10, <1>16 DEF ContentAt
    <2>3. QED
      BY <1>1, <1>6, <1>8, <1>17, <2>1, <2>2 DEF ContentAt
  <1>19. HoldAt(m)'
    <2>1. Rung(new) = 1 => holds[cp.source][m] = "active"
      BY <1>0, <1>1, <1>2, <1>5, <1>6, <1>10, <1>16 DEF ProgressOK
    <2>2. UnderWay(m)' => Rung(new) \in 1..5
      BY <1>1, <1>4, <1>6, <1>8, Rungs DEF UnderWay
    <2>3. Rung(new) \in 2..5 /\ ~Restored(m) => holds[cp.source][m] = "active"
      BY <1>4, <1>6, <1>10, <1>16 DEF HoldAt
    <2>4. Restored(m)' <=> Restored(m)
      BY <1>1, <1>4, <1>6, <1>8 DEF Restored
    <2>5. checkpoint'[m].state # "requested" /\ checkpoint'[m].source = cp.source
      BY <1>6, <1>8, <1>10, <1>16, <1>4
    <2>6. UnderWay(m)' /\ ~Restored(m)' => holds'[cp.source][m] = "active"
      BY <1>1, <1>10, <2>1, <2>2, <2>3, <2>4
    <2>7. QED
      BY <2>5, <2>6 DEF HoldAt
  <1>20. ASSUME NEW v \in Workers, pc'[v] # "idle" PROVE ProgressOK(v)'
    <2>1. CASE v = w
      <3>1. Decided(new.id, command'[w])
        BY <1>0, <1>1, <1>2, <1>6 DEF ProgressOK
      <3>2. command'[w] = "retire" => new.rollbackUntil <= now'
        BY <1>0, <1>1, <1>2, <1>5, <1>6, <1>7 DEF ProgressOK
      <3>3. QED
        BY <1>1, <1>17, <2>1, <3>1, <3>2 DEF ProgressOK
    <2>2. CASE v # w
      <3>1. /\ pc[v] # "idle" /\ pc'[v] = pc[v] /\ loaded'[v] = loaded[v]
            /\ ProgressOK(v) /\ WorkerOK(v)
        BY <1>1, <1>20, <2>2 DEF CarefulInv, CommandInv
      <3>2. checkpoint'[loaded[v].id] = loaded[v] => checkpoint[loaded[v].id] = loaded[v]
        <4>1. loaded[v] \in Checkpoint /\ loaded[v].id \in Migrations
          BY <3>1 DEF WorkerOK, Requested
        <4>2. loaded[v].id = m => loaded[v] # new
          <5>1. loaded[v].id = m => loaded[v].updatedAt <= cp.updatedAt
            BY <3>1 DEF WorkerOK, Older
          <5>2. QED
            BY <1>4, <1>6, <4>1, <5>1 DEF Checkpoint
        <4>3. QED
          BY <1>8, <4>1, <4>2
      <3>3. QED
        BY <1>1, <3>1, <3>2 DEF ProgressOK
    <2>3. QED
      BY <2>1, <2>2
  <1>21. ASSUME NEW n \in Migrations \ Requested' PROVE Fresh(n)'
    <2>1. n \in Migrations \ Requested /\ Fresh(n)
      BY <1>9, <1>21 DEF CarefulInv
    <2>2. new.manifest.holds[n] = "none"
      BY <1>2, <1>6, <2>1 DEF Fresh
    <2>3. QED
      BY <1>1, <1>8, <1>9, <2>1, <2>2 DEF Fresh, Requested
  <1>22. QED
    BY <1>12, <1>13, <1>15, <1>18, <1>19, <1>20, <1>21 DEF CarefulInv

\* The route goes where the content is: to the destination of a verified
\* migration, back to a source that is not to be retired.
LEMMA SwapStep ==
  ASSUME MigrationAssumption, CommandInv, CarefulInv, CommandInv', NEW w \in Workers,
         CutOver(w) \/ Restore(w)
  PROVE  CarefulInv'
  <1>0. PICK m \in Migrations : m = loaded[w].id
    BY DEF CutOver, Restore, CommandInv, WorkerOK, Requested
  <1> DEFINE cp == checkpoint[m]
  <1>1. /\ pc[w] \in {"cutover", "restore"} /\ route.revision = read[w].revision
        /\ route' = Swapped(w, route'.home, route'.state)
        /\ route'.home = IF pc[w] = "cutover" THEN loaded[w].destination ELSE loaded[w].source
        /\ UNCHANGED <<checkpoint, holds, copy, now, command, loaded, taken>>
        /\ pc'[w] \in {"advance", "release"}
        /\ \A v \in Workers : v # w => pc'[v] = pc[v]
    BY DEF CutOver, Restore, Current, Swapped, Goto, CommandInv, TypeOK, cells
  <1>2. TypeOK /\ WorkerOK(w) /\ ProgressOK(w)
    BY <1>1 DEF CommandInv, CarefulInv
  <1>3. /\ pc[w] = "cutover" => loaded[w].state = "verified"
        /\ pc[w] = "restore" => loaded[w].state = "cutover" /\ command[w] = "rollback"
        /\ read[w] = route /\ route'.revision = route.revision + 1
        /\ pc[w] = "cutover" => route.home = loaded[w].source /\ route.revision = loaded[w].revision
        /\ pc[w] = "restore" =>
             route.home = loaded[w].destination /\ route.revision = loaded[w].revision + 1
    BY <1>1, <1>2 DEF WorkerOK, PlaceOK, RouteOK, Swapped
  <1>4. /\ m \in Migrations /\ cp \in Checkpoint /\ loaded[w] \in Checkpoint
        /\ cp.source = loaded[w].source /\ cp.destination = loaded[w].destination
        /\ cp.revision = loaded[w].revision
        /\ cp.source \in Cells /\ cp.destination \in Cells
        /\ Rung(loaded[w]) <= Rung(cp)
        /\ RouteAt(m) /\ ContentAt(m) /\ HoldAt(m)
        /\ \A n \in Migrations : InPlay(n) => n = m
    BY <1>0, <1>1, <1>3, WorkIs DEF Over
  <1>5. /\ Rung(cp) \in 0..6 /\ route.revision \in Nat /\ cp.revision \in Nat
        /\ pc[w] = "cutover" => Rung(cp) >= 4
        /\ pc[w] = "restore" => Rung(cp) >= 5 /\ Decided(m, "rollback")
    BY <1>0, <1>2, <1>3, <1>4, Rungs DEF TypeOK, Route, Checkpoint, ProgressOK
  <1>6. \A n \in Migrations : InPlay(n)' => n = m
    BY <1>1, <1>4 DEF InPlay, AtWork, Requested, Ended
  <1>7. RouteAt(m)'
    BY <1>1, <1>3, <1>4, <1>5 DEF RouteAt
  <1>8. HomeHasContent'
    BY <1>1, <1>4, <1>5 DEF HomeHasContent, ContentAt
  <1>9. ContentAt(m)' /\ HoldAt(m)'
    BY <1>1, <1>3, <1>4, <1>5 DEF ContentAt, HoldAt, UnderWay, Restored
  <1>10. ASSUME NEW v \in Workers, pc'[v] # "idle" PROVE ProgressOK(v)'
    <2>1. CASE v = w
      BY <1>1, <1>2, <1>3, <2>1 DEF ProgressOK
    <2>2. CASE v # w
      BY <1>1, <1>10, <2>2 DEF ProgressOK, CarefulInv
    <2>3. QED
      BY <2>1, <2>2
  <1>11. ASSUME NEW n \in Migrations \ Requested' PROVE Fresh(n)'
    <2>1. n \in Migrations \ Requested /\ Fresh(n)
      BY <1>1, <1>11 DEF Requested, CarefulInv
    <2>2. ASSUME NEW v \in Workers, pc'[v] # "idle" PROVE loaded'[v].manifest.holds[n] = "none"
      BY <1>1, <2>1, <2>2 DEF Fresh
    <2>3. QED
      BY <1>1, <2>1, <2>2 DEF Fresh, Requested
  <1>12. QED
    BY <1>6, <1>7, <1>8, <1>9, <1>10, <1>11 DEF CarefulInv

-----------------------------------------------------------------------------
(* Requests, and what happens outside the commands.                         *)

LEMMA StopStep ==
  ASSUME MigrationAssumption, CommandInv, CarefulInv, CommandInv', NEW w \in Workers, Stop(w)
  PROVE  CarefulInv'
  <1>1. /\ pc'[w] = "idle" /\ UNCHANGED <<route, checkpoint, holds, copy, now, command>>
        /\ taken'[w] = NoManifest
        /\ \A v \in Workers : v # w => /\ pc'[v] = pc[v] /\ loaded'[v] = loaded[v]
                                       /\ taken'[v] = taken[v]
    BY DEF Stop, Goto, CommandInv, TypeOK, cells
  <1>2. \A n \in Migrations : InPlay(n)' => InPlay(n)
    BY <1>1 DEF InPlay, AtWork, Requested, Ended
  <1>3. \A n \in Migrations : InPlay(n)' => RouteAt(n)' /\ ContentAt(n)' /\ HoldAt(n)'
    BY <1>1, <1>2 DEF CarefulInv, RouteAt, ContentAt, HoldAt, UnderWay, Restored
  <1>4. ASSUME NEW v \in Workers, pc'[v] # "idle" PROVE ProgressOK(v)'
    <2>1. v # w
      BY <1>1, <1>4
    <2>2. QED
      BY <1>1, <1>4, <2>1 DEF CarefulInv, ProgressOK
  <1>5. ASSUME NEW n \in Migrations \ Requested' PROVE Fresh(n)'
    <2>1. n \in Migrations \ Requested /\ Fresh(n)
      BY <1>1, <1>5 DEF Requested, CarefulInv
    <2>2. taken'[w].holds[n] = "none"
      BY <1>1 DEF NoManifest
    <2>3. QED
      BY <1>1, <2>1, <2>2 DEF Fresh, Requested
  <1>6. QED
    BY <1>1, <1>2, <1>3, <1>4, <1>5 DEF CarefulInv, HomeHasContent

LEMMA BeginStep ==
  ASSUME MigrationAssumption, CommandInv, CarefulInv, CommandInv', NEW w \in Workers,
         NEW m \in Migrations, NEW what \in Commands, Decided(m, what), Begin(w, m, what)
  PROVE  CarefulInv'
  <1> DEFINE cp == checkpoint[m]
  <1>1. /\ pc[w] = "idle" /\ pc'[w] \in {"run", "route", "retire"} /\ m \in Requested
        /\ UNCHANGED <<route, checkpoint, holds, copy, now, taken>>
        /\ loaded'[w] = cp /\ command'[w] = what
        /\ what = "retire" => cp.rollbackUntil <= now
        /\ \A v \in Workers : v # w => /\ pc'[v] = pc[v] /\ loaded'[v] = loaded[v]
                                       /\ command'[v] = command[v]
    BY DEF Begin, Goto, CommandInv, TypeOK, cells, Requested, Commands
  <1>2. cp.id = m /\ cp \in Checkpoint
    BY <1>1 DEF CommandInv, CheckpointOK, TypeOK, Requested
  <1>3. Over(cp) <=> Ended(m)
    BY DEF Over, Ended
  <1>4. \A n \in Migrations : InPlay(n)' => InPlay(n)
    BY <1>1, <1>2, <1>3 DEF InPlay, AtWork, Requested, Ended
  <1>5. \A n \in Migrations : InPlay(n)' => RouteAt(n)' /\ ContentAt(n)' /\ HoldAt(n)'
    BY <1>1, <1>4 DEF CarefulInv, RouteAt, ContentAt, HoldAt, UnderWay, Restored
  <1>6. ASSUME NEW v \in Workers, pc'[v] # "idle" PROVE ProgressOK(v)'
    <2>1. CASE v = w
      <3>1. ~Over(cp) /\ Rung(cp) >= 2 => cp.manifest.version # 0
        BY <1>1, <1>3 DEF CarefulInv, InPlay, ContentAt
      <3>2. QED
        BY <1>1, <1>2, <2>1, <3>1 DEF ProgressOK
    <2>2. CASE v # w
      BY <1>1, <1>6, <2>2 DEF CarefulInv, ProgressOK
    <2>3. QED
      BY <2>1, <2>2
  <1>7. ASSUME NEW n \in Migrations \ Requested' PROVE Fresh(n)'
    <2>1. n \in Migrations \ Requested /\ Fresh(n)
      BY <1>1, <1>7 DEF Requested, CarefulInv
    <2>2. loaded'[w].manifest.holds[n] = "none"
      BY <1>1, <2>1 DEF Fresh
    <2>3. QED
      BY <1>1, <2>1, <2>2 DEF Fresh, Requested
  <1>8. QED
    BY <1>1, <1>4, <1>5, <1>6, <1>7 DEF CarefulInv, HomeHasContent

\* A migration is requested over the home the route names, with nothing under way.
LEMMA RequestStep ==
  ASSUME MigrationAssumption, CommandInv, CarefulInv, CommandInv', NEW m \in Migrations,
         NEW c \in Cells, NothingUnderWay, Request(m, c)
  PROVE  CarefulInv'
  <1> DEFINE cp == [id |-> m, source |-> route.home, revision |-> route.revision,
                    destination |-> c, state |-> "requested", rollbackUntil |-> 0,
                    manifest |-> NoManifest, updatedAt |-> 0]
  <1>1. /\ c # route.home /\ m \notin Requested
        /\ UNCHANGED <<route, holds, creator, copy, now, pc, command, loaded, taken>>
        /\ \A w \in Workers : pc[w] = "idle"
        /\ \A n \in Requested : Ended(n)
    BY DEF Request, Requested, NothingUnderWay, cells, workers
  <1>2. checkpoint' = [checkpoint EXCEPT ![m] = cp]
    BY DEF Request
  <1>3. \A n \in Migrations : checkpoint'[n] = IF n = m THEN cp ELSE checkpoint[n]
    BY <1>2 DEF CommandInv, TypeOK
  <1>4. /\ cp.source = route.home /\ cp.revision = route.revision /\ cp.destination = c
        /\ cp.state = "requested" /\ cp.manifest = NoManifest
    OBVIOUS
  <1> HIDE DEF cp
  <1>5. Rung(cp) = 0 /\ route.home \in Cells /\ route.revision \in Nat
    BY <1>4 DEF Rung, Rank, CommandInv, TypeOK, Route
  <1>6. \A n \in Migrations : InPlay(n)' => n = m
    BY <1>1, <1>3 DEF InPlay, AtWork, Requested, Ended
  <1>7. Fresh(m) /\ HomeHasContent
    BY <1>1 DEF CarefulInv
  <1>8. RouteAt(m)'
    BY <1>1, <1>3, <1>4, <1>5 DEF RouteAt
  <1>9. ContentAt(m)'
    BY <1>1, <1>3, <1>4, <1>5, <1>7 DEF ContentAt, HomeHasContent
  <1>10. HoldAt(m)'
    <2>1. holds[route.home][m] = "none"
      BY <1>5, <1>7 DEF Fresh
    <2>2. QED
      BY <1>1, <1>3, <1>4, <2>1 DEF HoldAt, UnderWay
  <1>11. ASSUME NEW n \in Migrations \ Requested' PROVE Fresh(n)'
    <2>1. n # m /\ n \in Migrations \ Requested
      <3>1. cp # NoCheckpoint
        <4>1. cp \in Checkpoint
          BY <1>5 DEF cp, Checkpoint, MigrationState, Manifest, NoManifest, Hold
        <4>2. QED
          BY <4>1 DEF MigrationAssumption
      <3>2. QED
        BY <1>3, <1>11, <3>1 DEF Requested
    <2>2. Fresh(n) /\ cp.manifest.holds[n] = "none"
      BY <1>4, <2>1 DEF CarefulInv, NoManifest
    <2>3. QED
      BY <1>1, <1>3, <2>1, <2>2 DEF Fresh, Requested
  <1>12. QED
    BY <1>1, <1>6, <1>7, <1>8, <1>9, <1>10, <1>11 DEF CarefulInv, HomeHasContent

\* Time passes, and writes of the creator leave content where they land.
LEMMA IdleStep ==
  ASSUME MigrationAssumption, CommandInv, CarefulInv, CommandInv',
         UNCHANGED <<route, checkpoint, holds, workers>>, now <= now',
         \A c \in Cells : copy[c] # 0 => copy'[c] # 0
  PROVE  CarefulInv'
  <1>1. UNCHANGED <<pc, command, loaded, taken>> /\ now \in Nat /\ now' \in Nat
    BY DEF workers, CommandInv, TypeOK
  <1>2. \A n \in Migrations : InPlay(n)' => InPlay(n)
    BY <1>1 DEF InPlay, AtWork, Requested, Ended
  <1>3. HomeHasContent'
    BY DEF HomeHasContent, CarefulInv, CommandInv, TypeOK, Route
  <1>4. ASSUME NEW n \in Migrations, InPlay(n)'
        PROVE  RouteAt(n)' /\ ContentAt(n)' /\ HoldAt(n)'
    <2>1. RouteAt(n) /\ ContentAt(n) /\ HoldAt(n) /\ checkpoint[n] \in Checkpoint
      BY <1>2, <1>4 DEF CarefulInv, InPlay, Requested, CommandInv, TypeOK
    <2>2. /\ checkpoint[n].source \in Cells /\ checkpoint[n].destination \in Cells
          /\ checkpoint[n].rollbackUntil \in Nat
      BY <2>1 DEF Checkpoint
    <2>3. QED
      BY <1>1, <2>1, <2>2 DEF RouteAt, ContentAt, HoldAt, UnderWay, Restored
  <1>5. ASSUME NEW w \in Workers, pc'[w] # "idle" PROVE ProgressOK(w)'
    <2>1. ProgressOK(w) /\ loaded[w] \in Checkpoint
      BY <1>1, <1>5 DEF CarefulInv, CommandInv, WorkerOK
    <2>2. loaded[w].destination \in Cells /\ loaded[w].rollbackUntil \in Nat
      BY <2>1 DEF Checkpoint
    <2>3. QED
      BY <1>1, <2>1, <2>2 DEF ProgressOK
  <1>6. \A n \in Migrations \ Requested' : Fresh(n)'
    BY <1>1 DEF Fresh, Requested, CarefulInv
  <1>7. QED
    BY <1>2, <1>3, <1>4, <1>5, <1>6 DEF CarefulInv

\* The destination's hold is released once the route names it.
LEMMA OpenStep ==
  ASSUME MigrationAssumption, CommandInv, CarefulInv, CommandInv', NEW m \in Migrations, Open(m)
  PROVE  CarefulInv'
  <1> DEFINE to == checkpoint[m].destination
  <1>1. /\ m \in Requested /\ route.home = to /\ to \in Cells
        /\ UNCHANGED <<route, checkpoint, copy, now, pc, command, loaded, taken>>
        /\ \A c \in Cells, n \in Migrations :
             holds'[c][n] = IF c = to /\ n = m THEN "released" ELSE holds[c][n]
    BY DEF Open, OperatorRelease, CommandInv, TypeOK, workers, Route
  <1>2. \A n \in Migrations : InPlay(n)' => InPlay(n)
    BY <1>1 DEF InPlay, AtWork, Requested, Ended
  <1>3. HomeHasContent'
    BY <1>1 DEF HomeHasContent, CarefulInv
  <1>4. ASSUME NEW n \in Migrations, InPlay(n)
        PROVE  /\ checkpoint[n].source \in Cells
               /\ holds'[checkpoint[n].source][n] = holds[checkpoint[n].source][n]
    <2>1. RouteAt(n) /\ checkpoint[n] \in Checkpoint
      BY <1>4 DEF CarefulInv, InPlay, Requested, CommandInv, TypeOK
    <2>2. checkpoint[n].source \in Cells /\ (n = m => checkpoint[n].source # to)
      BY <2>1 DEF Checkpoint, RouteAt
    <2>3. QED
      BY <1>1, <2>2
  <1>5. ASSUME NEW n \in Migrations, InPlay(n)'
        PROVE  RouteAt(n)' /\ ContentAt(n)' /\ HoldAt(n)'
    <2>1. RouteAt(n) /\ ContentAt(n) /\ HoldAt(n) /\ InPlay(n)
      BY <1>2, <1>5 DEF CarefulInv
    <2>2. QED
      BY <1>1, <1>4, <2>1 DEF RouteAt, ContentAt, HoldAt, UnderWay, Restored
  <1>6. ASSUME NEW w \in Workers, pc'[w] # "idle" PROVE ProgressOK(w)'
    <2>1. ProgressOK(w)
      BY <1>1, <1>6 DEF CarefulInv
    <2>2. ASSUME loaded[w].state = "requested", checkpoint[loaded[w].id] = loaded[w]
          PROVE  holds'[loaded[w].source][loaded[w].id] = holds[loaded[w].source][loaded[w].id]
      <3>1. ~Over(loaded[w])
        BY <2>2 DEF Over
      <3>2. loaded[w].id \in Migrations /\ InPlay(loaded[w].id)
        BY <1>1, <1>6, <3>1, WorkIs
      <3>3. QED
        BY <1>4, <2>2, <3>2
    <2>3. QED
      BY <1>1, <2>1, <2>2 DEF ProgressOK
  <1>7. ASSUME NEW n \in Migrations \ Requested' PROVE Fresh(n)'
    <2>1. n \in Migrations \ Requested /\ n # m /\ Requested' = Requested
      BY <1>1, <1>7 DEF Requested
    <2>2. Fresh(n)
      BY <2>1 DEF CarefulInv
    <2>3. QED
      BY <1>1, <2>1, <2>2 DEF Fresh
  <1>8. QED
    BY <1>2, <1>3, <1>5, <1>6, <1>7 DEF CarefulInv

LEMMA CarefulIsNext ==
  ASSUME CommandInv, CarefulNext
  PROVE  Next
  <1>1. ASSUME NEW m \in Migrations, Open(m) PROVE Next
    BY <1>1 DEF Open, CommandInv, TypeOK, Route, Next
  <1>2. QED
    BY <1>1 DEF CarefulNext, CarefulCommand, Steps, Commands, Writes, SerialWrite, Clock, Next

LEMMA CarefulStep ==
  ASSUME MigrationAssumption, CommandInv, CarefulInv, CommandInv', [CarefulNext]_vars
  PROVE  CarefulInv'
  <1>1. ASSUME NEW w \in Workers, Step(w) PROVE CarefulInv'
    BY <1>1, CellsStep, WriteStep, SwapStep DEF Step
  <1>2. ASSUME NEW w \in Workers, Stop(w) PROVE CarefulInv'
    BY <1>2, StopStep
  <1>3. ASSUME NEW c \in Cells, WriteAdmitted(c) \/ WriteDone(c) PROVE CarefulInv'
    <2>1. /\ UNCHANGED <<route, checkpoint, holds, workers, now>> /\ now \in Nat
          /\ \A d \in Cells : copy[d] # 0 => copy'[d] # 0
      BY <1>3 DEF WriteAdmitted, WriteDone, cells, CommandInv, TypeOK
    <2>2. now <= now'
      BY <2>1
    <2>3. QED
      BY <2>1, <2>2, IdleStep
  <1>4. CASE Tick \/ UNCHANGED vars
    <2>1. UNCHANGED <<route, checkpoint, holds, copy, workers>> /\ now <= now'
      BY <1>4 DEF Tick, vars, cells, workers, CommandInv, TypeOK
    <2>2. QED
      BY <2>1, IdleStep
  <1>5. QED
    BY <1>1, <1>2, <1>3, <1>4, RequestStep, BeginStep, OpenStep
       DEF CarefulNext, CarefulCommand, Steps, Writes, SerialWrite, Clock

LEMMA CarefulStart ==
  ASSUME MigrationAssumption, Init
  PROVE  CarefulInv
  <1>1. \A n \in Migrations : NoManifest.holds[n] = "none"
    BY DEF NoManifest
  <1>2. Requested = {} /\ HomeHasContent
    BY DEF MigrationAssumption, Init, Requested, HomeHasContent, InitialRoute
  <1>3. QED
    BY <1>1, <1>2 DEF Init, CarefulInv, InPlay, Fresh

-----------------------------------------------------------------------------
(* One migration at a time.                                                 *)

\* However a migration is interrupted, repeated, rolled back or retired: the cell the
\* route names has the creator's content, and while a rollback may need them the source
\* keeps the content and the hold that makes it read-only.
THEOREM ContentAndHoldsKept ==
  ASSUME MigrationAssumption
  PROVE  CarefulSpec => [](HomeHasContent /\ SourceKept /\ SourceReadOnly)
  <1>1. CommandInv /\ CarefulInv => HomeHasContent /\ SourceKept /\ SourceReadOnly
    <2> SUFFICES ASSUME CommandInv, CarefulInv PROVE SourceKept /\ SourceReadOnly
      BY DEF CarefulInv
    <2>1. ASSUME NEW m \in Requested, UnderWay(m)
          PROVE  m \in Migrations /\ ContentAt(m) /\ HoldAt(m)
      BY <2>1 DEF CarefulInv, InPlay, Requested, Ended, UnderWay
    <2>2. SourceKept
      BY <2>1 DEF SourceKept, UnderWay, ContentAt
    <2>3. SourceReadOnly
      BY <2>1 DEF SourceReadOnly, HoldAt, Held
    <2>4. QED
      BY <2>2, <2>3
  <1>2. Init => CommandInv /\ CarefulInv
    BY CommandStart, CarefulStart
  <1>3. CommandInv /\ CarefulInv /\ [CarefulNext]_vars => (CommandInv /\ CarefulInv)'
    BY CommandStep, CarefulStep, CarefulIsNext
  <1>4. QED
    BY <1>1, <1>2, <1>3, PTL DEF CarefulSpec

-----------------------------------------------------------------------------
(* One migration, and the last acknowledged write.                          *)

OneMigration == \A m, n \in Migrations : m = n

\* From the source hold until the destination is opened or the route is back, the
\* home is held.
Frozen(m) ==
  LET cp == checkpoint[m]
  IN  Rung(cp) >= 1 /\ route.revision < cp.revision + 2 /\ holds[cp.destination][m] # "released"

\* Every copy that counts is the last acknowledged write, and the destination is
\* kept from writes by the hold that came with it.
CurrentAt(m) ==
  LET cp == checkpoint[m]
  IN  /\ Rung(cp) = 0 => copy[cp.destination] = 0 /\ holds[cp.destination][m] = "none"
      /\ holds[cp.destination][m] = "released" => route.revision > cp.revision
      /\ Frozen(m) =>
           /\ copy[cp.destination] \in {0, written}
           /\ holds[cp.destination][m] \in {"none", "active"}
           /\ Rung(cp) >= 2 => cp.manifest.version = written /\ cp.manifest.holds[m] = "active"
           /\ Rung(cp) >= 4 => copy[cp.destination] = written /\ holds[cp.destination][m] = "active"
           /\ Decided(m, "rollback") => copy[cp.source] = written

\* What a command has exported or imported is the last acknowledged write.
CarriesCurrent(w) ==
  LET cp == loaded[w]
      m == cp.id
  IN  /\ Rung(cp) >= 2 => cp.manifest = checkpoint[m].manifest
      /\ pc[w] = "advance" /\ cp.state = "source_hold" /\ checkpoint[m] = cp =>
           taken[w].version = written /\ taken[w].holds[m] = "active"
      /\ pc[w] \in {"advance", "holds"} /\ cp.state = "transferred" /\ Frozen(m) =>
           copy[cp.destination] = written
      /\ pc[w] = "advance" /\ cp.state = "transferred" /\ Frozen(m) =>
           holds[cp.destination][m] = "active"

KeptInv ==
  /\ HomeCurrent \/ RolledBackOver
  /\ written # 0
  /\ Requested = {} => \A c \in Cells : c # route.home => copy[c] = 0
  /\ \A m \in Requested : RouteAt(m) /\ CurrentAt(m)
  /\ \A w \in Workers : pc[w] # "idle" => CarriesCurrent(w)

\* What is known of the migration when a command makes a step.
LEMMA StepWork ==
  ASSUME MigrationAssumption, OneMigration, CommandInv, CarefulInv, KeptInv,
         NEW w \in Workers, Step(w)
  PROVE  LET m == loaded[w].id
         IN  /\ pc[w] # "idle" /\ ~Over(loaded[w]) /\ PlaceOK(w) /\ RouteOK(w) /\ ProgressOK(w)
             /\ Requested = {m} /\ CurrentAt(m) /\ CarriesCurrent(w)
             /\ route.revision \in Nat /\ checkpoint[m].revision \in Nat
             /\ Rung(checkpoint[m]) \in 0..6 /\ Rung(loaded[w]) \in 0..6
             /\ checkpoint[m].source # checkpoint[m].destination
             /\ \A v \in Workers : pc[v] # "idle" =>
                  /\ loaded[v] \in Checkpoint /\ loaded[v].id = m
                  /\ loaded[v].source = checkpoint[m].source
                  /\ loaded[v].destination = checkpoint[m].destination
                  /\ loaded[v].updatedAt <= checkpoint[m].updatedAt
                  /\ Rung(loaded[v]) \in 0..6 /\ Rung(loaded[v]) <= Rung(checkpoint[m])
                  /\ CarriesCurrent(v)
  <1> DEFINE m == loaded[w].id
  <1>1. pc[w] # "idle"
    BY DEF Step, Advance, PlaceSourceHold, ExportSource, TransferObjects, ImportRecords,
       ImportHolds, ReadRoute, CutOver, ReadRouteBack, Restore, ReleaseSourceHold,
       RetireContent, RetireCreator, At
  <1>2. WorkerOK(w) /\ PlaceOK(w) /\ RouteOK(w) /\ ProgressOK(w)
    BY <1>1 DEF CommandInv, WorkerOK, CarefulInv
  <1>3. ~Over(loaded[w])
    <2>1. pc[w] = "run" => loaded[w].state \in {"requested", "source_hold", "exported",
                                               "transferred", "verified"}
      BY DEF Step, Advance, PlaceSourceHold, ExportSource, TransferObjects, ImportRecords,
         ImportHolds, ReadRoute, CutOver, ReadRouteBack, Restore, ReleaseSourceHold,
         RetireContent, RetireCreator, At
    <2>2. pc[w] \in Where
      BY DEF CommandInv, TypeOK
    <2>3. QED
      BY <1>1, <1>2, <2>1, <2>2, FollowingIs DEF PlaceOK, Over, Where
  <1>4. m \in Requested
    BY <1>2 DEF WorkerOK
  <1>5. Requested = {m}
    BY <1>4 DEF OneMigration, Requested
  <1>6. /\ CurrentAt(m) /\ RouteAt(m) /\ CheckpointOK(m) /\ checkpoint[m] \in Checkpoint
        /\ route.revision \in Nat
    BY <1>4 DEF KeptInv, CommandInv, TypeOK, Requested, Route
  <1>7. checkpoint[m].revision \in Nat /\ Rung(checkpoint[m]) \in 0..6
        /\ checkpoint[m].source # checkpoint[m].destination
    BY <1>6, Rungs DEF Checkpoint, RouteAt
  <1>8. ASSUME NEW v \in Workers, pc[v] # "idle"
        PROVE  /\ loaded[v] \in Checkpoint /\ loaded[v].id = m
               /\ loaded[v].source = checkpoint[m].source
               /\ loaded[v].destination = checkpoint[m].destination
               /\ loaded[v].updatedAt <= checkpoint[m].updatedAt
               /\ Rung(loaded[v]) \in 0..6 /\ Rung(loaded[v]) <= Rung(checkpoint[m])
               /\ CarriesCurrent(v)
    <2>1. WorkerOK(v) /\ CarriesCurrent(v)
      BY <1>8 DEF CommandInv, KeptInv
    <2>2. loaded[v].id = m /\ loaded[v] \in Checkpoint
      BY <1>5, <2>1 DEF WorkerOK
    <2>3. QED
      BY <1>6, <2>1, <2>2, Rungs DEF WorkerOK, Older, CheckpointOK, Rung
  <1>9. QED
    BY <1>1, <1>2, <1>3, <1>5, <1>6, <1>7, <1>8

\* A step of one worker on the cells alone, which while nobody writes puts nothing but
\* the last acknowledged write into the destination, and only an active hold.
OnCells(w) ==
  LET m == loaded[w].id
      to == loaded[w].destination
      from == loaded[w].source
  IN  /\ UNCHANGED <<route, checkpoint, command, loaded, written>>
      /\ pc'[w] # "idle"
      /\ \A v \in Workers : v # w => pc'[v] = pc[v] /\ taken'[v] = taken[v]
      /\ copy'[route.home] = copy[route.home]
      /\ \/ copy'[to] = copy[to]
         \/ copy[to] = 0 /\ Rung(checkpoint[m]) >= 1 /\ (Frozen(m) => copy'[to] = written)
      /\ \/ holds'[to][m] = holds[to][m]
         \/ holds[to][m] = "none" /\ Rung(checkpoint[m]) >= 1 /\ (Frozen(m) => holds'[to][m] = "active")
      /\ Decided(m, "rollback") => copy'[from] = copy[from]

LEMMA CellsCurrent ==
  ASSUME MigrationAssumption, OneMigration, CommandInv, CarefulInv, KeptInv,
         CommandInv', CarefulInv', NEW w \in Workers, Step(w),
         OnCells(w), CarriesCurrent(w)'
  PROVE  KeptInv'
  <1>0. PICK m \in Migrations : m = loaded[w].id
    BY StepWork DEF Requested
  <1> DEFINE cp == checkpoint[m]
             to == cp.destination
  <1>1. /\ pc[w] # "idle" /\ ~Over(loaded[w])
        /\ Requested = {m} /\ CurrentAt(m)
        /\ route.revision \in Nat /\ cp.revision \in Nat /\ Rung(cp) \in 0..6
        /\ cp.source # cp.destination /\ m \in Migrations /\ RouteAt(m) /\ ContentAt(m)
        /\ \A v \in Workers : pc[v] # "idle" =>
             /\ loaded[v] \in Checkpoint /\ loaded[v].id = m
             /\ loaded[v].source = cp.source /\ loaded[v].destination = cp.destination
             /\ CarriesCurrent(v)
    BY <1>0, StepWork, WorkIs
  <1>2. /\ UNCHANGED <<route, checkpoint, command, loaded, written>>
        /\ pc'[w] # "idle" /\ copy'[route.home] = copy[route.home]
        /\ \A v \in Workers : v # w => pc'[v] = pc[v] /\ taken'[v] = taken[v]
        /\ Requested' = {m}
    BY <1>0, <1>1 DEF OnCells, Requested
  <1>3. /\ \/ copy'[to] = copy[to]
           \/ copy[to] = 0 /\ Rung(cp) >= 1 /\ (Frozen(m) => copy'[to] = written)
        /\ \/ holds'[to][m] = holds[to][m]
           \/ holds[to][m] = "none" /\ Rung(cp) >= 1 /\ (Frozen(m) => holds'[to][m] = "active")
        /\ Decided(m, "rollback") => copy'[cp.source] = copy[cp.source]
    BY <1>0, <1>1 DEF OnCells
  <1>4. Frozen(m)' = Frozen(m)
    BY <1>1, <1>2, <1>3 DEF Frozen
  <1>5. (HomeCurrent \/ RolledBackOver)'
    <2>1. CASE HomeCurrent
      BY <1>2, <2>1 DEF HomeCurrent
    <2>2. CASE RolledBackOver
      <3>1. Restored(m) /\ holds[to][m] = "released" /\ copy[to] = written
        BY <1>1, <2>2 DEF RolledBackOver
      <3>2. copy[to] # 0
        BY <3>1 DEF KeptInv
      <3>3. copy'[to] = written /\ holds'[to][m] = "released" /\ written' = written
        BY <1>2, <1>3, <3>1, <3>2
      <3>4. Restored(m)' /\ checkpoint'[m] = cp
        BY <1>2, <3>1 DEF Restored
      <3>5. QED
        BY <1>2, <3>3, <3>4 DEF RolledBackOver
    <2>3. QED
      BY <2>1, <2>2 DEF KeptInv
  <1>6. RouteAt(m)'
    <2>1. AtWork(w, m)'
      BY <1>0, <1>1, <1>2 DEF AtWork, Over
    <2>2. m \in Migrations /\ InPlay(m)'
      BY <1>1, <1>2, <2>1 DEF InPlay, Requested
    <2>3. QED
      BY <2>2 DEF CarefulInv
  <1>7. /\ Frozen(m) => copy'[to] = copy[to] \/ copy'[to] = written
        /\ Frozen(m) => holds'[to][m] = holds[to][m] \/ holds'[to][m] = "active"
        /\ Rung(cp) = 0 => copy'[to] = copy[to] /\ holds'[to][m] = holds[to][m]
        /\ holds'[to][m] = "released" => route.revision > cp.revision
    <2>1. holds'[to][m] = "released" => route.revision > cp.revision
      BY <1>1, <1>3 DEF CurrentAt, Frozen
    <2>2. QED
      BY <1>1, <1>3, <2>1
  <1>8. CurrentAt(m)'
    <2>1. CASE Frozen(m)
      BY <1>1, <1>2, <1>3, <1>7, <1>4, <2>1, SMTT(20) DEF CurrentAt
    <2>2. CASE ~Frozen(m)
      BY <1>1, <1>2, <1>3, <1>7, <1>4, <2>2 DEF CurrentAt
    <2>3. QED
      BY <2>1, <2>2
  <1>9. ASSUME NEW v \in Workers, pc'[v] # "idle" PROVE CarriesCurrent(v)'
    <2>1. CASE v = w
      BY <2>1
    <2>2. CASE v # w
      <3>1. loaded[v].id = m /\ loaded[v].destination = to /\ CarriesCurrent(v)
        BY <1>1, <1>2, <1>9, <2>2
      <3>2. /\ pc'[v] = pc[v] /\ loaded'[v] = loaded[v] /\ taken'[v] = taken[v]
            /\ checkpoint'[m] = cp
        BY <1>2, <2>2
      <3>3. Frozen(loaded[v].id)' = Frozen(m)
        BY <1>4, <3>1, <3>2
      <3>4. /\ Rung(loaded[v]) >= 2 => loaded[v].manifest = cp.manifest
            /\ pc[v] = "advance" /\ loaded[v].state = "source_hold" /\ cp = loaded[v] =>
                 taken[v].version = written /\ taken[v].holds[m] = "active"
            /\ pc[v] \in {"advance", "holds"} /\ loaded[v].state = "transferred" /\ Frozen(m) =>
                 copy'[to] = written
            /\ pc[v] = "advance" /\ loaded[v].state = "transferred" /\ Frozen(m) =>
                 holds'[to][m] = "active"
        BY <1>7, <3>1 DEF CarriesCurrent
      <3>5. QED
        BY <1>2, <3>1, <3>2, <3>3, <3>4 DEF CarriesCurrent
    <2>3. QED
      BY <2>1, <2>2
  <1>10. QED
    BY <1>2, <1>6, <1>8, <1>9, <1>5 DEF KeptInv

\* The source hold, the transfer and the import of a migration.
LEMMA ResumeCurrent ==
  ASSUME MigrationAssumption, OneMigration, CommandInv, CarefulInv, KeptInv,
         CommandInv', CarefulInv', NEW w \in Workers,
         \/ PlaceSourceHold(w) \/ ExportSource(w) \/ TransferObjects(w)
         \/ ImportRecords(w) \/ ImportHolds(w) \/ ReadRoute(w)
  PROVE  KeptInv'
  <1> DEFINE m == loaded[w].id
             cp == checkpoint[m]
             to == loaded[w].destination
             from == loaded[w].source
  <1>0. Step(w)
    BY DEF Step
  <1>1. /\ pc[w] # "idle" /\ ~Over(loaded[w]) /\ PlaceOK(w)
        /\ Requested = {m} /\ CurrentAt(m) /\ CarriesCurrent(w)
        /\ route.revision \in Nat /\ cp.revision \in Nat
        /\ Rung(cp) \in 0..6 /\ Rung(loaded[w]) \in 0..6 /\ Rung(loaded[w]) <= Rung(cp)
        /\ cp.source # cp.destination
        /\ from = cp.source /\ to = cp.destination /\ loaded[w] \in Checkpoint
    BY <1>0, StepWork
  <1>2. /\ UNCHANGED <<route, checkpoint, command, loaded, written>>
        /\ pc'[w] \in {"advance", "holds", "cutover"}
        /\ \A v \in Workers : v # w => pc'[v] = pc[v] /\ taken'[v] = taken[v]
    BY DEF PlaceSourceHold, ExportSource, TransferObjects, ImportRecords, ImportHolds,
       ReadRoute, Goto, cells, CommandInv, TypeOK
  <1>3. /\ m \in Migrations /\ m \in Requested /\ from \in Cells /\ to \in Cells
        /\ from # to /\ route.home \in Cells /\ TypeOK
        /\ RouteAt(m) /\ ContentAt(m) /\ HoldAt(m) /\ cp \in Checkpoint
    BY <1>1, WorkIs DEF CommandInv, TypeOK, Route, KeptInv
  <1>4. /\ Rung(loaded[w]) = 0 <=> loaded[w].state = "requested"
        /\ Rung(loaded[w]) = 1 <=> loaded[w].state = "source_hold"
        /\ Rung(loaded[w]) = 3 <=> loaded[w].state = "transferred"
    BY <1>1, Rungs
  <1>5. CASE PlaceSourceHold(w)
    <2>1. /\ copy' = copy /\ holds'[to] = holds[to] /\ loaded[w].state = "requested"
      BY <1>3, <1>5 DEF PlaceSourceHold, At, TypeOK
    <2>2. CarriesCurrent(w)'
      BY <1>1, <1>2, <1>4, <2>1 DEF CarriesCurrent
    <2>3. OnCells(w)
      BY <1>1, <1>2, <2>1 DEF OnCells
    <2>4. QED
      BY <1>0, <2>2, <2>3, CellsCurrent
  <1>6. CASE ExportSource(w)
    <2>1. /\ UNCHANGED <<copy, holds>> /\ pc'[w] = "advance" /\ loaded[w].state = "source_hold"
          /\ taken'[w].version = copy[from] /\ taken'[w].holds = holds[from]
      BY <1>6 DEF ExportSource, At, Goto, cells, CommandInv, TypeOK
    <2>2. cp = loaded[w] => copy[from] = written /\ holds[from][m] = "active"
      <3>1. SUFFICES ASSUME cp = loaded[w] PROVE copy[from] = written /\ holds[from][m] = "active"
        OBVIOUS
      <3>2. Rung(cp) = 1 /\ cp.state = "source_hold"
        BY <1>4, <2>1, <3>1
      <3>3. route.home = from /\ route.revision = cp.revision
        BY <1>1, <1>3, <3>2 DEF RouteAt
      <3>4. UnderWay(m) /\ ~Restored(m)
        BY <1>1, <3>2, <3>3 DEF UnderWay, Restored
      <3>5. HomeCurrent
        BY <1>1, <3>4 DEF KeptInv, RolledBackOver
      <3>6. QED
        BY <1>1, <1>3, <3>3, <3>4, <3>5 DEF HomeCurrent, HoldAt
    <2>3. CarriesCurrent(w)'
      BY <1>1, <1>2, <1>4, <2>1, <2>2 DEF CarriesCurrent
    <2>4. OnCells(w)
      BY <1>1, <1>2, <2>1 DEF OnCells
    <2>5. QED
      BY <1>0, <2>3, <2>4, CellsCurrent
  <1>7. CASE TransferObjects(w) \/ ReadRoute(w)
    <2>1. /\ UNCHANGED <<copy, holds, taken>>
          /\ loaded[w].state \in {"exported", "verified"}
      BY <1>7 DEF TransferObjects, ReadRoute, At, cells
    <2>2. CarriesCurrent(w)'
      BY <1>1, <1>2, <2>1 DEF CarriesCurrent
    <2>3. OnCells(w)
      BY <1>1, <1>2, <2>1 DEF OnCells
    <2>4. QED
      BY <1>0, <2>2, <2>3, CellsCurrent
  <1>8. CASE ImportRecords(w)
    <2>1. /\ holds' = holds /\ pc'[w] = "holds" /\ loaded[w].state = "transferred"
          /\ copy'[to] = IF copy[to] = 0 THEN loaded[w].manifest.version ELSE copy[to]
          /\ \A c \in Cells : c # to => copy'[c] = copy[c]
      BY <1>3, <1>8 DEF ImportRecords, At, Goto, TypeOK
    <2>2. Rung(loaded[w]) = 3 /\ Rung(cp) >= 3
      BY <1>1, <1>4, <2>1
    <2>3. Frozen(m) => loaded[w].manifest.version = written /\ copy[to] \in {0, written}
      BY <1>1, <2>2 DEF CurrentAt, CarriesCurrent
    <2>4. Frozen(m) => copy'[to] = written
      BY <2>1, <2>3
    <2>5. copy'[route.home] = copy[route.home]
      BY <1>3, <2>1 DEF CarefulInv, HomeHasContent
    <2>6. Frozen(m)' = Frozen(m)
      BY <1>2, <2>1 DEF Frozen
    <2>7. CarriesCurrent(w)'
      BY <1>1, <1>2, <2>1, <2>4, <2>6 DEF CarriesCurrent
    <2>8. /\ Rung(cp) >= 1 /\ (Frozen(m) => copy'[to] = written)
          /\ copy'[to] = copy[to] \/ copy[to] = 0
          /\ holds'[to][m] = holds[to][m] /\ copy'[from] = copy[from]
      BY <1>1, <1>3, <2>1, <2>2, <2>4
    <2>9. OnCells(w)
      BY <1>1, <1>2, <2>5, <2>8 DEF OnCells
    <2>10. QED
      BY <1>0, <2>7, <2>9, CellsCurrent
  <1>9. CASE ImportHolds(w)
    <2>1. /\ copy' = copy /\ pc[w] = "holds" /\ pc'[w] = "advance"
          /\ loaded[w].state = "transferred"
          /\ holds'[to][m] = IF holds[to][m] = "none" THEN loaded[w].manifest.holds[m]
                             ELSE holds[to][m]
      BY <1>1, <1>3, <1>9 DEF ImportHolds, PlaceOK, Goto, TypeOK
    <2>2. Rung(loaded[w]) = 3 /\ Rung(cp) >= 3
      BY <1>1, <1>4, <2>1
    <2>3. Frozen(m) => /\ loaded[w].manifest.holds[m] = "active"
                       /\ holds[to][m] \in {"none", "active"} /\ copy[to] = written
      BY <1>1, <2>1, <2>2 DEF CurrentAt, CarriesCurrent
    <2>4. Frozen(m) => holds'[to][m] = "active" /\ copy'[to] = written
      BY <2>1, <2>3
    <2>5. Frozen(m)' = Frozen(m)
      BY <1>1, <1>2, <2>1, <2>2, <2>4 DEF Frozen
    <2>6. CarriesCurrent(w)'
      BY <1>1, <1>2, <2>1, <2>4, <2>5 DEF CarriesCurrent
    <2>7. /\ Rung(cp) >= 1 /\ (Frozen(m) => holds'[to][m] = "active")
          /\ holds'[to][m] = holds[to][m] \/ holds[to][m] = "none"
          /\ copy'[to] = copy[to] /\ copy'[from] = copy[from]
      BY <1>1, <2>1, <2>2, <2>4
    <2>8. OnCells(w)
      BY <1>1, <1>2, <2>1, <2>7 DEF OnCells
    <2>9. QED
      BY <1>0, <2>6, <2>8, CellsCurrent
  <1>10. QED
    BY <1>5, <1>6, <1>7, <1>8, <1>9

\* A rollback releases the source after the route is back; a retired source is not the
\* home, and nothing returns to it.
LEMMA EndCurrent ==
  ASSUME MigrationAssumption, OneMigration, CommandInv, CarefulInv, KeptInv,
         CommandInv', CarefulInv', NEW w \in Workers,
         ReadRouteBack(w) \/ ReleaseSourceHold(w) \/ RetireContent(w) \/ RetireCreator(w)
  PROVE  KeptInv'
  <1> DEFINE m == loaded[w].id
             cp == checkpoint[m]
             to == loaded[w].destination
             from == loaded[w].source
  <1>0. Step(w)
    BY DEF Step
  <1>1. /\ pc[w] # "idle" /\ ~Over(loaded[w]) /\ PlaceOK(w) /\ ProgressOK(w)
        /\ CarriesCurrent(w) /\ Requested = {m}
        /\ route.revision \in Nat /\ cp.revision \in Nat
        /\ Rung(cp) \in 0..6 /\ Rung(loaded[w]) <= Rung(cp)
        /\ cp.source # cp.destination
        /\ from = cp.source /\ to = cp.destination /\ loaded[w] \in Checkpoint
    BY <1>0, StepWork
  <1>2. /\ UNCHANGED <<route, checkpoint, command, loaded, taken, written>>
        /\ pc'[w] \in {"advance", "release", "restore", "creator"}
        /\ \A v \in Workers : v # w => pc'[v] = pc[v]
    BY DEF ReadRouteBack, ReleaseSourceHold, RetireContent, RetireCreator, Goto, cells,
       CommandInv, TypeOK
  <1>3. /\ from \in Cells /\ to \in Cells /\ from # to /\ route.home \in Cells /\ TypeOK
        /\ RouteAt(m) /\ m \in Nat
    BY <1>1, WorkIs DEF CommandInv, TypeOK, Route
  <1>4. loaded[w].state = "cutover" /\ Rung(cp) >= 5
    <2>1. loaded[w].state = "cutover"
      BY <1>1 DEF ReadRouteBack, ReleaseSourceHold, RetireContent, RetireCreator, PlaceOK
    <2>2. QED
      BY <1>1, <2>1, Rungs
  <1>5. CarriesCurrent(w)'
    BY <1>1, <1>2, <1>4 DEF CarriesCurrent
  <1>6. holds'[to] = holds[to]
    BY <1>3 DEF ReadRouteBack, ReleaseSourceHold, RetireContent, RetireCreator, cells, TypeOK
  <1>7. CASE ReadRouteBack(w) \/ ReleaseSourceHold(w) \/ RetireCreator(w)
    <2>1. copy' = copy
      BY <1>7 DEF ReadRouteBack, ReleaseSourceHold, RetireCreator, cells
    <2>2. OnCells(w)
      BY <1>1, <1>2, <1>6, <2>1 DEF OnCells
    <2>3. QED
      BY <1>0, <1>5, <2>2, CellsCurrent
  <1>8. CASE RetireContent(w)
    <2>1. \A c \in Cells : c # from => copy'[c] = copy[c]
      BY <1>8 DEF RetireContent, TypeOK
    <2>2. command[w] = "retire"
      BY <1>1, <1>8 DEF RetireContent, PlaceOK
    <2>3. ~Decided(m, "rollback")
      BY <1>1, <1>3, <2>2, Decisions DEF ProgressOK
    <2>4. route.home = to
      BY <1>1, <1>3, <1>4, <2>3 DEF RouteAt
    <2>5. OnCells(w)
      BY <1>1, <1>2, <1>3, <1>6, <2>1, <2>3, <2>4 DEF OnCells
    <2>6. QED
      BY <1>0, <1>5, <2>5, CellsCurrent
  <1>9. QED
    BY <1>7, <1>8

\* The write of a step into the checkpoint.
LEMMA AdvanceCurrent ==
  ASSUME MigrationAssumption, OneMigration, CommandInv, CarefulInv, KeptInv,
         CommandInv', CarefulInv', NEW w \in Workers, Advance(w)
  PROVE  KeptInv'
  <1>0. PICK m \in Migrations : m = loaded[w].id
    BY DEF Advance, CommandInv, WorkerOK, Requested
  <1> DEFINE cp == checkpoint[m]
             new == Advanced(w)
  <1>1. /\ pc[w] = "advance" /\ PlaceOK(w) /\ ProgressOK(w) /\ Requested = {m}
        /\ CurrentAt(m) /\ CarriesCurrent(w)
        /\ route.revision \in Nat /\ cp.revision \in Nat /\ Rung(cp) \in 0..6
        /\ cp.source # cp.destination
        /\ \A v \in Workers : pc[v] # "idle" =>
             /\ loaded[v] \in Checkpoint /\ loaded[v].id = m
             /\ loaded[v].source = cp.source /\ loaded[v].destination = cp.destination
             /\ loaded[v].updatedAt <= cp.updatedAt
             /\ Rung(loaded[v]) \in 0..6 /\ Rung(loaded[v]) <= Rung(cp)
             /\ CarriesCurrent(v)
    BY <1>0, StepWork DEF Step, Advance
  <1>2. /\ UNCHANGED <<route, copy, holds, command, taken, written>>
        /\ pc'[w] = "run" /\ loaded'[w] = new
        /\ \A v \in Workers : v # w => pc'[v] = pc[v] /\ loaded'[v] = loaded[v]
    BY DEF Advance, Goto, cells, CommandInv, TypeOK
  <1>3. /\ m \in Migrations /\ cp \in Checkpoint /\ RouteAt(m) /\ CheckpointOK(m)
        /\ checkpoint' = [checkpoint EXCEPT ![m] = new]
        /\ cp = loaded[w]
    <2>1. m \in Requested /\ WorkerOK(w)
      BY <1>1 DEF CommandInv
    <2>2. cp = loaded[w]
      BY <1>0, <2>1 DEF Advance, WorkerOK, Older
    <2>3. QED
      BY <1>0, <2>1, <2>2 DEF KeptInv, CommandInv, WorkerOK, Requested, Advance
  <1>4. /\ new \in Checkpoint /\ new.id = m
        /\ new.source = cp.source /\ new.revision = cp.revision
        /\ new.destination = cp.destination /\ new.updatedAt = cp.updatedAt + 1
        /\ new.manifest = (IF Target(w) = "exported" THEN taken[w] ELSE cp.manifest)
        /\ Rung(new) = Rung(cp) + 1 /\ cp.updatedAt = Rung(cp) /\ new.state = Target(w)
    BY <1>0, <1>1, <1>3, AdvancedIs DEF Rung, CheckpointOK
  <1>5. Target(w) = "exported" <=> cp.state = "source_hold"
    <2>1. CASE command[w] = "resume"
      BY <1>1, <1>3, <2>1, FollowingIs DEF PlaceOK, Target
    <2>2. CASE command[w] # "resume"
      BY <1>1, <1>3, <2>2 DEF PlaceOK, Target, CommandInv, TypeOK
    <2>3. QED
      BY <2>1, <2>2
  <1>6. /\ Rung(cp) = 1 <=> cp.state = "source_hold"
        /\ Rung(cp) = 3 <=> cp.state = "transferred"
        /\ Rung(new) \in 0..6
    BY <1>3, <1>4, Rungs
  <1>7. checkpoint'[m] = new /\ Requested' = {m}
    <2>1. checkpoint'[m] = new
      BY <1>3 DEF CommandInv, TypeOK
    <2>2. new # NoCheckpoint
      BY <1>4 DEF MigrationAssumption
    <2>3. QED
      BY <1>1, <2>1, <2>2, <1>3 DEF Requested, CommandInv, TypeOK, OneMigration
  <1> HIDE DEF new
  <1>8. Frozen(m)' /\ Rung(cp) >= 1 => Frozen(m)
    BY <1>2, <1>4, <1>7 DEF Frozen
  <1>9. RouteAt(m)'
    <2>1. Rung(new) >= 5 => route.revision > cp.revision
      <3>1. CheckpointOK(m)'
        BY <1>7 DEF CommandInv
      <3>2. Rung(new) >= 5 => new.state \in {"cutover", "rolled_back", "retired"}
        BY <1>4, Rungs DEF Over
      <3>3. QED
        BY <1>2, <1>4, <1>7, <3>1, <3>2 DEF CheckpointOK
    <2>2. QED
      BY <1>1, <1>2, <1>3, <1>4, <1>6, <1>7, <2>1 DEF RouteAt
  <1>10. CurrentAt(m)'
    <2>1. SUFFICES ASSUME Frozen(m)'
          PROVE  /\ copy[cp.destination] \in {0, written}
                 /\ holds[cp.destination][m] \in {"none", "active"}
                 /\ Rung(new) >= 2 => new.manifest.version = written /\ new.manifest.holds[m] = "active"
                 /\ Rung(new) >= 4 => copy[cp.destination] = written /\ holds[cp.destination][m] = "active"
                 /\ Decided(m, "rollback") => copy[cp.source] = written
      BY <1>1, <1>2, <1>4, <1>6, <1>7 DEF CurrentAt
    <2>2. CASE Rung(cp) = 0
      <3>1. route.home = cp.source
        BY <1>1, <1>3, <2>2 DEF RouteAt
      <3>2. HomeCurrent
        BY <1>1, <1>3, <2>2 DEF KeptInv, RolledBackOver, Restored, RouteAt
      <3>3. QED
        BY <1>1, <1>3, <1>4, <2>2, <3>1, <3>2 DEF CurrentAt, HomeCurrent
    <2>3. CASE Rung(cp) >= 1
      <3>1. Frozen(m)
        BY <1>8, <2>1, <2>3
      <3>2. Rung(new) >= 2 => new.manifest.version = written /\ new.manifest.holds[m] = "active"
        BY <1>1, <1>3, <1>4, <1>5, <1>6, <2>3, <3>1 DEF CurrentAt, CarriesCurrent
      <3>3. Rung(new) >= 4 => copy[cp.destination] = written /\ holds[cp.destination][m] = "active"
        BY <1>1, <1>3, <1>4, <1>6, <3>1 DEF CurrentAt, CarriesCurrent
      <3>4. QED
        BY <1>1, <2>3, <3>1, <3>2, <3>3 DEF CurrentAt
    <2>4. QED
      BY <1>1, <2>2, <2>3
  <1>11. ASSUME NEW v \in Workers, pc'[v] # "idle" PROVE CarriesCurrent(v)'
    <2>1. CASE v = w
      BY <1>2, <1>4, <1>7, <2>1 DEF CarriesCurrent
    <2>2. CASE v # w
      <3>1. /\ pc[v] # "idle" /\ loaded[v] \in Checkpoint /\ loaded[v].id = m
            /\ loaded[v].updatedAt <= cp.updatedAt
            /\ Rung(loaded[v]) \in 0..6 /\ Rung(loaded[v]) <= Rung(cp)
            /\ CarriesCurrent(v)
        BY <1>1, <1>2, <1>11, <2>2
      <3>2. Rung(loaded[v]) >= 2 => new.manifest = cp.manifest
        BY <1>4, <1>5, <1>6, <3>1
      <3>3. new # loaded[v]
        <4>1. cp.updatedAt \in Nat /\ loaded[v].updatedAt \in Nat
          BY <1>3, <3>1 DEF Checkpoint
        <4>2. QED
          BY <1>4, <3>1, <4>1
      <3>4. loaded[v].state = "transferred" => Rung(loaded[v]) = 3
        BY <3>1, Rungs
      <3>5. loaded[v].state = "transferred" /\ Frozen(m)' => Frozen(m)
        BY <1>1, <1>8, <3>1, <3>4
      <3>6. QED
        BY <1>2, <1>7, <2>2, <3>1, <3>2, <3>3, <3>5 DEF CarriesCurrent
    <2>3. QED
      BY <2>1, <2>2
  <1>12. (HomeCurrent \/ RolledBackOver)' /\ written' # 0
    <2>1. CASE HomeCurrent
      BY <1>2, <2>1 DEF HomeCurrent, KeptInv
    <2>2. CASE RolledBackOver
      <3>1. Restored(m) /\ holds[cp.destination][m] = "released" /\ copy[cp.destination] = written
        BY <1>1, <2>2 DEF RolledBackOver
      <3>2. QED
        BY <1>2, <1>4, <1>7, <3>1 DEF RolledBackOver, Restored, KeptInv
    <2>3. QED
      BY <2>1, <2>2 DEF KeptInv
  <1>13. QED
    BY <1>2, <1>7, <1>9, <1>10, <1>11, <1>12 DEF KeptInv

\* The route goes where the last acknowledged write is.
LEMMA SwapCurrent ==
  ASSUME MigrationAssumption, OneMigration, CommandInv, CarefulInv, KeptInv,
         CommandInv', CarefulInv', NEW w \in Workers, CutOver(w) \/ Restore(w)
  PROVE  KeptInv'
  <1>0. PICK m \in Migrations : m = loaded[w].id
    BY DEF CutOver, Restore, CommandInv, WorkerOK, Requested
  <1> DEFINE cp == checkpoint[m]
  <1>1. /\ pc[w] \in {"cutover", "restore"} /\ PlaceOK(w) /\ RouteOK(w) /\ ProgressOK(w)
        /\ Requested = {m} /\ CurrentAt(m) /\ CarriesCurrent(w) /\ ~Over(loaded[w])
        /\ route.revision \in Nat /\ cp.revision \in Nat /\ Rung(cp) \in 0..6
        /\ cp.source # cp.destination
        /\ loaded[w] \in Checkpoint
        /\ loaded[w].source = cp.source /\ loaded[w].destination = cp.destination
        /\ Rung(loaded[w]) <= Rung(cp)
        /\ \A v \in Workers : pc[v] # "idle" => loaded[v].id = m /\ CarriesCurrent(v)
    BY <1>0, StepWork DEF Step, CutOver, Restore
  <1>2. /\ UNCHANGED <<checkpoint, copy, holds, command, loaded, taken, written>>
        /\ pc'[w] \in {"advance", "release"} /\ pc'[w] = IF pc[w] = "cutover" THEN "advance" ELSE "release"
        /\ \A v \in Workers : v # w => pc'[v] = pc[v]
        /\ route.revision = read[w].revision /\ route'.revision = route.revision + 1
        /\ route'.home = IF pc[w] = "cutover" THEN cp.destination ELSE cp.source
    BY <1>1 DEF CutOver, Restore, Current, Swapped, Goto, cells, CommandInv, TypeOK
  <1>3. cp.revision = loaded[w].revision
    BY <1>0, <1>1, WorkIs
  <1>4. /\ pc[w] = "cutover" => Rung(cp) >= 4 /\ route.revision = cp.revision
        /\ pc[w] = "restore" => Rung(cp) >= 5 /\ route.revision = cp.revision + 1
                                /\ Decided(m, "rollback")
    <2>1. pc[w] = "cutover" => Rung(loaded[w]) = 4
      BY <1>1, Rungs DEF PlaceOK
    <2>2. pc[w] = "restore" => Rung(loaded[w]) = 5
      BY <1>1, Rungs DEF PlaceOK
    <2>3. QED
      BY <1>1, <1>2, <1>3, <2>1, <2>2, Rungs DEF PlaceOK, RouteOK, ProgressOK
  <1>5. Frozen(m)' => Frozen(m) /\ pc[w] = "cutover"
    BY <1>1, <1>2, <1>4 DEF Frozen
  <1>6. (HomeCurrent \/ RolledBackOver)'
    <2>1. CASE Frozen(m)
      BY <1>1, <1>2, <1>4, <2>1 DEF HomeCurrent, CurrentAt
    <2>2. CASE ~Frozen(m)
      <3>1. pc[w] = "restore" /\ holds[cp.destination][m] = "released"
        BY <1>1, <1>4, <2>2 DEF Frozen, CurrentAt
      <3>2. route.home = cp.destination /\ ~Restored(m) /\ Restored(m)'
        BY <1>1, <1>2, <1>3, <1>4, <3>1 DEF Restored, RouteOK
      <3>3. copy[cp.destination] = written
        BY <1>1, <3>2 DEF KeptInv, HomeCurrent, RolledBackOver
      <3>4. QED
        BY <1>1, <1>2, <3>1, <3>2, <3>3 DEF RolledBackOver, Requested
    <2>3. QED
      BY <2>1, <2>2
  <1>7. CurrentAt(m)'
    BY <1>1, <1>2, <1>4, <1>5 DEF CurrentAt, Frozen
  <1>8. Requested' = {m}
    BY <1>1, <1>2 DEF Requested
  <1>9. RouteAt(m)'
    <2>1. AtWork(w, m)'
      BY <1>1, <1>2 DEF AtWork, Over
    <2>2. m \in Migrations /\ InPlay(m)'
      BY <1>1, <1>8, <2>1 DEF InPlay, Requested
    <2>3. QED
      BY <2>2 DEF CarefulInv
  <1>10. ASSUME NEW v \in Workers, pc'[v] # "idle" PROVE CarriesCurrent(v)'
    <2>1. CASE v = w
      <3>1. loaded[w].state \in {"verified", "cutover"}
        BY <1>1 DEF PlaceOK
      <3>2. QED
        BY <1>1, <1>2, <2>1, <3>1 DEF CarriesCurrent
    <2>2. CASE v # w
      BY <1>1, <1>2, <1>5, <1>10, <2>2 DEF CarriesCurrent
    <2>3. QED
      BY <2>1, <2>2
  <1>11. QED
    BY <1>2, <1>6, <1>7, <1>8, <1>9, <1>10 DEF KeptInv

\* Nothing that a migration decides by changes.
LEMMA OutsideCurrent ==
  ASSUME MigrationAssumption, OneMigration, CommandInv, CarefulInv, KeptInv,
         CommandInv', CarefulInv',
         UNCHANGED <<route, checkpoint, holds, copy, written>>,
         \A v \in Workers : pc'[v] # "idle" =>
           \/ pc'[v] = pc[v] /\ loaded'[v] = loaded[v] /\ taken'[v] = taken[v]
           \/ /\ pc'[v] \in {"run", "route", "retire"}
              /\ loaded'[v] = checkpoint[loaded'[v].id]
  PROVE  KeptInv'
  <1>1. \A m \in Migrations : Frozen(m)' = Frozen(m)
    BY DEF Frozen
  <1>2. ASSUME NEW m \in Requested' PROVE RouteAt(m)' /\ CurrentAt(m)'
    BY <1>2 DEF KeptInv, Requested, RouteAt, CurrentAt, Frozen
  <1>3. ASSUME NEW v \in Workers, pc'[v] # "idle" PROVE CarriesCurrent(v)'
    BY <1>3 DEF KeptInv, CarriesCurrent, Frozen
  <1>4. QED
    BY <1>2, <1>3 DEF KeptInv, HomeCurrent, RolledBackOver, Restored, Requested

\* A migration is requested before anything was copied.
LEMMA RequestCurrent ==
  ASSUME MigrationAssumption, OneMigration, CommandInv, CarefulInv, KeptInv,
         CommandInv', CarefulInv', NEW m \in Migrations, NEW c \in Cells,
         NothingUnderWay, Request(m, c)
  PROVE  KeptInv'
  <1>1. /\ Requested = {} /\ c # route.home /\ Fresh(m) /\ (HomeCurrent \/ RolledBackOver)
        /\ UNCHANGED <<route, holds, copy, pc, written>>
        /\ \A w \in Workers : pc[w] = "idle"
    BY DEF Request, OneMigration, Requested, CarefulInv, NothingUnderWay, KeptInv, cells, workers
  <1>2. copy[c] = 0 /\ holds[c][m] = "none"
    BY <1>1 DEF KeptInv, Fresh
  <1>3. /\ checkpoint'[m].source = route.home /\ checkpoint'[m].revision = route.revision
        /\ checkpoint'[m].destination = c /\ checkpoint'[m].state = "requested"
    BY DEF Request, CommandInv, TypeOK
  <1>4. Rung(checkpoint'[m]) = 0
    BY <1>3 DEF Rung, Rank
  <1>5. RouteAt(m)' /\ CurrentAt(m)'
    BY <1>1, <1>2, <1>3, <1>4 DEF RouteAt, CurrentAt, Frozen
  <1>6. Requested' \subseteq {m}
    BY DEF Requested, OneMigration
  <1>7. QED
    BY <1>1, <1>5, <1>6 DEF KeptInv, HomeCurrent, RolledBackOver

\* While nobody may write, the cell the route names is held.
LEMMA FrozenHeld ==
  ASSUME MigrationAssumption, CommandInv, CarefulInv, KeptInv, NEW m \in Requested, Frozen(m)
  PROVE  Held(route.home)
  <1> DEFINE cp == checkpoint[m]
  <1>1. /\ m \in Migrations /\ RouteAt(m) /\ CurrentAt(m) /\ CheckpointOK(m)
        /\ cp \in Checkpoint /\ route.revision \in Nat
    BY DEF KeptInv, CommandInv, TypeOK, Requested, Route
  <1>2. cp.revision \in Nat /\ Rung(cp) \in 1..6
    BY <1>1, Rungs DEF Checkpoint, Frozen
  <1>3. CASE route.home = cp.source
    <2>1. Rung(cp) <= 4 /\ route.revision = cp.revision
      BY <1>1, <1>2, <1>3 DEF RouteAt, Frozen
    <2>2. UnderWay(m) /\ ~Ended(m) /\ ~Restored(m)
      BY <1>1, <1>2, <2>1, Rungs DEF UnderWay, Ended, Over, Restored
    <2>3. HoldAt(m)
      BY <1>1, <2>2 DEF CarefulInv, InPlay
    <2>4. QED
      BY <1>1, <1>3, <2>2, <2>3 DEF HoldAt, Held
  <1>4. CASE route.home # cp.source
    <2>1. Rung(cp) >= 4 /\ route.home = cp.destination
      BY <1>1, <1>4 DEF RouteAt
    <2>2. QED
      BY <1>1, <2>1 DEF CurrentAt, Held
  <1>5. QED
    BY <1>3, <1>4

\* A write that did not stray goes home, and only while nothing is frozen.
LEMMA WriteCurrent ==
  ASSUME MigrationAssumption, OneMigration, CommandInv, CarefulInv, KeptInv,
         CommandInv', CarefulInv', NEW c \in Cells, WriteDone(c), ~strayed'
  PROVE  KeptInv'
  <1>1. /\ UNCHANGED <<route, checkpoint, holds, pc, loaded, taken>>
        /\ c = route.home /\ ~Held(c)
    BY DEF WriteDone, workers
  <1>2. Requested' = Requested
    BY <1>1 DEF Requested
  <1>3. \A m \in Requested : ~Frozen(m) /\ ~Frozen(m)'
    BY <1>1, FrozenHeld DEF Frozen
  <1>4. HomeCurrent' /\ written' # 0 /\ \A d \in Cells : d # route.home => copy'[d] = copy[d]
    BY <1>1 DEF WriteDone, HomeCurrent, CommandInv, TypeOK
  <1>7. ASSUME NEW m \in Requested PROVE RouteAt(m)' /\ CurrentAt(m)'
    <2>1. /\ RouteAt(m) /\ CurrentAt(m) /\ checkpoint[m] \in Checkpoint
      BY <1>7 DEF KeptInv, CommandInv, TypeOK, Requested
    <2>2. checkpoint[m].destination \in Cells /\ Rung(checkpoint[m]) \in 0..6
      BY <2>1, Rungs DEF Checkpoint
    <2>3. Rung(checkpoint[m]) = 0 => checkpoint[m].destination # route.home
      BY <2>1 DEF RouteAt
    <2>4. QED
      BY <1>1, <1>3, <1>4, <1>7, <2>1, <2>2, <2>3 DEF RouteAt, CurrentAt
  <1>8. ASSUME NEW w \in Workers, pc'[w] # "idle" PROVE CarriesCurrent(w)'
    <2>1. WorkerOK(w) /\ CarriesCurrent(w)
      BY <1>1, <1>8 DEF CommandInv, KeptInv
    <2> DEFINE m == loaded[w].id
    <2>2. m \in Requested /\ RouteAt(m) /\ checkpoint[m] \in Checkpoint
      BY <2>1 DEF WorkerOK, KeptInv, CommandInv, TypeOK, Requested
    <2>3. loaded[w].state = "source_hold" => checkpoint[m] # loaded[w]
      <3>1. SUFFICES ASSUME checkpoint[m] = loaded[w], loaded[w].state = "source_hold" PROVE FALSE
        OBVIOUS
      <3>2. Rung(checkpoint[m]) = 1 /\ checkpoint[m].revision \in Nat
        BY <2>2, <3>1, Rungs DEF Checkpoint
      <3>3. Frozen(m)
        BY <2>2, <3>2 DEF RouteAt, Frozen, KeptInv, CurrentAt
      <3>4. QED
        BY <1>3, <2>2, <3>3
    <2>4. QED
      BY <1>1, <1>3, <2>1, <2>2, <2>3 DEF CarriesCurrent
  <1>9. QED
    BY <1>1, <1>2, <1>4, <1>7, <1>8 DEF KeptInv

\* The destination that is opened has the last write already.
LEMMA OpenCurrent ==
  ASSUME MigrationAssumption, OneMigration, CommandInv, CarefulInv, KeptInv,
         CommandInv', CarefulInv', NEW m \in Migrations, Open(m)
  PROVE  KeptInv'
  <1> DEFINE cp == checkpoint[m]
  <1>1. /\ UNCHANGED <<route, checkpoint, copy, pc, loaded, taken, written>>
        /\ route.home = cp.destination /\ holds'[cp.destination][m] = "released"
        /\ Requested = {m} /\ Requested' = {m} /\ cp \in Checkpoint /\ route.revision \in Nat
    BY DEF Open, OperatorRelease, OneMigration, Requested, CommandInv, TypeOK, workers, Route
  <1>2. RouteAt(m) /\ CurrentAt(m) /\ cp.revision \in Nat /\ Rung(cp) \in 0..6
    BY <1>1, Rungs DEF KeptInv, Checkpoint
  <1>3. route.revision = cp.revision + 1 /\ Rung(cp) >= 4
    BY <1>1, <1>2 DEF RouteAt
  <1>4. ~Restored(m) /\ ~Frozen(m)'
    BY <1>1, <1>2, <1>3 DEF Restored, Frozen
  <1>5. HomeCurrent'
    BY <1>1, <1>4 DEF KeptInv, RolledBackOver, HomeCurrent
  <1>6. RouteAt(m)' /\ CurrentAt(m)'
    BY <1>1, <1>2, <1>3, <1>4 DEF RouteAt, CurrentAt
  <1>7. ASSUME NEW w \in Workers, pc'[w] # "idle" PROVE CarriesCurrent(w)'
    <2>1. WorkerOK(w) /\ CarriesCurrent(w)
      BY <1>1, <1>7 DEF CommandInv, KeptInv
    <2>2. loaded[w].id = m
      BY <1>1, <2>1 DEF WorkerOK
    <2>3. QED
      BY <1>1, <1>4, <2>1, <2>2 DEF CarriesCurrent
  <1>8. QED
    BY <1>1, <1>5, <1>6, <1>7 DEF KeptInv

LEMMA CurrentStep ==
  ASSUME MigrationAssumption, OneMigration, CommandInv, CarefulInv, KeptInv,
         CommandInv', CarefulInv', [CarefulNext]_vars, ~strayed'
  PROVE  KeptInv'
  <1>1. ASSUME NEW w \in Workers, Step(w) PROVE KeptInv'
    BY <1>1, ResumeCurrent, EndCurrent, AdvanceCurrent, SwapCurrent DEF Step
  <1>2. ASSUME NEW w \in Workers, Stop(w) PROVE KeptInv'
    <2>1. /\ UNCHANGED <<route, checkpoint, holds, copy, written>> /\ pc'[w] = "idle"
          /\ \A v \in Workers : v # w =>
               pc'[v] = pc[v] /\ loaded'[v] = loaded[v] /\ taken'[v] = taken[v]
      BY <1>2 DEF Stop, Goto, cells, CommandInv, TypeOK
    <2>2. QED
      BY <2>1, OutsideCurrent
  <1>3. ASSUME NEW w \in Workers, NEW m \in Migrations, NEW what \in Commands, Begin(w, m, what)
        PROVE  KeptInv'
    <2>1. /\ UNCHANGED <<route, checkpoint, holds, copy, taken, written>>
          /\ pc'[w] \in {"run", "route", "retire"} /\ loaded'[w] = checkpoint[m]
          /\ m \in Requested
          /\ \A v \in Workers : v # w => pc'[v] = pc[v] /\ loaded'[v] = loaded[v]
      BY <1>3 DEF Begin, Goto, cells, CommandInv, TypeOK, Requested, Commands
    <2>2. checkpoint[m].id = m
      BY <2>1 DEF CommandInv, CheckpointOK
    <2>3. QED
      BY <2>1, <2>2, OutsideCurrent
  <1>4. ASSUME NEW c \in Cells, WriteAdmitted(c) PROVE KeptInv'
    <2>1. UNCHANGED <<route, checkpoint, holds, copy, pc, loaded, taken, written>>
      BY <1>4 DEF WriteAdmitted, cells, workers
    <2>2. QED
      BY <2>1, OutsideCurrent
  <1>5. CASE Tick \/ UNCHANGED vars
    <2>1. UNCHANGED <<route, checkpoint, holds, copy, pc, loaded, taken, written>>
      BY <1>5 DEF Tick, vars, cells, workers
    <2>2. QED
      BY <2>1, OutsideCurrent
  <1>6. QED
    BY <1>1, <1>2, <1>3, <1>4, <1>5, RequestCurrent, WriteCurrent, OpenCurrent
       DEF CarefulNext, CarefulCommand, Steps, Writes, SerialWrite, Clock

\* A write that strayed stays one that did.
LEMMA StrayedStays ==
  ASSUME [CarefulNext]_vars
  PROVE  strayed => strayed'
  <1>1. ASSUME NEW w \in Workers, Step(w) PROVE strayed' = strayed
    BY <1>1 DEF Step, Advance, PlaceSourceHold, ExportSource, TransferObjects, ImportRecords,
       ImportHolds, ReadRoute, CutOver, ReadRouteBack, Restore, ReleaseSourceHold,
       RetireContent, RetireCreator
  <1>2. QED
    BY <1>1 DEF CarefulNext, CarefulCommand, Steps, Writes, SerialWrite, Clock, Request, Stop,
       Begin, Open, OperatorRelease, WriteAdmitted, WriteDone, Tick, vars

LEMMA CurrentStart ==
  ASSUME MigrationAssumption, Init
  PROVE  KeptInv
  BY DEF MigrationAssumption, Init, KeptInv, HomeCurrent, InitialRoute, Requested

\* However the one migration is interrupted, repeated, rolled back or retired, and with
\* the creator writing at any of its steps: the cell the route names has the last
\* acknowledged write, unless a write passed the guard before the source hold and was
\* done under it, went to another cell than the home, or the destination was opened, took
\* the last write and was rolled back.  (A second migration to the same cell takes the
\* records the first left there for its own: run migration_again.)
THEOREM HomeHasLastWrite ==
  ASSUME MigrationAssumption, OneMigration
  PROVE  CarefulSpec => []HomeKept
  <1> DEFINE Inv == CommandInv /\ CarefulInv /\ (strayed \/ KeptInv)
  <1>1. Init => Inv
    BY CommandStart, CarefulStart, CurrentStart
  <1>2. Inv /\ [CarefulNext]_vars => Inv'
    <2> SUFFICES ASSUME Inv, [CarefulNext]_vars PROVE Inv'
      OBVIOUS
    <2>1. CommandInv' /\ CarefulInv'
      BY CommandStep, CarefulStep, CarefulIsNext
    <2>2. ASSUME ~strayed' PROVE KeptInv'
      BY <2>1, <2>2, CurrentStep, StrayedStays
    <2>3. QED
      BY <2>1, <2>2
  <1>3. Inv => HomeKept
    BY DEF KeptInv, HomeKept
  <1>4. QED
    BY <1>1, <1>2, <1>3, PTL DEF CarefulSpec
=============================================================================
