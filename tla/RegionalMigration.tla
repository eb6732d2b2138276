--------------------------- MODULE RegionalMigration ---------------------------
(***************************************************************************)
(* Moving a creator from one regional cell to another: the coordinator     *)
(* (MigrationOrchestrator, packages/deployment-platform/src/index.ts), the *)
(* private commands of the two cells (apps/reference-api/src/              *)
(* migration-cell.ts), the routing directory and checkpoint store (the     *)
(* compare-and-swap stores of adapters/local and adapters/aws), and the    *)
(* write guard of a cell (requireCreatorWritable, server.ts).              *)
(*                                                                         *)
(* Workers run resume, rollback and retire commands, several at once and   *)
(* more than once (SQS redelivers them); a worker may stop between any two *)
(* calls it makes.  The creator's records in a cell are taken as one, whose *)
(* content is a version number; 0 means none.  updatedAt of a checkpoint is *)
(* the number of its write: no two writes carry the same time.              *)
(***************************************************************************)
EXTENDS Naturals

CONSTANTS Cells,
          Home,         \* the cell the creator starts in
          Migrations,   \* migration ids
          NoCheckpoint, \* a migration that was not requested
          Workers,
          Window        \* rollbackWindowSeconds

VARIABLES
  route,        \* the creator's CellRoute: [home, revision, state]
  checkpoint,   \* MigrationCheckpoint of each migration
  holds,        \* moderation holds on the creator, by cell and migration
  creator,      \* cells that have the creator's own record
  copy,         \* version of the creator's content in each cell
  now,
  pc, command,  \* what a worker runs
  loaded,       \* the checkpoint it works from
  read,         \* the route it read
  taken,        \* the manifest its export returned
  writing,      \* cells with a creator request that passed the write guard
  written,      \* version of the creator's last acknowledged write
  strayed       \* history: a write was acknowledged by a held cell, or away from home

cells == <<holds, creator, copy>>
workers == <<pc, command, loaded, read, taken>>
vars == <<route, checkpoint, cells, now, workers, writing, written, strayed>>

MigrationState == {"requested", "source_hold", "exported", "transferred",
                   "verified", "cutover", "rolled_back", "retired"}
Hold == {"none", "active", "released"}
Route == [home : Cells, revision : Nat, state : {"active", "rollback_available"}]
Manifest == [version : Nat, holds : [Migrations -> Hold]]
Checkpoint == [id : Migrations, source : Cells, revision : Nat, destination : Cells,
               state : MigrationState, rollbackUntil : Nat, manifest : Manifest,
               updatedAt : Nat]

NoManifest == [version |-> 0, holds |-> [m \in Migrations |-> "none"]]
InitialRoute == [home |-> Home, revision |-> 1, state |-> "active"]

Init ==
  /\ route = InitialRoute
  /\ checkpoint = [m \in Migrations |-> NoCheckpoint]
  /\ holds = [c \in Cells |-> [m \in Migrations |-> "none"]]
  /\ creator = {Home}
  /\ copy = [c \in Cells |-> IF c = Home THEN 1 ELSE 0]
  /\ now = 0
  /\ pc = [w \in Workers |-> "idle"]
  /\ command = [w \in Workers |-> "resume"]
  /\ loaded = [w \in Workers |-> NoCheckpoint]
  /\ read = [w \in Workers |-> InitialRoute]
  /\ taken = [w \in Workers |-> NoManifest]
  /\ writing = {}
  /\ written = 1
  /\ strayed = FALSE

\* request(): a checkpoint over the route as it is; nothing looks for other
\* migrations of the creator.
Request(m, destination) ==
  /\ checkpoint[m] = NoCheckpoint
  /\ destination # route.home
  /\ checkpoint' = [checkpoint EXCEPT ![m] =
       [id |-> m, source |-> route.home, revision |-> route.revision,
        destination |-> destination, state |-> "requested", rollbackUntil |-> 0,
        manifest |-> NoManifest, updatedAt |-> 0]]
  /\ UNCHANGED <<route, cells, now, workers, writing, written, strayed>>

-----------------------------------------------------------------------------
(* The coordinator's commands.                                              *)

Goto(w, where) == pc' = [pc EXCEPT ![w] = where]

Begin_AnyState(w, m, what) ==
  LET cp == checkpoint[m]
  IN  /\ pc[w] = "idle"
      /\ cp # NoCheckpoint
      /\ what = "retire" => cp.rollbackUntil <= now
      /\ loaded' = [loaded EXCEPT ![w] = cp]
      /\ command' = [command EXCEPT ![w] = what]
      /\ Goto(w, CASE what = "resume" -> "run"
                   [] what = "rollback" -> "route"
                   [] what = "retire" -> "retire")
      /\ UNCHANGED <<route, checkpoint, cells, now, read, taken, writing, written, strayed>>

Begin_InWindow(w, m, what) ==
  LET cp == checkpoint[m]
  IN  /\ pc[w] = "idle"
      /\ cp # NoCheckpoint
      /\ what \in {"rollback", "retire"} => cp.state = "cutover"
      /\ loaded' = [loaded EXCEPT ![w] = cp]
      /\ command' = [command EXCEPT ![w] = what]
      /\ Goto(w, CASE what = "resume" -> "run"
                   [] what = "rollback" -> "route"
                   [] what = "retire" -> "retire")
      /\ UNCHANGED <<route, checkpoint, cells, now, read, taken, writing, written, strayed>>

\* A command begins by reading the checkpoint.  rollback() and retire() give
\* up unless the migration has cut over, retire() also while the window lasts.
Begin(w, m, what) ==
  LET cp == checkpoint[m]
  IN  /\ pc[w] = "idle"
      /\ cp # NoCheckpoint
      /\ what \in {"rollback", "retire"} => cp.state = "cutover"
      /\ what = "retire" => cp.rollbackUntil <= now
      /\ loaded' = [loaded EXCEPT ![w] = cp]
      /\ command' = [command EXCEPT ![w] = what]
      /\ Goto(w, CASE what = "resume" -> "run"
                   [] what = "rollback" -> "route"
                   [] what = "retire" -> "retire")
      /\ UNCHANGED <<route, checkpoint, cells, now, read, taken, writing, written, strayed>>

\* The worker stops, an error is thrown, or resume() has nothing left to do.
Stop(w) ==
  /\ pc[w] # "idle"
  /\ Goto(w, "idle")
  /\ loaded' = [loaded EXCEPT ![w] = NoCheckpoint]
  /\ read' = [read EXCEPT ![w] = InitialRoute]
  /\ taken' = [taken EXCEPT ![w] = NoManifest]
  /\ UNCHANGED <<route, checkpoint, cells, now, command, writing, written, strayed>>

Following == [requested |-> "source_hold", source_hold |-> "exported",
              exported |-> "transferred", transferred |-> "verified",
              verified |-> "cutover"]

Target(w) ==
  CASE command[w] = "resume" -> Following[loaded[w].state]
    [] command[w] = "rollback" -> "rolled_back"
    [] command[w] = "retire" -> "retired"

Advanced(w) ==
  [loaded[w] EXCEPT
     !.state = Target(w),
     !.updatedAt = @ + 1,
     !.manifest = IF Target(w) = "exported" THEN taken[w] ELSE @,
     !.rollbackUntil = IF Target(w) = "cutover" THEN now + Window ELSE @]

Advance_LastWriterWins(w) ==
  /\ pc[w] = "advance"
  /\ checkpoint' = [checkpoint EXCEPT ![loaded[w].id] = Advanced(w)]
  /\ loaded' = [loaded EXCEPT ![w] = Advanced(w)]
  /\ Goto(w, "run")
  /\ UNCHANGED <<route, cells, now, command, read, taken, writing, written, strayed>>

\* advance(): the checkpoint is replaced if it is still the one that was read.
Advance(w) ==
  /\ pc[w] = "advance"
  /\ checkpoint[loaded[w].id].updatedAt = loaded[w].updatedAt
  /\ checkpoint' = [checkpoint EXCEPT ![loaded[w].id] = Advanced(w)]
  /\ loaded' = [loaded EXCEPT ![w] = Advanced(w)]
  /\ Goto(w, "run")
  /\ UNCHANGED <<route, cells, now, command, read, taken, writing, written, strayed>>

\* resume() is at the step that follows state s.
At(w, s) == pc[w] = "run" /\ command[w] = "resume" /\ loaded[w].state = s

-----------------------------------------------------------------------------
(* resume()                                                                 *)

PlaceSourceHold_OnDestination(w) ==
  LET cp == loaded[w]
  IN  /\ At(w, "requested")
      /\ cp.source \in creator
      /\ holds' = [holds EXCEPT ![cp.destination][cp.id] = IF @ = "none" THEN "active" ELSE @]
      /\ Goto(w, "advance")
      /\ UNCHANGED <<route, checkpoint, creator, copy, now, command, loaded, read,
                     taken, writing, written, strayed>>

\* A hold that was released is found again under its id and stays released.
PlaceSourceHold(w) ==
  LET cp == loaded[w]
  IN  /\ At(w, "requested")
      /\ cp.source \in creator
      /\ holds' = [holds EXCEPT ![cp.source][cp.id] = IF @ = "none" THEN "active" ELSE @]
      /\ Goto(w, "advance")
      /\ UNCHANGED <<route, checkpoint, creator, copy, now, command, loaded, read,
                     taken, writing, written, strayed>>

\* The manifest carries the creator's holds, the migration's own among them.
ExportSource(w) ==
  LET from == loaded[w].source
  IN  /\ At(w, "source_hold")
      /\ from \in creator
      /\ taken' = [taken EXCEPT ![w] = [version |-> copy[from], holds |-> holds[from]]]
      /\ Goto(w, "advance")
      /\ UNCHANGED <<route, checkpoint, cells, now, command, loaded, read, writing, written, strayed>>

\* Objects are copied and checked against the inventory, or the command fails.
TransferObjects(w) ==
  /\ At(w, "exported")
  /\ Goto(w, "advance")
  /\ UNCHANGED <<route, checkpoint, cells, now, command, loaded, read, taken,
                 writing, written, strayed>>

\* Records the destination already has under the same id are left alone.
ImportRecords(w) ==
  LET cp == loaded[w]
  IN  /\ At(w, "transferred")
      /\ creator' = creator \cup {cp.destination}
      /\ copy' = [copy EXCEPT ![cp.destination] = IF @ = 0 THEN cp.manifest.version ELSE @]
      /\ Goto(w, "holds")
      /\ UNCHANGED <<route, checkpoint, holds, now, command, loaded, read, taken,
                     writing, written, strayed>>

ImportHolds(w) ==
  LET cp == loaded[w]
  IN  /\ pc[w] = "holds"
      /\ holds' = [holds EXCEPT ![cp.destination] =
           [m \in Migrations |-> IF @[m] = "none" THEN cp.manifest.holds[m] ELSE @[m]]]
      /\ Goto(w, "advance")
      /\ UNCHANGED <<route, checkpoint, creator, copy, now, command, loaded, read,
                     taken, writing, written, strayed>>

AlreadyCutOver(cp, rt) ==
  rt.home = cp.destination /\ rt.revision = cp.revision + 1

MayCutOver_AnyRevision(cp, rt) == cp.source = rt.home

\* cutoverCellRoute(): only over the route the migration was requested from.
MayCutOver(cp, rt) ==
  cp.source = rt.home /\ cp.revision = rt.revision

ReadRoute_CutOverOnce(w) ==
  /\ At(w, "verified")
  /\ MayCutOver(loaded[w], route)
  /\ read' = [read EXCEPT ![w] = route]
  /\ Goto(w, "cutover")
  /\ UNCHANGED <<route, checkpoint, cells, now, command, loaded, taken, writing, written, strayed>>

\* enableDestination() only records an audit event; then the route is read.
ReadRoute(w) ==
  LET cp == loaded[w]
  IN  /\ At(w, "verified")
      /\ AlreadyCutOver(cp, route) \/ MayCutOver(cp, route)
      /\ read' = [read EXCEPT ![w] = route]
      /\ Goto(w, IF AlreadyCutOver(cp, route) THEN "advance" ELSE "cutover")
      /\ UNCHANGED <<route, checkpoint, cells, now, command, loaded, taken,
                     writing, written, strayed>>

Swapped(w, home, state) ==
  [home |-> home, revision |-> read[w].revision + 1, state |-> state]

\* The directory takes a route only over the revision it replaces.
Current_Unchecked(w) == TRUE

Current(w) == route.revision = read[w].revision

CutOver(w) ==
  /\ pc[w] = "cutover"
  /\ Current(w)
  /\ route' = Swapped(w, loaded[w].destination, "rollback_available")
  /\ Goto(w, "advance")
  /\ UNCHANGED <<checkpoint, cells, now, command, loaded, read, taken, writing, written, strayed>>

-----------------------------------------------------------------------------
(* rollback()                                                               *)

AlreadyRestored(cp, rt) ==
  /\ rt.home = cp.source
  /\ rt.revision = cp.revision + 2
  /\ rt.state = "active"

MayRollBack(cp, rt) ==
  /\ rt.home = cp.destination
  /\ rt.revision = cp.revision + 1
  /\ cp.rollbackUntil >= now

\* rollbackDestination() only records an audit event.
ReadRouteBack(w) ==
  LET cp == loaded[w]
  IN  /\ pc[w] = "route"
      /\ AlreadyRestored(cp, route) \/ MayRollBack(cp, route)
      /\ read' = [read EXCEPT ![w] = route]
      /\ Goto(w, IF AlreadyRestored(cp, route) THEN "release" ELSE "restore")
      /\ UNCHANGED <<route, checkpoint, cells, now, command, loaded, taken,
                     writing, written, strayed>>

Restore(w) ==
  /\ pc[w] = "restore"
  /\ Current(w)
  /\ route' = Swapped(w, loaded[w].source, "active")
  /\ Goto(w, "release")
  /\ UNCHANGED <<checkpoint, cells, now, command, loaded, read, taken, writing, written, strayed>>

ReleaseSourceHold_Early(w) ==
  LET cp == loaded[w]
  IN  /\ pc[w] \in {"route", "restore", "release"}
      /\ holds' = [holds EXCEPT ![cp.source][cp.id] = IF @ = "active" THEN "released" ELSE @]
      /\ Goto(w, IF pc[w] = "release" THEN "advance" ELSE pc[w])
      /\ UNCHANGED <<route, checkpoint, creator, copy, now, command, loaded, read,
                     taken, writing, written, strayed>>

\* Write authority returns to the source after the route has.
ReleaseSourceHold(w) ==
  LET cp == loaded[w]
  IN  /\ pc[w] = "release"
      /\ holds' = [holds EXCEPT ![cp.source][cp.id] = IF @ = "active" THEN "released" ELSE @]
      /\ Goto(w, "advance")
      /\ UNCHANGED <<route, checkpoint, creator, copy, now, command, loaded, read,
                     taken, writing, written, strayed>>

-----------------------------------------------------------------------------
(* retire(): the content and the holds go first, the creator's record last. *)

RetireContent(w) ==
  LET from == loaded[w].source
  IN  /\ pc[w] = "retire"
      /\ copy' = [copy EXCEPT ![from] = 0]
      /\ holds' = [holds EXCEPT ![from] = [m \in Migrations |-> "none"]]
      /\ Goto(w, "creator")
      /\ UNCHANGED <<route, checkpoint, creator, now, command, loaded, read, taken,
                     writing, written, strayed>>

RetireCreator(w) ==
  /\ pc[w] = "creator"
  /\ creator' = creator \ {loaded[w].source}
  /\ Goto(w, "advance")
  /\ UNCHANGED <<route, checkpoint, holds, copy, now, command, loaded, read, taken,
                 writing, written, strayed>>

-----------------------------------------------------------------------------
(* The creator's requests to a cell.                                        *)

Held(c) == \E m \in Migrations : holds[c][m] = "active"
Writable(c) == c \in creator /\ ~Held(c)

\* requireCreatorWritable() passes; the records are written some time after.
WriteAdmitted(c) ==
  /\ Writable(c)
  /\ c \notin writing
  /\ writing' = writing \cup {c}
  /\ UNCHANGED <<route, checkpoint, cells, now, workers, written, strayed>>

WriteDone(c) ==
  /\ c \in writing
  /\ writing' = writing \ {c}
  /\ copy' = [copy EXCEPT ![c] = written + 1]
  /\ written' = written + 1
  /\ strayed' = (strayed \/ c # route.home \/ Held(c))
  /\ UNCHANGED <<route, checkpoint, holds, creator, now, workers>>

\* POST /v1/operations/holds/:id/release: an operator releases a hold by hand.
OperatorRelease(c, m) ==
  /\ holds[c][m] = "active"
  /\ holds' = [holds EXCEPT ![c][m] = "released"]
  /\ UNCHANGED <<route, checkpoint, creator, copy, now, workers, writing, written, strayed>>

Tick ==
  /\ now' = now + 1
  /\ UNCHANGED <<route, checkpoint, cells, workers, writing, written, strayed>>

Step(w) ==
  \/ Advance(w) \/ PlaceSourceHold(w) \/ ExportSource(w) \/ TransferObjects(w)
  \/ ImportRecords(w) \/ ImportHolds(w) \/ ReadRoute(w) \/ CutOver(w)
  \/ ReadRouteBack(w) \/ Restore(w) \/ ReleaseSourceHold(w)
  \/ RetireContent(w) \/ RetireCreator(w)

Next ==
  \/ \E m \in Migrations, c \in Cells : Request(m, c)
  \/ \E w \in Workers : Step(w) \/ Stop(w)
  \/ \E w \in Workers, m \in Migrations, what \in {"resume", "rollback", "retire"} :
       Begin(w, m, what)
  \/ \E c \in Cells : WriteAdmitted(c) \/ WriteDone(c)
  \/ \E c \in Cells, m \in Migrations : OperatorRelease(c, m)
  \/ Tick

Spec == Init /\ [][Next]_vars

-----------------------------------------------------------------------------
(* Properties.                                                              *)

Where == {"idle", "run", "advance", "holds", "cutover", "route", "restore",
          "release", "retire", "creator"}

TypeOK ==
  /\ route \in Route
  /\ checkpoint \in [Migrations -> Checkpoint \cup {NoCheckpoint}]
  /\ holds \in [Cells -> [Migrations -> Hold]]
  /\ creator \subseteq Cells
  /\ copy \in [Cells -> Nat]
  /\ now \in Nat
  /\ pc \in [Workers -> Where]
  /\ command \in [Workers -> {"resume", "rollback", "retire"}]
  /\ loaded \in [Workers -> Checkpoint \cup {NoCheckpoint}]
  /\ read \in [Workers -> Route]
  /\ taken \in [Workers -> Manifest]
  /\ writing \subseteq Cells
  /\ written \in Nat
  /\ strayed \in BOOLEAN

Requested == {m \in Migrations : checkpoint[m] # NoCheckpoint}

\* Whichever cell the route names has the creator's content.
HomeHasContent == copy[route.home] # 0

UnderWay(m) ==
  \/ checkpoint[m].state \in {"source_hold", "exported", "transferred", "verified"}
  \/ checkpoint[m].state = "cutover" /\ checkpoint[m].rollbackUntil > now

Restored(m) == route.revision >= checkpoint[m].revision + 2

\* ... and the creator's last acknowledged write, through migration, rollback and
\* retirement with writes under way at every step (exportCreator, importCreator,
\* requireCreatorWritable) -- unless a write passed the guard before the source hold and
\* was done under it, or went to another cell than the home, or the destination was
\* opened, took the last write, and was then rolled back.
HomeCurrent == copy[route.home] = written
RolledBackOver ==
  \E m \in Requested :
    LET to == checkpoint[m].destination
    IN  Restored(m) /\ holds[to][m] = "released" /\ copy[to] = written
HomeKept == HomeCurrent \/ strayed \/ RolledBackOver

\* "Keep the source read-only until the recorded rollback deadline"
\* (docs/regional-migration.md): from the source hold on, through crashes and
\* repeated commands, the source takes no writes unless the route came back.
SourceReadOnly ==
  \A m \in Requested : UnderWay(m) /\ ~Restored(m) => Held(checkpoint[m].source)

\* "source deletion is impossible before retention expiry and explicit
\* retirement" (docs/regional-migration.md): what a rollback returns to is kept.
SourceKept ==
  \A m \in Requested :
    checkpoint[m].state = "cutover" /\ checkpoint[m].rollbackUntil > now
      => copy[checkpoint[m].source] # 0

Followers(s) ==
  IF s \in DOMAIN Following THEN {Following[s]}
  ELSE IF s = "cutover" THEN {"rolled_back", "retired"} ELSE {}

\* A checkpoint only moves along the lifecycle, one write at a time, whichever
\* stale workers still hold an older copy of it: terminal states stay.
LifecycleForward ==
  \A m \in Requested : checkpoint'[m] # checkpoint[m] =>
    /\ checkpoint'[m].updatedAt = checkpoint[m].updatedAt + 1
    /\ checkpoint'[m].state \in Followers(checkpoint[m].state)

\* "repeated worker calls do not create a second route revision"
\* (docs/regional-migration.md): the route leaves the source only by a verified
\* migration requested at that very revision, and returns only by the rollback
\* of the migration that moved it.
RouteMovesVerified ==
  route' # route =>
    /\ route'.revision = route.revision + 1
    /\ \E m \in Requested :
         LET cp == checkpoint[m]
         IN  \/ /\ cp.state = "verified"
                /\ route.home = cp.source /\ route.revision = cp.revision
                /\ route'.home = cp.destination
             \/ /\ cp.state \in {"cutover", "retired"}
                /\ route.home = cp.destination /\ route.revision = cp.revision + 1
                /\ route'.home = cp.source

\* A migration that was requested is cut over, as long as resume is repeated.
MovesTo(m) == checkpoint[m].state \in {"requested", "source_hold", "exported", "transferred", "verified"}
MigrationCompletes == \A m \in Migrations : []<>(m \in Requested => ~MovesTo(m))
=============================================================================
