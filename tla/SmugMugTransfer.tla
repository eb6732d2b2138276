--------------------------- MODULE SmugMugTransfer ---------------------------
(***************************************************************************)
(* Import of a reviewed SmugMug inventory: confirm, initializeItems and    *)
(* resume of packages/integrations/src/smugmug-migration.ts.               *)
(*                                                                         *)
(* One migration over the images 1..Images of its scope.  Items are first  *)
(* created page by page and then swept page by page; every call does one   *)
(* page of either and saves its position.  Items and positions are written *)
(* separately from the content sink, and the sweep's own position without  *)
(* a comparison.  A page is one record here.                               *)
(***************************************************************************)
EXTENDS Naturals

CONSTANTS Images,        \* number of images in the inventory
          Unselected,    \* images outside the selected galleries
          WithOriginal,  \* images whose original may be downloaded
          Sweepers,      \* concurrent calls of confirm and resume
          MaxSweepFaults \* bound: calls that end half-way, transient failures

MaxItemTries == 3
AllImages == 1..Images
Modes == {"reference", "selected", "full"}
Finished == {"imported", "transferred", "reused"}

VARIABLES
  import,      \* SmugMugMigration: mode, status, the two positions, failures so far
  items,       \* item of each image, NoItem if there is none
  hosted,      \* the sink: accepted assets of each image
  sweeper,     \* each call: its step, the migration it read, its item, what it found
  overlapped,  \* history: two sweeps were under way together
  sweepFaults

importVars == <<import, items, hosted, sweeper, overlapped, sweepFaults>>

NoItem == [state |-> "none", quality |-> "none", tries |-> 0]
Item == [state : {"none", "pending", "failed", "quarantined"} \cup Finished, quality : {"none", "reference", "highest"},
         tries : 0..MaxItemTries]
Import == [mode : Modes \cup {"none"}, status : {"review", "running", "completed", "partial"},
           created : 0..Images, ready : BOOLEAN, after : 0..Images, failures : BOOLEAN]
Away == [at |-> "idle", seen |-> [mode |-> "none", status |-> "review", created |-> 0, ready |-> FALSE,
                                  after |-> 0, failures |-> FALSE],
         id |-> 0, item |-> NoItem, found |-> FALSE]

Selected(mode) == IF mode = "selected" THEN AllImages \ Unselected ELSE AllImages
QualityOf(mode, i) == IF mode = "reference" \/ i \notin WithOriginal THEN "reference" ELSE "highest"
Existing == {i \in AllImages : items[i] # NoItem}

ImportInit ==
  /\ import = Away.seen
  /\ items = [i \in AllImages |-> NoItem]
  /\ hosted = [i \in AllImages |-> 0]
  /\ sweeper = [w \in Sweepers |-> Away]
  /\ overlapped = FALSE
  /\ sweepFaults = 0

Moves(w, step) == sweeper' = [sweeper EXCEPT ![w].at = step]
Leaves(w) == sweeper' = [sweeper EXCEPT ![w] = Away]
Same(w) == import = sweeper[w].seen

\* The mode is chosen once: REVIEW to RUNNING by compare-and-swap.
Confirm(mode) ==
  /\ import.status = "review"
  /\ import' = [import EXCEPT !.mode = mode, !.status = "running"]
  /\ UNCHANGED <<items, hosted, sweeper, overlapped, sweepFaults>>

Resume(w) ==
  /\ sweeper[w].at = "idle" /\ import.mode # "none"
  /\ sweeper' = [sweeper EXCEPT ![w].seen = import, ![w].at = IF import.ready THEN "page" ELSE "create"]
  /\ overlapped' = (overlapped \/ \E v \in Sweepers : sweeper[v].at \notin {"idle", "create", "created"})
  /\ UNCHANGED <<import, items, hosted, sweepFaults>>

\* initializeItems: an item that is there already stays as it is.
Create(w) ==
  LET i == sweeper[w].seen.created + 1
      mode == sweeper[w].seen.mode
  IN /\ sweeper[w].at = "create"
     /\ items' = IF i \in Selected(mode) /\ items[i] = NoItem
                   THEN [items EXCEPT ![i] = [state |-> "pending", quality |-> QualityOf(mode, i), tries |-> 0]] ELSE items
     /\ Moves(w, "created")
     /\ UNCHANGED <<import, hosted, overlapped, sweepFaults>>

Created(w) ==
  LET next == [sweeper[w].seen EXCEPT !.created = @ + 1, !.ready = (@ \/ sweeper[w].seen.created + 1 = Images)]
  IN /\ sweeper[w].at = "created"
     /\ IF ~Same(w) THEN Leaves(w) /\ UNCHANGED <<import, overlapped>>
        ELSE /\ import' = next
             /\ IF next.ready THEN sweeper' = [sweeper EXCEPT ![w].at = "page", ![w].seen = next] ELSE Leaves(w)
             /\ overlapped' = (overlapped \/ (next.ready /\ \E v \in Sweepers \ {w} : sweeper[v].at # "idle"))
     /\ UNCHANGED <<items, hosted, sweepFaults>>

\* The next saved item, if it is due: pending, or failed with attempts left.
Page(w) ==
  LET rest == {i \in Existing : i > sweeper[w].seen.after}
      i == CHOOSE j \in rest : \A k \in rest : j <= k
      due == items[i].state = "pending" \/ (items[i].state = "failed" /\ items[i].tries < MaxItemTries)
  IN /\ sweeper[w].at = "page"
     /\ IF rest = {} THEN Moves(w, "position")
        ELSE sweeper' = [sweeper EXCEPT ![w].id = i, ![w].item = [items[i] EXCEPT !.tries = IF due THEN @ + 1 ELSE @],
                                        ![w].at = IF due THEN "import" ELSE "position"]
     /\ UNCHANGED <<import, items, hosted, overlapped, sweepFaults>>

Outcome(w, state) == sweeper' = [sweeper EXCEPT ![w].item.state = state, ![w].at = "save"]

\* importReference; a reference is all of some items.
ImportReference(w) ==
  /\ sweeper[w].at = "import"
  /\ IF sweeper[w].item.quality = "reference" THEN Outcome(w, "imported") ELSE Moves(w, "download")
  /\ UNCHANGED <<import, items, hosted, overlapped, sweepFaults>>

Download_NoLookup(w) ==
  /\ sweeper[w].at = "download"
  /\ Moves(w, "store")
  /\ UNCHANGED <<import, items, hosted, overlapped, sweepFaults>>

\* download, verification and findAssetByChecksum
Download(w) ==
  /\ sweeper[w].at = "download"
  /\ sweeper' = [sweeper EXCEPT ![w].found = hosted[sweeper[w].id] > 0, ![w].at = "store"]
  /\ UNCHANGED <<import, items, hosted, overlapped, sweepFaults>>

Store(w) ==
  /\ sweeper[w].at = "store"
  /\ IF sweeper[w].found THEN Outcome(w, "reused") /\ UNCHANGED hosted
     ELSE \/ Outcome(w, "quarantined") /\ UNCHANGED hosted
          \/ Outcome(w, "transferred") /\ hosted' = [hosted EXCEPT ![sweeper[w].id] = @ + 1]
  /\ UNCHANGED <<import, items, overlapped, sweepFaults>>

\* A refusal of the source or the policy is final, a failed transfer is not.
Refuse(w) ==
  /\ sweeper[w].at \in {"import", "download"}
  /\ sweeper' = [sweeper EXCEPT ![w].item.state = "failed", ![w].item.tries = MaxItemTries, ![w].at = "save"]
  /\ UNCHANGED <<import, items, hosted, overlapped, sweepFaults>>

TransferFails(w) ==
  /\ sweeper[w].at \in {"import", "download", "store"} /\ sweepFaults < MaxSweepFaults
  /\ sweepFaults' = sweepFaults + 1
  /\ Outcome(w, "failed")
  /\ \/ UNCHANGED hosted
     \/ sweeper[w].at = "store" /\ ~sweeper[w].found /\ hosted' = [hosted EXCEPT ![sweeper[w].id] = @ + 1]
  /\ UNCHANGED <<import, items, overlapped>>

Save(w) ==
  /\ sweeper[w].at = "save"
  /\ items' = [items EXCEPT ![sweeper[w].id] = sweeper[w].item]
  /\ Moves(w, "position")
  /\ UNCHANGED <<import, hosted, overlapped, sweepFaults>>

OutcomeOf_Repeats(failed) == IF failed THEN "running" ELSE "completed"

OutcomeOf(failed) == IF failed THEN "partial" ELSE "completed"

\* nextAfter is empty: no item follows the one of this call
AtEnd(w) == sweeper[w].id = 0 \/ \A i \in Existing : i <= sweeper[w].id

\* putMigration: the position of the sweep, or its outcome at the end.
Position(w) ==
  LET seen == sweeper[w].seen
      failed == seen.failures \/ (sweeper[w].id > 0 /\ sweeper[w].item.state \notin Finished)
  IN /\ sweeper[w].at = "position"
     /\ import' = IF ~AtEnd(w) THEN [seen EXCEPT !.status = "running", !.after = sweeper[w].id, !.failures = failed]
                  ELSE [seen EXCEPT !.status = OutcomeOf(failed), !.after = 0, !.failures = FALSE]
     /\ Leaves(w)
     /\ UNCHANGED <<items, hosted, overlapped, sweepFaults>>

\* The process stops, or admission is withdrawn: nothing of this call is saved.
Abandon(w) ==
  /\ sweeper[w].at # "idle" /\ sweepFaults < MaxSweepFaults
  /\ sweepFaults' = sweepFaults + 1
  /\ Leaves(w)
  /\ UNCHANGED <<import, items, hosted, overlapped>>

Sweep(w) ==
  \/ Create(w) \/ Created(w) \/ Page(w) \/ ImportReference(w) \/ Download(w) \/ Store(w) \/ Refuse(w)
  \/ Save(w) \/ Position(w)

ImportNext ==
  \/ \E mode \in Modes : Confirm(mode)
  \/ \E w \in Sweepers : Resume(w) \/ Sweep(w) \/ TransferFails(w) \/ Abandon(w)

ImportFairness == \A w \in Sweepers : WF_importVars(Resume(w)) /\ WF_importVars(Sweep(w))
ImportSpec == ImportInit /\ [][ImportNext]_importVars /\ ImportFairness

ImportTypeOK ==
  /\ import \in Import /\ items \in [AllImages -> Item] /\ hosted \in [AllImages -> Nat]
  /\ sweeper \in [Sweepers -> [at : {"idle", "create", "created", "page", "import", "download", "store", "save", "position"},
                               seen : Import, id : 0..Images, item : Item, found : BOOLEAN]]
  /\ overlapped \in BOOLEAN /\ sweepFaults \in 0..MaxSweepFaults

\* Initialisation that several calls shared and some abandoned still leaves exactly
\* one item for each selected image, of the quality the confirmed mode asks for.
ReadyIsWhole ==
  import.ready => \A i \in AllImages :
    IF i \in Selected(import.mode) THEN items[i].quality = QualityOf(import.mode, i) ELSE items[i] = NoItem

\* COMPLETED is the truth: every item is done and nothing is hosted twice, through
\* calls that stop between the sink and their record - while sweeps do not overlap.
CompletedIsDone ==
  ~overlapped =>
    /\ import.status = "completed" => \A i \in Existing : items[i].state \in Finished
    /\ \A i \in AllImages : hosted[i] <= 1 /\ (items[i].state = "transferred" => hosted[i] = 1)

\* What the sink has hosted is never recorded again as only failed, unless sweeps overlap.
KeepsHosted == \A i \in AllImages : items[i].state \in Finished /\ ~overlapped => items'[i] = items[i]
HostedIsKept == [][KeepsHosted]_importVars

\* A confirmed import is swept to an outcome.
ImportRunning == import.status = "running"
ImportSettles == []<>~ImportRunning
=============================================================================
