---------------------------- MODULE ContentTransfer ----------------------------
(***************************************************************************)
(* A creator's content leaves one library as a manifest and is restored in *)
(* another (packages/portability/src/content-export.ts,                    *)
(* content-export-validation.ts, content-import-plan.ts,                   *)
(* content-restore.ts, packages/persistence/src/creator-content-restore.ts, *)
(* memory-creator-content.ts).  The export reads the library piece by piece *)
(* while the creator edits it; a restore is one transaction whose answer    *)
(* may be lost.                                                            *)
(***************************************************************************)
EXTENDS Naturals, FiniteSets

CONSTANTS Works, Assets, Shelves,   \* Shelves: the creator's collections
          Restorers,
          RestoreIds,
          NoAsset,                  \* no primary asset, no cover, no identity
          Whole,                    \* does a product admit a manifest only as it is
          MaxEdits,                 \* edits of the library that is exported
          MaxExports,
          MaxLater,                 \* edits of the library restored into
          MaxLost                   \* answers lost

VARIABLES source,    \* the library exported: see Library
          version,   \* asset -> version of its record
          reading,   \* the export under way: [pc, left, quiet, manifest]
          exports,   \* manifests made, and whether the library rested meanwhile
          restorers, \* restorer -> [pc, id, content]
          target,    \* the library restored into
          restored,  \* identity -> what was restored under it, or NoAsset
          edits, later, lost

transferVars == <<source, version, reading, exports, restorers, target, restored, edits, later, lost>>

Optional == Assets \cup {NoAsset}
\* Works that are live, the assets of each and its lead (the primary asset and what its
\* body refers to), the collections, their Works and their covers.
Library(w, f) == [works |-> w, assets |-> f, files |-> [x \in Works |-> f], lead |-> [x \in Works |-> NoAsset],
                  shelves |-> IF w = {} THEN {} ELSE Shelves, members |-> [c \in Shelves |-> w], cover |-> [c \in Shelves |-> NoAsset]]
NoManifest == [works |-> {}, lead |-> [w \in Works |-> NoAsset], files |-> [w \in Works |-> {}],
               members |-> [c \in Shelves |-> {}], cover |-> [c \in Shelves |-> NoAsset]]
NotReading == [pc |-> "idle", works |-> {}, shelves |-> {}, quiet |-> TRUE, manifest |-> NoManifest]
NotRestoring == [pc |-> "idle", id |-> NoAsset, content |-> NoManifest]

TransferInit ==
  /\ source = Library(Works, Assets) /\ version = [a \in Assets |-> 1] /\ reading = NotReading /\ exports = {}
  /\ restorers = [r \in Restorers |-> NotRestoring]
  /\ target = Library({}, {}) /\ restored = [i \in RestoreIds |-> NoAsset]
  /\ edits = 0 /\ later = 0 /\ lost = 0

-----------------------------------------------------------------------------
(* The creator's edits: each keeps its own library in order.                *)

Edited == /\ edits < MaxEdits /\ edits' = edits + 1 /\ reading' = [reading EXCEPT !.quiet = FALSE]
          /\ UNCHANGED <<exports, restorers, target, restored, later, lost>>
\* The library without an attachment: the lead leaves with it.
Detached(l, w, a) == [l EXCEPT !.files[w] = @ \ {a}, !.lead[w] = IF @ = a THEN NoAsset ELSE @]
Detach(w, a) ==
  /\ a \in source.files[w] /\ source' = Detached(source, w, a) /\ Edited /\ UNCHANGED version
ChooseLead(w, a) ==
  /\ w \in source.works /\ a \in source.files[w] /\ source' = [source EXCEPT !.lead[w] = a] /\ Edited /\ UNCHANGED version
ChooseCover(c, a) == source' = [source EXCEPT !.cover[c] = a] /\ Edited /\ UNCHANGED version
\* A deleted Work keeps its place in its collections.
Delete(w) ==
  /\ w \in source.works /\ source' = [source EXCEPT !.works = @ \ {w}] /\ Edited /\ UNCHANGED version
Describe(a) == version' = [version EXCEPT ![a] = @ + 1] /\ Edited /\ UNCHANGED source

-----------------------------------------------------------------------------
(* The export: it lists the Works, then the assets of each, the collections *)
(* and the Works of each, and assembles what it read.                       *)

Reads(next) == reading' = next /\ UNCHANGED <<source, version, exports, restorers, target, restored, edits, later, lost>>
ReadWorks ==
  /\ reading.pc = "idle" /\ Cardinality(exports) < MaxExports
  /\ Reads([pc |-> "files", works |-> source.works, shelves |-> Shelves, quiet |-> TRUE,
            manifest |-> [NoManifest EXCEPT !.works = source.works,
                                            !.lead = [w \in Works |-> IF w \in source.works THEN source.lead[w] ELSE NoAsset]]])
ReadFiles(w) ==
  /\ reading.pc = "files" /\ w \in reading.works
  /\ Reads([reading EXCEPT !.works = @ \ {w}, !.manifest.files[w] = {<<a, version[a]>> : a \in source.files[w]}])
ReadShelves ==
  /\ reading.pc = "files" /\ reading.works = {}
  /\ Reads([reading EXCEPT !.pc = "shelves", !.manifest.cover = source.cover])
ReadMembers(c) ==
  /\ reading.pc = "shelves" /\ c \in reading.shelves
  /\ Reads([reading EXCEPT !.shelves = @ \ {c}, !.manifest.members[c] = source.members[c]])
\* Only memberships of exported Works go into the manifest.
Filtered_All(m) == m
Filtered(m) == [m EXCEPT !.members = [c \in Shelves |-> @[c] \cap m.works]]
AssembleExport ==
  /\ reading.pc = "shelves" /\ reading.shelves = {}
  /\ exports' = exports \cup {[manifest |-> Filtered(reading.manifest), quiet |-> reading.quiet]}
  /\ reading' = NotReading
  /\ UNCHANGED <<source, version, restorers, target, restored, edits, later, lost>>

-----------------------------------------------------------------------------
(* What a manifest must be, where it is parsed and again where it is        *)
(* committed.                                                               *)

FilesOf(m) == UNION {m.files[w] : w \in m.works}
AssetsOf(m) == {f[1] : f \in FilesOf(m)}
Attached(m, w) == {f[1] : f \in m.files[w]}
LeadsAttached(m) == \A w \in m.works : m.lead[w] = NoAsset \/ m.lead[w] \in Attached(m, w)
\* An asset of two Works has one record.
RecordsAgree(m) == \A f, g \in FilesOf(m) : f[1] = g[1] => f = g
MembersExported(m) == \A c \in Shelves : m.members[c] \subseteq m.works
CoversExported(m) == \A c \in Shelves : m.cover[c] = NoAsset \/ m.cover[c] \in AssetsOf(m)
Parses(m) == LeadsAttached(m) /\ RecordsAgree(m) /\ MembersExported(m) /\ CoversExported(m)
\* validateCreatorContentRestore, over what the product admitted.
Valid_Parsed(m) == TRUE
Valid(m) == LeadsAttached(m) /\ MembersExported(m) /\ CoversExported(m)

-----------------------------------------------------------------------------
(* The restore.                                                             *)

Conflicts(m) == \/ m.works \cap target.works # {} \/ AssetsOf(m) \cap target.assets # {} \/ target.shelves # {}
Now(r, next) == /\ restorers' = [restorers EXCEPT ![r] = next]
                /\ UNCHANGED <<source, version, reading, exports, edits, later>>
\* The plan compares identities with the target's: a preflight that reserves nothing.
PlanImport(r, e) ==
  /\ restorers[r].pc = "idle" /\ Parses(e.manifest) /\ ~Conflicts(e.manifest)
  /\ Now(r, [pc |-> "planned", id |-> NoAsset, content |-> e.manifest]) /\ UNCHANGED <<target, restored, lost>>
\* The product admits the parsed records, or only some of the Works; its choice is part of
\* the fingerprint.
Admitted(m, some) == [m EXCEPT !.works = some, !.files = [w \in Works |-> IF w \in some THEN @[w] ELSE {}],
                               !.lead = [w \in Works |-> IF w \in some THEN @[w] ELSE NoAsset]]
PrepareRestore(r, id, some) ==
  /\ restorers[r].pc = "planned" /\ some \subseteq restorers[r].content.works /\ (Whole => some = restorers[r].content.works)
  /\ Now(r, [pc |-> "prepared", id |-> id, content |-> Admitted(restorers[r].content, some)]) /\ UNCHANGED <<target, restored, lost>>
\* An identity already used answers for the same content only.
Known_Never(id) == FALSE
Known(id) == restored[id] # NoAsset
Collides_Planned(m) == FALSE
Collides(m) == Conflicts(m)
Merged(t, m) ==
  [works |-> t.works \cup m.works, assets |-> t.assets \cup AssetsOf(m),
   files |-> [w \in Works |-> t.files[w] \cup Attached(m, w)],
   lead |-> [w \in Works |-> IF w \in m.works THEN m.lead[w] ELSE t.lead[w]],
   shelves |-> Shelves, members |-> [c \in Shelves |-> t.members[c] \cup m.members[c]], cover |-> m.cover]
CommitRestore(r) ==
  LET id == restorers[r].id
      m == restorers[r].content
      fits == Valid(m) /\ ~Known(id) /\ ~Collides(m)
  IN /\ restorers[r].pc = "prepared"
     /\ Now(r, [restorers[r] EXCEPT !.pc = IF fits \/ (Valid(m) /\ Known(id) /\ restored[id] = m) THEN "done" ELSE "refused"])
     /\ IF fits THEN target' = Merged(target, m) /\ restored' = [restored EXCEPT ![id] = m] ELSE UNCHANGED <<target, restored>>
     /\ UNCHANGED lost
\* The answer is lost, the caller tries again under the same identity.
LoseAnswer(r) ==
  /\ restorers[r].pc = "done" /\ lost < MaxLost /\ lost' = lost + 1
  /\ Now(r, [restorers[r] EXCEPT !.pc = "prepared"]) /\ UNCHANGED <<target, restored>>
EndRestore(r) ==
  /\ restorers[r].pc \in {"done", "refused"} /\ Now(r, NotRestoring) /\ UNCHANGED <<target, restored, lost>>

\* The creator goes on editing what was restored.
EditLater(next) == /\ target' = next /\ later < MaxLater /\ later' = later + 1
                   /\ UNCHANGED <<source, version, reading, exports, restorers, restored, edits, lost>>
DetachLater(w, a) == a \in target.files[w] /\ EditLater(Detached(target, w, a))
RemoveLater(c, w) == w \in target.members[c] /\ EditLater([target EXCEPT !.members[c] = @ \ {w}])

TransferNext ==
  \/ \E w \in Works, a \in Assets : Detach(w, a) \/ ChooseLead(w, a) \/ DetachLater(w, a)
  \/ \E c \in Shelves, a \in Assets : ChooseCover(c, a)
  \/ \E w \in Works : Delete(w) \/ ReadFiles(w)
  \/ \E a \in Assets : Describe(a)
  \/ ReadWorks \/ ReadShelves \/ AssembleExport
  \/ \E c \in Shelves : ReadMembers(c) \/ \E w \in Works : RemoveLater(c, w)
  \/ \E r \in Restorers :
       \/ \E e \in exports : PlanImport(r, e)
       \/ \E id \in RestoreIds, some \in SUBSET Works : PrepareRestore(r, id, some)
       \/ CommitRestore(r) \/ LoseAnswer(r) \/ EndRestore(r)
TransferSpec == TransferInit /\ [][TransferNext]_transferVars

-----------------------------------------------------------------------------
\* Types, and the counters within their bounds.
TransferTypeOK ==
  /\ source.works \subseteq Works /\ target.works \subseteq Works /\ target.assets \subseteq Assets
  /\ \A w \in Works : source.lead[w] \in Optional /\ target.lead[w] \in Optional
  /\ reading.pc \in {"idle", "files", "shelves"} /\ reading.works \subseteq Works
  /\ \A r \in Restorers : restorers[r].pc \in {"idle", "planned", "prepared", "done", "refused"} /\ restorers[r].id \in RestoreIds \cup {NoAsset}
  /\ edits \in 0..MaxEdits /\ later \in 0..MaxLater /\ lost \in 0..MaxLost

(* What was exported while the library rested is a manifest the parser      *)
(* takes, whatever was deleted or detached before; only a collection's      *)
(* cover that no exported Work has any more stands in the way               *)
(* (assembleCreatorContentExport's filter against the parser's relations).   *)
QuietExportsParse == \A e \in exports : e.quiet /\ CoversExported(e.manifest) => Parses(e.manifest)

(* What is restored is a closed graph, although the export was torn by       *)
(* edits and the product admitted only part of it: leads are attached,       *)
(* members and covers exist (validateCreatorContentRestore).                 *)
RestoredClosed ==
  /\ \A w \in Works : target.lead[w] # NoAsset => w \in target.works /\ target.lead[w] \in target.files[w]
  /\ \A w \in Works : target.files[w] \subseteq target.assets
  /\ \A c \in Shelves : target.members[c] \subseteq target.works /\ target.cover[c] \in target.assets \cup {NoAsset}

(* A restore is all there or not at all, and no two restores brought the     *)
(* same Work, although both were planned before either was committed         *)
(* (commitContentRestore's own comparison).                                  *)
RestoredWhole ==
  /\ \A i \in RestoreIds : restored[i] # NoAsset => restored[i].works \subseteq target.works /\ AssetsOf(restored[i]) \subseteq target.assets
  /\ \A i, j \in RestoreIds : i # j /\ restored[i] # NoAsset /\ restored[j] # NoAsset => AssetsOf(restored[i]) \cap AssetsOf(restored[j]) = {}

(* A restore that took place is not reported as refused to whoever asks      *)
(* again, whatever was edited since (the receipt's fingerprint).             *)
DoneNotRefused == \A r \in Restorers : restorers[r].pc = "refused" /\ Valid(restorers[r].content) => restored[restorers[r].id] # restorers[r].content

(* Asking again brings nothing back: a step that changes the library         *)
(* restored into, other than the creator's own, is the first under an        *)
(* identity and takes nothing away (the receipt is looked for first).        *)
OnlyOnce == \A w \in Works : w \in target.works => later' # later \/ (target'.files[w] = target.files[w] /\ target'.lead[w] = target.lead[w])
=============================================================================
