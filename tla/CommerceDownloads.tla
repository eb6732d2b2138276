-------------------------- MODULE CommerceDownloads --------------------------
(***************************************************************************)
(* What a purchase lets a customer download: private files, and one archive *)
(* of them that a worker builds and stores.  Building and uploading hold    *)
(* the creator's storage lock, which a stalled process loses                *)
(* (packages/commerce/src/service.ts, commerce-runtime/src/runtime.ts,      *)
(* adapters/local/src/commerce.ts).                                         *)
(***************************************************************************)
EXTENDS Naturals, FiniteSets

CONSTANTS Files,       \* the files of the offer, one unit of storage each
          Builders,    \* workers that lease the archive's job
          Uploaders,   \* requests that store another file
          Readers,     \* requests that download
          NoOne,
          StorageLimit,
          MaxLapses,   \* locks and leases that run out
          MaxChanges   \* availability, policy and access that change

VARIABLES available,   \* the creator's word on each file
          allowed,     \* the host's policy on each file (contentAvailable)
          granted,     \* the customer's entitlement
          pack, job, lock, builders,
          uploads,     \* uploader -> "idle", "locked", "fits", "registered" or "refused"
          readers, lapses, changes

downloadVars == <<available, allowed, granted, pack, job, lock, builders, uploads, readers, lapses, changes>>

Archive == 0          \* the files are numbered from 1
Targets == Files \cup {Archive}
Contents(t) == IF t = Archive THEN Files ELSE {t}
NoRequest == [pc |-> "idle", target |-> Archive, left |-> {}, denied |-> {}]
Resting == [pc |-> "idle", limit |-> 0]

DownloadInit ==
  /\ available = [f \in Files |-> TRUE] /\ allowed = [f \in Files |-> TRUE] /\ granted = TRUE
  /\ pack = [state |-> "preparing", shown |-> "preparing", built |-> FALSE, bytes |-> 0]
  /\ job = [state |-> "pending", holder |-> NoOne] /\ lock = NoOne
  /\ builders = [w \in Builders |-> Resting] /\ uploads = [u \in Uploaders |-> "idle"]
  /\ readers = [r \in Readers |-> NoRequest] /\ lapses = 0 /\ changes = 0

Registered == {u \in Uploaders : uploads[u] = "registered"}
Stored == Cardinality(Files) + Cardinality(Registered) + pack.bytes

-----------------------------------------------------------------------------
(* withLock: a transaction of the holder fails once the lock is not its own. *)

Fenced_Trusted(a) == TRUE
Fenced(a) == lock = a
Locks(a) == lock = NoOne /\ lock' = a
Unlocks(a) == lock' = IF lock = a THEN NoOne ELSE lock
LoseLock ==
  /\ lock # NoOne /\ lapses < MaxLapses /\ lapses' = lapses + 1 /\ lock' = NoOne
  /\ UNCHANGED <<available, allowed, granted, pack, job, builders, uploads, readers, changes>>

-----------------------------------------------------------------------------
(* The archive's job.                                                       *)

Goes(w, pc) == builders' = [builders EXCEPT ![w].pc = pc]
LeasePackage(w) ==
  /\ builders[w].pc = "idle"
  /\ \/ job.state \in {"pending", "failed"} /\ lapses' = lapses
     \/ job.state = "running" /\ job.holder # w /\ lapses < MaxLapses /\ lapses' = lapses + 1
  /\ job' = [state |-> "running", holder |-> w] /\ Goes(w, "leased")
  /\ UNCHANGED <<available, allowed, granted, pack, lock, uploads, readers, changes>>
PreparePackage(w) ==
  /\ builders[w].pc = "leased" /\ Locks(w) /\ Goes(w, "locked")
  /\ UNCHANGED <<available, allowed, granted, pack, job, uploads, readers, lapses, changes>>
Snapshot(w) ==
  /\ builders[w].pc = "locked"
  /\ Goes(w, IF Fenced(w) /\ pack.state = "ready" THEN "finished"
             ELSE IF Fenced(w) /\ \A f \in Files : available[f] THEN "chosen" ELSE "failed")
  /\ UNCHANGED <<available, allowed, granted, pack, job, lock, uploads, readers, lapses, changes>>
\* limitBytes: what the creator's assets leave of the storage.
Measure(w) ==
  /\ builders[w].pc = "chosen"
  /\ builders' = [builders EXCEPT ![w] =
       IF Fenced(w) /\ Stored + Cardinality(Files) <= StorageLimit
       THEN [pc |-> "measured", limit |-> StorageLimit - Stored] ELSE [@ EXCEPT !.pc = "failed"]]
  /\ UNCHANGED <<available, allowed, granted, pack, job, lock, uploads, readers, lapses, changes>>
\* Every source is read through the host's policy, and the archive stored.
PutPackage(w) ==
  /\ builders[w].pc = "measured"
  /\ Goes(w, IF (\A f \in Files : allowed[f]) /\ Cardinality(Files) <= builders[w].limit THEN "put" ELSE "failed")
  /\ UNCHANGED <<available, allowed, granted, pack, job, lock, uploads, readers, lapses, changes>>
Ready == [state |-> "ready", shown |-> "available", built |-> TRUE, bytes |-> Cardinality(Files)]
StorePackage(w) ==
  /\ builders[w].pc = "put"
  /\ IF Fenced(w) THEN pack' = Ready /\ Goes(w, "finished") ELSE Goes(w, "failed") /\ UNCHANGED pack
  /\ UNCHANGED <<available, allowed, granted, job, lock, uploads, readers, lapses, changes>>
\* The lock is given back, and the job is settled by whoever holds its lease.
Spoiled == IF pack.state = "ready" THEN pack ELSE [pack EXCEPT !.state = "unavailable", !.shown = "unavailable"]
Outcome_Alike(w) == "done"
Outcome(w) == IF builders[w].pc = "finished" THEN "done" ELSE "failed"
Settle(w) ==
  /\ builders[w].pc \in {"finished", "failed"}
  /\ IF job.holder = w
     THEN /\ job' = [state |-> Outcome(w), holder |-> NoOne]
          /\ pack' = IF Outcome(w) = "failed" THEN Spoiled ELSE pack
     ELSE UNCHANGED <<job, pack>>
  /\ Unlocks(w) /\ builders' = [builders EXCEPT ![w] = Resting]
  /\ UNCHANGED <<available, allowed, granted, uploads, readers, lapses, changes>>

-----------------------------------------------------------------------------
(* Another upload of the creator.                                           *)

Uploads(u, pc) == uploads' = [uploads EXCEPT ![u] = pc]
BeginUpload(u) ==
  /\ uploads[u] = "idle" /\ Locks(u) /\ Uploads(u, "locked")
  /\ UNCHANGED <<available, allowed, granted, pack, job, builders, readers, lapses, changes>>
CheckUpload(u) ==
  /\ uploads[u] = "locked"
  /\ IF Fenced(u) /\ Stored + 1 <= StorageLimit THEN Uploads(u, "fits") /\ UNCHANGED lock
     ELSE Uploads(u, "refused") /\ Unlocks(u)
  /\ UNCHANGED <<available, allowed, granted, pack, job, builders, readers, lapses, changes>>
RegisterAsset(u) ==
  /\ uploads[u] = "fits" /\ Unlocks(u)
  /\ Uploads(u, IF Fenced(u) THEN "registered" ELSE "refused")
  /\ UNCHANGED <<available, allowed, granted, pack, job, builders, readers, lapses, changes>>

-----------------------------------------------------------------------------
(* What the creator and the host change.                                    *)

Changes == changes < MaxChanges /\ changes' = changes + 1
\* A request under way is denied only what was withdrawn before it and still is.
StillDenied(f) == readers' = [r \in Readers |-> [readers[r] EXCEPT !.denied = @ \ {f}]]
SetAssetAvailability(f) ==
  LET now == [available EXCEPT ![f] = ~@]
      whole == \A g \in Files : now[g]
      of(ready) == IF ~whole THEN "unavailable" ELSE IF pack.built THEN ready ELSE "preparing"
  IN /\ Changes /\ available' = now
     /\ pack' = [pack EXCEPT !.state = of("ready"), !.shown = of("available")]
     /\ IF now[f] THEN StillDenied(f) ELSE UNCHANGED readers
     /\ UNCHANGED <<allowed, granted, job, lock, builders, uploads, lapses>>
ContentPolicy(f) ==
  /\ Changes /\ allowed' = [allowed EXCEPT ![f] = ~@]
  /\ IF ~allowed[f] THEN StillDenied(f) ELSE UNCHANGED readers
  /\ UNCHANGED <<available, granted, pack, job, lock, builders, uploads, lapses>>
Revoke ==
  /\ Changes /\ granted /\ granted' = FALSE
  /\ UNCHANGED <<available, allowed, pack, job, lock, builders, uploads, readers, lapses>>

-----------------------------------------------------------------------------
(* A download: a signed address is no access, it is decided again.          *)

Shown(t) == IF t = Archive THEN pack.shown = "available" ELSE available[t]
Withdrawn == IF granted THEN {f \in Files : ~(available[f] /\ allowed[f])} ELSE Files
Reads(r, change) == readers' = [readers EXCEPT ![r] = change]
Rest == UNCHANGED <<available, allowed, granted, pack, job, lock, builders, uploads, lapses, changes>>
AuthorizeDownload(r, t) ==
  /\ readers[r].pc = "idle" /\ granted /\ Shown(t)
  /\ Reads(r, [NoRequest EXCEPT !.pc = "signed", !.target = t]) /\ Rest
CanRead_Signed(r) == TRUE
CanRead(r) == granted
DownloadAsset(r) ==
  /\ readers[r].pc = "signed"
  /\ Reads(r, IF CanRead(r) /\ Shown(readers[r].target)
              THEN [readers[r] EXCEPT !.pc = "granted", !.denied = Withdrawn, !.left = Contents(readers[r].target)] ELSE NoRequest)
  /\ Rest
Sources_Cached == TRUE
Sources == \A f \in Files : available[f]
CheckSources(r) ==
  /\ readers[r].pc = "granted"
  /\ Reads(r, IF readers[r].target = Archive => Sources THEN [readers[r] EXCEPT !.pc = "reading"] ELSE NoRequest)
  /\ Rest
\* assetRead: the host's policy decides each file, of an archive each source.
Verified_Cached(r, f) == readers[r].target = Archive \/ allowed[f]
Verified(r, f) == allowed[f]
AssetRead(r, f) ==
  /\ readers[r].pc = "reading" /\ f \in readers[r].left
  /\ Reads(r, IF Verified(r, f) THEN [readers[r] EXCEPT !.left = @ \ {f}] ELSE NoRequest) /\ Rest
Deliver(r) ==
  /\ readers[r].pc = "reading" /\ readers[r].left = {} /\ Reads(r, [readers[r] EXCEPT !.pc = "delivered"]) /\ Rest

DownloadNext ==
  \/ \E w \in Builders : LeasePackage(w) \/ PreparePackage(w) \/ Snapshot(w) \/ Measure(w) \/ PutPackage(w) \/ StorePackage(w) \/ Settle(w)
  \/ \E u \in Uploaders : BeginUpload(u) \/ CheckUpload(u) \/ RegisterAsset(u)
  \/ \E f \in Files : SetAssetAvailability(f) \/ ContentPolicy(f)
  \/ Revoke \/ LoseLock
  \/ \E r \in Readers : \/ \E t \in Targets : AuthorizeDownload(r, t)
                        \/ DownloadAsset(r) \/ CheckSources(r) \/ Deliver(r)
                        \/ \E f \in Files : AssetRead(r, f)
DownloadSpec == DownloadInit /\ [][DownloadNext]_downloadVars

-----------------------------------------------------------------------------
DownloadTypeOK ==
  /\ pack.state \in {"preparing", "ready", "unavailable"} /\ pack.shown \in {"preparing", "available", "unavailable"}
  /\ job.state \in {"pending", "running", "failed", "done"} /\ job.holder \in Builders \cup {NoOne}
  /\ lock \in Builders \cup Uploaders \cup {NoOne}
  /\ \A r \in Readers : readers[r].left \subseteq Files /\ readers[r].denied \subseteq Files

\* What was withdrawn, removed by policy or no longer granted when a request came, and
\* stayed so, is not delivered by it, not inside an archive built before or meanwhile
\* either (downloadAsset, assetRead).
WithdrawnNotServed ==
  \A r \in Readers : readers[r].pc = "delivered" => Contents(readers[r].target) \cap readers[r].denied = {}

\* The archive is offered only when it is stored, and its job ends only then, whichever of
\* its workers came late (buildPackage, setAssetAvailability, runNextJob).
ReadyIsBuilt == (pack.state = "ready" \/ pack.shown = "available" \/ job.state = "done") => pack.built

\* Uploads and archives that overlap never exceed what a creator may store, even if one
\* loses the lock while it works (limitBytes, withLock, transaction).
WithinStorage == Stored <= StorageLimit
===============================================================================
