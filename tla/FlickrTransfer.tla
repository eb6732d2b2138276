---------------------------- MODULE FlickrTransfer ----------------------------
(***************************************************************************)
(* Originals move from Flickr into a creator's library: confirm            *)
(* (packages/integrations/src/flickr-inventory.ts) chooses the photos, run  *)
(* (flickr-source-workflow.ts) takes a window of them through transfer,     *)
(* scan and attachment and stores the whole migration, which is not fenced  *)
(* (flickr-migration-state.ts, adapters/local/src/flickr-repository.ts).    *)
(* Transfer, scanner and attachment are the application's ports.            *)
(***************************************************************************)
EXTENDS Naturals, FiniteSets

CONSTANTS Photos,        \* 1..n, in the order of the items
          Originals,     \* photos whose original Flickr offers
          Workers,
          NoOne,         \* no account
          Batch,         \* maxItems of a run
          MaxConfirms,   \* confirmations and inventories of the creator
          MaxTurns,      \* changes of the connection and its permission
          MaxTrouble     \* transient failures, errors and crashes

VARIABLES migration,  \* the stored migration: [status, items, cursor]
          access,     \* the account connected; whether its user may manage the creator goes with it
          scanner,    \* photo -> its verdict
          attached,   \* photos attached to the library
          workers, creator,
          troubles,   \* history: photo -> transient failures since its confirmation
          asked, turns, trouble

transferVars == <<migration, access, scanner, attached, workers, creator, troubles, asked, turns, trouble>>

MaxRetries == 3
NoItem == [state |-> "none", stored |-> FALSE, retries |-> 0, again |-> FALSE]
Unread == [status |-> "INVENTORY_READY", items |-> [p \in Photos |-> NoItem], cursor |-> 0]
Away == [pc |-> "idle", read |-> Unread, items |-> Unread.items, at |-> 0, end |-> 0, account |-> NoOne, scan |-> "pending", barred |-> FALSE]
Asleep == [pc |-> "idle", read |-> Unread, account |-> NoOne]

TransferInit ==
  /\ migration = Unread /\ access = "a" /\ scanner = [p \in Photos |-> "pending"] /\ attached = {}
  /\ workers = [w \in Workers |-> Away] /\ creator = Asleep /\ troubles = [p \in Photos |-> 0]
  /\ asked = 0 /\ turns = 0 /\ trouble = 0

outside == <<migration, access, scanner, creator, troubles, asked, turns>>
Trouble == trouble < MaxTrouble /\ trouble' = trouble + 1

-----------------------------------------------------------------------------
(* The creator: an inventory makes the migration ready for review, confirm  *)
(* queues what has an original.  Each reads the migration and stores it.    *)

Asks(intent) ==
  /\ creator = Asleep /\ asked < MaxConfirms /\ asked' = asked + 1
  /\ intent = "confirm" => migration.status \in {"INVENTORY_READY", "REVIEW"}
  /\ intent = "inventory" => access # NoOne
  /\ creator' = [pc |-> intent, read |-> migration, account |-> access]
  /\ UNCHANGED <<migration, access, scanner, attached, workers, troubles, turns, trouble>>
\* `barred' is for the property: access was away while a verdict waited for its admission.
Connects(account) ==
  /\ access' = account
  /\ workers' = [w \in Workers |-> [workers[w] EXCEPT !.barred = workers[w].pc = "scanned" /\ account # workers[w].account]]
\* The connection is stored again as the inventory found it.
Inventory ==
  /\ creator.pc = "inventory" /\ creator' = Asleep /\ Connects(creator.account)
  /\ migration' = [creator.read EXCEPT !.status = "INVENTORY_READY", !.cursor = 0]
  /\ UNCHANGED <<scanner, attached, troubles, asked, turns, trouble>>
Queued(p) == [NoItem EXCEPT !.state = IF p \in Originals THEN "QUEUED" ELSE "UNAVAILABLE"]
Confirm(selected) ==
  /\ creator.pc = "confirm" /\ creator' = Asleep
  /\ migration' = [status |-> "CONFIRMED", items |-> [p \in Photos |-> IF p \in selected THEN Queued(p) ELSE NoItem], cursor |-> 0]
  /\ troubles' = [p \in Photos |-> 0]
  /\ UNCHANGED <<access, scanner, attached, workers, asked, turns, trouble>>
\* The creator disconnects, or connects the same or another account.
TurnAccess(account) ==
  /\ account # access /\ turns < MaxTurns /\ turns' = turns + 1 /\ Connects(account)
  /\ UNCHANGED <<migration, scanner, attached, creator, troubles, asked, trouble>>
Verdict(p, v) ==
  /\ scanner[p] = "pending" /\ scanner' = [scanner EXCEPT ![p] = v]
  /\ UNCHANGED <<migration, access, attached, workers, creator, troubles, asked, turns, trouble>>

-----------------------------------------------------------------------------
(* run: one window of the items.                                            *)

Items(m) == {p \in Photos : m.items[p].state # "none"}
Becomes(w, next) == workers' = [workers EXCEPT ![w] = next]
Admits(w) == access = workers[w].account
Least(n, m) == IF n < m THEN n ELSE m

Read(w) ==
  /\ workers[w].pc = "idle" /\ migration.status # "INVENTORY_READY"
  /\ Becomes(w, [Away EXCEPT !.pc = "read", !.read = migration, !.items = migration.items])
  /\ UNCHANGED <<outside, attached, trouble>>
\* The window starts where the last one ended; the account is the one connected now.
Begin(w) ==
  LET m == workers[w].read
  IN /\ workers[w].pc = "read"
     /\ Becomes(w, IF access = NoOne THEN Away
                   ELSE [workers[w] EXCEPT !.pc = "item", !.account = access, !.at = m.cursor + 1,
                                           !.end = Least(m.cursor + Batch, Cardinality(Photos))])
     /\ UNCHANGED <<outside, attached, trouble>>
Item(w) == workers[w].items[workers[w].at]
\* A failure is tried again when a time for it was set; it may not have come yet.
Final(item) == item.state \in {"none", "VALIDATED", "UNAVAILABLE"} \/ (item.state = "FAILED" /\ ~item.again)
OnTo(w, item) == Becomes(w, [workers[w] EXCEPT !.pc = "item", !.items[workers[w].at] = item, !.at = @ + 1, !.scan = "pending", !.barred = FALSE])
Passes(w) ==
  /\ workers[w].pc = "item" /\ workers[w].at <= workers[w].end
  /\ Final(Item(w)) \/ Item(w).state = "FAILED"
  /\ OnTo(w, Item(w)) /\ UNCHANGED <<outside, attached, trouble>>
Again_Always(retries) == TRUE
Again(retries) == retries < MaxRetries
Failed(w) == [Item(w) EXCEPT !.state = "FAILED", !.again = FALSE]
Retried(w) == [Item(w) EXCEPT !.state = "FAILED", !.retries = @ + 1, !.again = Again(Item(w).retries + 1)]
Kept_Nowhere(item) == FALSE
Kept(item) == item.stored
\* Admission, then the bytes: those already in quarantine, or the provider's.
Fetch(w) ==
  LET p == workers[w].at
  IN /\ workers[w].pc = "item" /\ p <= workers[w].end /\ ~Final(Item(w))
     /\ \/ ~Admits(w) /\ Becomes(w, Away) /\ UNCHANGED <<troubles, trouble>>
        \/ /\ Admits(w) /\ Becomes(w, [workers[w] EXCEPT !.pc = IF Kept(Item(w)) THEN "kept" ELSE "fetched"])
           /\ UNCHANGED <<troubles, trouble>>
        \/ /\ Admits(w) /\ Trouble
           /\ \/ OnTo(w, Retried(w)) /\ troubles' = [troubles EXCEPT ![p] = @ + 1]
              \/ OnTo(w, [Item(w) EXCEPT !.state = "UNAVAILABLE"]) /\ UNCHANGED troubles
              \/ OnTo(w, Failed(w)) /\ UNCHANGED troubles
     /\ UNCHANGED <<migration, access, scanner, creator, asked, turns, attached>>
Scan(w) ==
  /\ workers[w].pc \in {"fetched", "kept"}
  /\ Becomes(w, [workers[w] EXCEPT !.pc = "scanned", !.scan = scanner[workers[w].at]])
  /\ UNCHANGED <<outside, attached, trouble>>
\* Admission again, then the verdict decides.
Admitted_Once(w) == TRUE
Admitted(w) == Admits(w)
Clean_NotBlocked(verdict) == verdict # "blocked"
Clean(verdict) == verdict = "clean"
Judge(w) ==
  LET verdict == workers[w].scan
      held == [Item(w) EXCEPT !.stored = TRUE]
  IN /\ workers[w].pc = "scanned"
     /\ IF ~Admitted(w) THEN Becomes(w, Away)
        ELSE IF verdict = "blocked" THEN OnTo(w, [held EXCEPT !.state = "FAILED"])
        ELSE IF ~Clean(verdict) THEN OnTo(w, [held EXCEPT !.state = "QUARANTINED"])
        ELSE Becomes(w, [workers[w] EXCEPT !.pc = "clean"])
     /\ UNCHANGED <<outside, attached, trouble>>
\* The library may fail, before or after it has attached the photo.
Attach(w) ==
  LET p == workers[w].at
  IN /\ workers[w].pc = "clean"
     /\ \/ /\ attached' = attached \cup {p} /\ OnTo(w, [Item(w) EXCEPT !.state = "VALIDATED", !.stored = TRUE, !.again = FALSE])
           /\ UNCHANGED <<troubles, trouble>>
        \/ /\ Trouble /\ attached' \in {attached, attached \cup {p}}
           /\ \/ OnTo(w, Retried(w)) /\ troubles' = [troubles EXCEPT ![p] = @ + 1]
              \/ OnTo(w, Failed(w)) /\ UNCHANGED troubles
     /\ UNCHANGED <<migration, access, scanner, creator, asked, turns>>
\* Admission once more, then the whole migration is stored.
Whole_Window(w) == \A p \in 1..workers[w].end : workers[w].items[p].state \in {"none", "VALIDATED", "UNAVAILABLE"}
Whole(w) == \A p \in Photos : workers[w].items[p].state \in {"none", "VALIDATED", "UNAVAILABLE"}
Store(w) ==
  /\ workers[w].pc = "item" /\ workers[w].at > workers[w].end /\ Becomes(w, Away)
  /\ IF Admits(w)
     THEN migration' = [status |-> IF Whole(w) THEN "COMPLETE" ELSE IF workers[w].end < Cardinality(Photos) THEN "RUNNING" ELSE "REVIEW",
                        items |-> workers[w].items,
                        cursor |-> IF Whole(w) \/ workers[w].end = Cardinality(Photos) THEN 0 ELSE workers[w].end]
     ELSE UNCHANGED migration
  /\ UNCHANGED <<access, scanner, creator, troubles, asked, turns, attached, trouble>>
CrashRun(w) ==
  /\ workers[w].pc # "idle" /\ Trouble /\ Becomes(w, Away) /\ UNCHANGED <<outside, attached>>

TransferNext ==
  \/ \E intent \in {"inventory", "confirm"} : Asks(intent)
  \/ Inventory \/ \E selected \in SUBSET Photos \ {{}} : Confirm(selected)
  \/ \E account \in {"a", "b", NoOne} : TurnAccess(account)
  \/ \E p \in Photos, v \in {"clean", "blocked"} : Verdict(p, v)
  \/ \E w \in Workers : Read(w) \/ Begin(w) \/ Passes(w) \/ Fetch(w) \/ Scan(w) \/ Judge(w) \/ Attach(w) \/ Store(w) \/ CrashRun(w)
TransferSpec == TransferInit /\ [][TransferNext]_transferVars

-----------------------------------------------------------------------------
\* Types, and the counters within their bounds.
TransferTypeOK ==
  /\ migration.status \in {"INVENTORY_READY", "CONFIRMED", "RUNNING", "REVIEW", "COMPLETE"} /\ migration.cursor \in 0..Cardinality(Photos)
  /\ \A p \in Photos : migration.items[p].state \in {"none", "QUEUED", "QUARANTINED", "VALIDATED", "UNAVAILABLE", "FAILED"}
  /\ attached \subseteq Photos /\ creator.pc \in {"idle", "inventory", "confirm"}
  /\ \A w \in Workers : workers[w].pc \in {"idle", "read", "item", "fetched", "kept", "scanned", "clean"}
  /\ asked \in 0..MaxConfirms /\ turns \in 0..MaxTurns /\ trouble \in 0..MaxTrouble

(* Nothing reaches the library that the scanner did not find clean, whatever *)
(* runs overlap and start again (attachCleanSource).                        *)
OnlyClean == \A p \in attached : scanner[p] = "clean"

(* A migration is complete when each of its photos is in the library or has *)
(* no original to offer, although each run saw one window of a migration    *)
(* that others store as a whole.                                            *)
CompleteIsWhole ==
  migration.status = "COMPLETE" => \A p \in Photos : migration.items[p].state \in {"none", "UNAVAILABLE"} \/ (migration.items[p].state = "VALIDATED" /\ p \in attached)

(* A transient failure is tried again three times, not more, over however    *)
(* many runs and crashes (retryCount is stored with the migration).          *)
RetriesBounded == \A p \in Photos : troubles[p] <= MaxRetries + (trouble - troubles[p])

(* A run whose access is withdrawn while it waits for the scanner attaches   *)
(* nothing with what it scanned (the renewed admission).                    *)
AttachesAdmitted == \A p \in Photos : p \in attached' /\ p \notin attached => \E w \in Workers : workers[w].pc = "clean" /\ workers[w].at = p /\ ~workers[w].barred

(* What the migration says is in quarantine is not fetched from Flickr       *)
(* again, after however many interrupted runs.                               *)
NotFetchedAgain == \A w \in Workers : workers'[w].pc = "fetched" /\ workers[w].pc # "fetched" => ~migration.items[workers[w].at].stored
=============================================================================
