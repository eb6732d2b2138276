--------------------------- MODULE SmugMugInventory ---------------------------
(***************************************************************************)
(* Inventory of a creator's SmugMug catalogue: the connection and inventory *)
(* operations of packages/integrations/src/smugmug-migration.ts over the   *)
(* repository contract, and the runner of adapters/local that carries an   *)
(* inventory over queued jobs, one page each.                              *)
(*                                                                         *)
(* One connection.  Every call reads the connection, waits for the         *)
(* provider and writes with a compare-and-swap; the final write of sync,   *)
(* callback and disconnect is unconditional.  The process holds the        *)
(* repository in memory and saves it at checkpoints; a crash goes back to  *)
(* the last one.                                                           *)
(***************************************************************************)
EXTENDS Naturals, FiniteSets

CONSTANTS Requests,     \* request ids of inventories that a run carries
          Scans,        \* scope ids of inventories without a request id
          NoScope,
          Callers,      \* concurrent calls of the service
          Runner,       \* the runner's own calls
          Pages,        \* number of provider pages
          PageContents, \* page -> the contents the provider may return for it
          MaxStepFaults \* bound: crashes, provider failures, leases that run out

Scopes == Requests \cup Scans
Workers == Callers \cup {Runner}
MaxTries == 3
Shots == UNION UNION {PageContents[p] : p \in 1..Pages}

VARIABLES
  connection,  \* SmugMugConnection with its inventory checkpoint
  claimed,     \* the OAuth state has been used
  shots,       \* images merged into each scope
  receipts,    \* REVIEW migrations: the image count, 0 if there is none
  saved,       \* the last checkpoint of the three above
  caller,      \* each call: its step, the connection it read, scope, page, result
  run,         \* job of each requested run: none, queued, leased, dead, done
  tries,       \* attempts of that job
  rewound,     \* history: a sync wrote over a newer connection
  stepFaults

repository == <<connection, claimed, shots, receipts>>
inventoryVars == <<repository, saved, caller, run, tries, rewound, stepFaults>>

Fresh == [state |-> "authorizing", scope |-> NoScope, busy |-> FALSE, cursor |-> 1, paged |-> FALSE,
          counted |-> 0, after |-> 0]
Connection == [state : {"authorizing", "connected", "disconnected"}, scope : Scopes \cup {NoScope}, busy : BOOLEAN,
               cursor : 1..Pages, paged : BOOLEAN, counted : 0..Cardinality(Shots), after : {0} \cup Shots]
Resting == [at |-> "idle", seen |-> Fresh, scope |-> NoScope, page |-> {}, done |-> FALSE]
Snapshots == [connection |-> connection, claimed |-> claimed, shots |-> shots, receipts |-> receipts]

InventoryInit ==
  /\ connection = Fresh /\ claimed = FALSE
  /\ shots = [s \in Scopes |-> {}]
  /\ receipts = [s \in Scopes |-> 0]
  /\ saved = Snapshots
  /\ caller = [w \in Workers |-> Resting]
  /\ run = [r \in Requests |-> "none"]
  /\ tries = [r \in Requests |-> 0]
  /\ rewound = FALSE
  /\ stepFaults = 0

Connected == connection.state = "connected"
Goes(w, step) == caller' = [caller EXCEPT ![w].at = step]
Unchanged(w) == connection = caller[w].seen   \* the compare of every compare-and-swap

\* A conflict or a refusal: final for a job (status below 500), an error for a caller.
Stops(w) ==
  /\ caller' = [caller EXCEPT ![w] = Resting]
  /\ run' = IF w = Runner THEN [r \in Requests |-> IF run[r] = "leased" /\ caller[w].scope = r THEN "dead" ELSE run[r]] ELSE run

Returns(w, done) ==
  caller' = [caller EXCEPT ![w] = IF w = Runner THEN [@ EXCEPT !.at = "checkpoint", !.done = done] ELSE Resting]

Swap(w, next, step) ==
  IF Unchanged(w)
    THEN /\ connection' = next
         /\ caller' = [caller EXCEPT ![w].at = step, ![w].seen = next]
         /\ UNCHANGED run
    ELSE Stops(w) /\ UNCHANGED connection

(***************************************************************************)
(* callback, sync and disconnect                                           *)
(***************************************************************************)
ClaimOAuth(w) ==
  /\ w \in Callers /\ caller[w].at = "idle"
  /\ connection.state = "authorizing" /\ ~claimed
  /\ claimed' = TRUE
  /\ caller' = [caller EXCEPT ![w].at = "authorize", ![w].seen = connection]
  /\ UNCHANGED <<connection, shots, receipts, saved, run, tries, rewound, stepFaults>>

Authorize(w) ==
  /\ caller[w].at = "authorize"
  /\ connection' = [caller[w].seen EXCEPT !.state = "connected"]
  /\ caller' = [caller EXCEPT ![w] = Resting]
  /\ UNCHANGED <<claimed, shots, receipts, saved, run, tries, rewound, stepFaults>>

\* sync: once its inventory is complete it reads the connection again and puts it.
SyncReads(w) ==
  /\ w \in Callers /\ caller[w].at = "idle"
  /\ Connected /\ ~rewound /\ \E s \in Scopes : receipts[s] > 0
  /\ caller' = [caller EXCEPT ![w].at = "sync", ![w].seen = connection]
  /\ UNCHANGED <<repository, saved, run, tries, rewound, stepFaults>>

SyncPuts(w) ==
  /\ caller[w].at = "sync"
  /\ connection' = caller[w].seen
  /\ rewound' = (rewound \/ ~Unchanged(w))
  /\ caller' = [caller EXCEPT ![w] = Resting]
  /\ UNCHANGED <<claimed, shots, receipts, saved, run, tries, stepFaults>>

DisconnectReads(w) ==
  /\ w \in Callers /\ caller[w].at = "idle" /\ connection.state # "disconnected"
  /\ caller' = [caller EXCEPT ![w].at = "disconnect", ![w].seen = connection]
  /\ UNCHANGED <<repository, saved, run, tries, rewound, stepFaults>>

DisconnectPuts(w) ==
  /\ caller[w].at = "disconnect"
  /\ connection' = [caller[w].seen EXCEPT !.state = "disconnected"]
  /\ caller' = [caller EXCEPT ![w] = Resting]
  /\ UNCHANGED <<claimed, shots, receipts, saved, run, tries, rewound, stepFaults>>

(***************************************************************************)
(* inventory: one provider page, or one page of the summary, per call      *)
(***************************************************************************)
Reads(w, s) ==
  caller' = [caller EXCEPT ![w] = [Resting EXCEPT !.seen = connection, !.scope = s,
    !.at = IF ~connection.busy THEN "begin" ELSE IF connection.paged THEN "count" ELSE "fetch"]]

\* A call without a request id goes on with the scope in progress, or begins one.
Scan(w) ==
  /\ w \in Callers /\ caller[w].at = "idle" /\ Connected
  /\ IF connection.busy THEN Reads(w, connection.scope)
     ELSE \E s \in Scans : receipts[s] = 0 /\ shots[s] = {} /\ Reads(w, s)
  /\ UNCHANGED <<repository, saved, run, tries, rewound, stepFaults>>

\* A run's call: its receipt, a conflict with another scope, or the next step.
Ask(r) ==
  /\ caller[Runner].at = "idle" /\ run[r] = "leased"
  /\ IF Connected /\ receipts[r] > 0
       THEN /\ caller' = [caller EXCEPT ![Runner] = [Resting EXCEPT !.at = "checkpoint", !.scope = r, !.done = TRUE]]
            /\ UNCHANGED run
     ELSE IF ~Connected \/ (connection.busy /\ r # connection.scope)
       THEN run' = [run EXCEPT ![r] = "dead"] /\ UNCHANGED caller
     ELSE Reads(Runner, r) /\ UNCHANGED run
  /\ UNCHANGED <<repository, saved, tries, rewound, stepFaults>>

Begin(w) ==
  /\ caller[w].at = "begin"
  /\ Swap(w, [caller[w].seen EXCEPT !.scope = caller[w].scope, !.busy = TRUE, !.cursor = 1, !.paged = FALSE,
                                    !.counted = 0, !.after = 0], "fetch")
  /\ UNCHANGED <<claimed, shots, receipts, saved, tries, rewound, stepFaults>>

Fetch(w) ==
  /\ caller[w].at = "fetch"
  /\ IF Connected
       THEN /\ \E found \in PageContents[caller[w].seen.cursor] :
                 caller' = [caller EXCEPT ![w].at = "merge", ![w].page = found]
            /\ UNCHANGED run
       ELSE Stops(w)
  /\ UNCHANGED <<repository, saved, tries, rewound, stepFaults>>

Merge_NoFence(w) ==
  /\ caller[w].at = "merge"
  /\ shots' = [shots EXCEPT ![caller[w].scope] = @ \cup caller[w].page]
  /\ Goes(w, "advance")
  /\ UNCHANGED <<connection, claimed, receipts, saved, run, tries, rewound, stepFaults>>

\* mergeInventoryPage under the connection's fence; in chunks, any of which may conflict.
Merge(w) ==
  /\ caller[w].at = "merge"
  /\ IF Unchanged(w)
       THEN \E part \in SUBSET caller[w].page :
              /\ shots' = [shots EXCEPT ![caller[w].scope] = @ \cup part]
              /\ IF part = caller[w].page THEN Goes(w, "advance") /\ UNCHANGED run ELSE Stops(w)
       ELSE Stops(w) /\ UNCHANGED shots
  /\ UNCHANGED <<connection, claimed, receipts, saved, tries, rewound, stepFaults>>

Advance(w) ==
  LET c == caller[w].seen IN
  /\ caller[w].at = "advance"
  /\ IF c.cursor < Pages
       THEN IF Unchanged(w) THEN connection' = [c EXCEPT !.cursor = @ + 1] /\ Returns(w, FALSE) /\ UNCHANGED run
            ELSE Stops(w) /\ UNCHANGED connection
       ELSE Swap(w, [c EXCEPT !.paged = TRUE], "count")
  /\ UNCHANGED <<claimed, shots, receipts, saved, tries, rewound, stepFaults>>

\* finalizeInventory: a page of the summary is one image here.
Count(w) ==
  LET c == caller[w].seen
      rest == {i \in shots[caller[w].scope] : i > c.after}
      first == CHOOSE i \in rest : \A j \in rest : i <= j
  IN /\ caller[w].at = "count"
     /\ IF rest = {} THEN Goes(w, "complete") /\ UNCHANGED <<connection, run>>
        ELSE IF Unchanged(w) THEN /\ connection' = [c EXCEPT !.counted = @ + 1, !.after = first]
                                  /\ Returns(w, FALSE) /\ UNCHANGED run
        ELSE Stops(w) /\ UNCHANGED connection
     /\ UNCHANGED <<claimed, shots, receipts, saved, tries, rewound, stepFaults>>

\* completeInventory: the receipt and the connection in one transaction
Complete(w) ==
  /\ caller[w].at = "complete"
  /\ IF Unchanged(w) /\ receipts[caller[w].scope] = 0
       THEN /\ connection' = [caller[w].seen EXCEPT !.busy = FALSE]
            /\ receipts' = [receipts EXCEPT ![caller[w].scope] = caller[w].seen.counted]
            /\ Returns(w, TRUE) /\ UNCHANGED run
       ELSE Stops(w) /\ UNCHANGED <<connection, receipts>>
  /\ UNCHANGED <<claimed, shots, saved, tries, rewound, stepFaults>>

(***************************************************************************)
(* LocalSmugMugInventoryRunner                                             *)
(***************************************************************************)
StartRun(r) ==
  /\ run[r] = "none" /\ Connected
  /\ saved' = Snapshots
  /\ run' = [run EXCEPT ![r] = "queued"]
  /\ UNCHANGED <<repository, caller, tries, rewound, stepFaults>>

Lease(r) ==
  /\ run[r] = "queued" /\ caller[Runner].at = "idle" /\ \A q \in Requests : run[q] # "leased"
  /\ run' = [run EXCEPT ![r] = "leased"]
  /\ tries' = [tries EXCEPT ![r] = @ + 1]
  /\ UNCHANGED <<repository, saved, caller, rewound, stepFaults>>

Checkpoint ==
  /\ caller[Runner].at = "checkpoint"
  /\ saved' = Snapshots
  /\ Goes(Runner, "commit")
  /\ UNCHANGED <<repository, run, tries, rewound, stepFaults>>

Commit_Requeues ==
  LET r == caller[Runner].scope IN
  /\ caller[Runner].at = "commit"
  /\ caller' = [caller EXCEPT ![Runner] = Resting]
  /\ run' = [run EXCEPT ![r] = IF @ = "leased" THEN "queued" ELSE @]
  /\ tries' = [tries EXCEPT ![r] = 0]
  /\ UNCHANGED <<repository, saved, rewound, stepFaults>>

\* Acknowledgement, next page and the run's pointer in one transaction, if the lease holds.
Commit ==
  LET r == caller[Runner].scope IN
  /\ caller[Runner].at = "commit"
  /\ caller' = [caller EXCEPT ![Runner] = Resting]
  /\ IF run[r] # "leased" THEN UNCHANGED <<run, tries>>
     ELSE /\ run' = [run EXCEPT ![r] = IF caller[Runner].done THEN "done" ELSE "queued"]
          /\ tries' = [tries EXCEPT ![r] = 0]
  /\ UNCHANGED <<repository, saved, rewound, stepFaults>>

Requeued(r) == [run EXCEPT ![r] = IF tries[r] < MaxTries THEN "queued" ELSE "dead"]

\* The provider fails, or the lease runs out under a runner that goes on.
StepFails(r) ==
  /\ run[r] = "leased" /\ stepFaults < MaxStepFaults
  /\ stepFaults' = stepFaults + 1
  /\ run' = Requeued(r)
  /\ \/ caller' = [caller EXCEPT ![Runner] = Resting] /\ caller[Runner].at = "fetch"
     \/ UNCHANGED caller
  /\ UNCHANGED <<repository, saved, tries, rewound>>

RecoverRun(r) ==
  /\ run[r] = "dead" /\ Connected /\ tries[r] > 0
  /\ run' = [run EXCEPT ![r] = "queued"]
  /\ tries' = [tries EXCEPT ![r] = 0]
  /\ UNCHANGED <<repository, saved, caller, rewound, stepFaults>>

Crash ==
  /\ stepFaults < MaxStepFaults
  /\ stepFaults' = stepFaults + 1
  /\ connection' = saved.connection /\ claimed' = saved.claimed
  /\ shots' = saved.shots /\ receipts' = saved.receipts
  /\ caller' = [w \in Workers |-> Resting]
  /\ run' = [r \in Requests |-> IF run[r] = "leased" THEN Requeued(r)[r] ELSE run[r]]
  /\ UNCHANGED <<saved, tries, rewound>>

Steps(w) == Begin(w) \/ Fetch(w) \/ Merge(w) \/ Advance(w) \/ Count(w) \/ Complete(w)

InventoryNext ==
  \/ \E w \in Workers : Steps(w)
  \/ \E w \in Callers : \/ Scan(w) \/ ClaimOAuth(w) \/ Authorize(w) \/ SyncReads(w) \/ SyncPuts(w)
                        \/ DisconnectReads(w) \/ DisconnectPuts(w)
  \/ \E r \in Requests : Ask(r) \/ StartRun(r) \/ Lease(r) \/ StepFails(r) \/ RecoverRun(r)
  \/ Checkpoint \/ Commit \/ Crash

InventoryFairness ==
  /\ WF_inventoryVars(Steps(Runner))
  /\ WF_inventoryVars(\E r \in Requests : Ask(r))
  /\ WF_inventoryVars(Checkpoint) /\ WF_inventoryVars(Commit)
  /\ \A r \in Requests : SF_inventoryVars(Lease(r))

InventorySpec == InventoryInit /\ [][InventoryNext]_inventoryVars /\ InventoryFairness

InventoryTypeOK ==
  /\ connection \in Connection /\ claimed \in BOOLEAN
  /\ shots \in [Scopes -> SUBSET Shots] /\ receipts \in [Scopes -> 0..Cardinality(Shots)]
  /\ run \in [Requests -> {"none", "queued", "leased", "dead", "done"}] /\ tries \in [Requests -> 0..MaxTries]
  /\ caller \in [Workers -> [at : {"idle", "authorize", "sync", "disconnect", "begin", "fetch", "merge", "advance",
                                   "count", "complete", "checkpoint", "commit"},
                             seen : Connection, scope : Scopes \cup {NoScope}, page : SUBSET Shots, done : BOOLEAN]]
  /\ stepFaults \in 0..MaxStepFaults

\* What a creator confirms is the catalogue that was read: a receipt counts every
\* image of its scope, with something of every provider page, whatever calls ran
\* together and whatever crashed - unless a sync put back an older connection.
ReceiptIsWhole ==
  \A s \in Scopes : receipts[s] > 0 /\ ~rewound =>
    /\ receipts[s] = Cardinality(shots[s])
    /\ \A p \in 1..Pages : \E found \in PageContents[p] : found \subseteq shots[s]

\* A run reported complete has its receipt on disk: no crash takes it back.
DoneRunsHaveReceipts == \A r \in Requests : run[r] = "done" => receipts[r] > 0 /\ saved.receipts[r] > 0

\* Once the creator has disconnected, no call that was under way records metadata.
RecordsNothing == connection.state = "disconnected" /\ stepFaults' = stepFaults => UNCHANGED <<shots, receipts>>
NothingRecordedAfterDisconnect == [][RecordsNothing]_inventoryVars

\* A run that started comes to an end: complete, or dead for someone to recover.
RunUnderWay(r) == run[r] \in {"queued", "leased"}
RunsSettle == \A r \in Requests : []<>~RunUnderWay(r)
=============================================================================
