----------------------------- MODULE MCPlatform -----------------------------
(***************************************************************************)
(* Small instances of components that share no state with one another, or  *)
(* whose interaction is inside a module: each behaviour is one of them,    *)
(* named by `part', which never changes.  They use the variables v1, v2,   *)
(* ... in turn, each for its own.                                          *)
(***************************************************************************)
EXTENDS Naturals, FiniteSets, TLC

CONSTANTS Parts,          \* the components of this run
          Hands,          \* their concurrent workers and callers
          none, runner,
          Publications,   \* attempts of a website's owner
          HoldsPlaced,    \* holds on what the website depends on
          HostingFaults,  \* crashes and lost leases of its publishers
          Tries,          \* leases a deployment job is given
          Scans, Drift    \* SmugMug: scopes without a run, whether a page may come back longer

VARIABLES part,
  v1, v2, v3, v4, v5, v6, v7, v8, v9, v10, v11, v12, v13, v14, v15

platformVars == <<part,
  v1, v2, v3, v4, v5, v6, v7, v8, v9, v10, v11, v12, v13, v14, v15>>

Contents == [p \in 1..2 |-> IF p = 1 THEN {{1}} ELSE IF Drift THEN {{2}, {2, 3}} ELSE {{2}}]

\* the variables a component does not need
No15 == v15 = none
No14 == v14 = none /\ No15
No13 == v13 = none /\ No14
No12 == v12 = none /\ No13
No11 == v11 = none /\ No12
No10 == v10 = none /\ No11
No9 == v9 = none /\ No10
No8 == v8 = none /\ No9
No7 == v7 = none /\ No8
No6 == v6 = none /\ No7
from15 == <<v15>>
from14 == <<v14, from15>>
from13 == <<v13, from14>>
from12 == <<v12, from13>>
from11 == <<v11, from12>>
from10 == <<v10, from11>>
from9 == <<v9, from10>>
from8 == <<v8, from9>>
from7 == <<v7, from8>>
from6 == <<v6, from7>>

Postgres == INSTANCE MCPostgresJobQueue WITH
  Ids <- {1, 2}, Requests <- {[cell |-> "a", key |-> "k", type |-> "t"]}, NoRequest <- none,
  Workers <- {"w1", "w2"}, NoLease <- none, CellOf <- [w \in {"w1", "w2"} |-> "a"],
  TypesOf <- [w \in {"w1", "w2"} |-> {}], MaxAttempts <- 2, LeaseDuration <- 2, Delays <- {0, 1}, MaxPause <- 1,
  MaxTime <- 6, MaxLeases <- 4, MaxRecoveries <- 1,
  request <- v1, state <- v2, attempt <- v3, availableAt <- v4, leaseToken <- v5, leaseExpiresAt <- v6,
  now <- v7, issued <- v8, pc <- v9, stamp <- v10, lease <- v11, asked <- v12, answers <- v13, recoveries <- v14,
  completions <- v15

Migration == INSTANCE MCRegionalMigration WITH
  Cells <- {"a", "b"}, Home <- "a", Migrations <- {1, 2}, NoCheckpoint <- none, Workers <- Hands,
  Window <- 1, MaxTime <- 1, MaxWrites <- 2,
  route <- v1, checkpoint <- v2, holds <- v3, creator <- v4, copy <- v5, now <- v6, pc <- v7, command <- v8,
  loaded <- v9, read <- v10, taken <- v11, writing <- v12, written <- v13, strayed <- v14

Moving == INSTANCE MCRegionalMigration WITH
  Cells <- {"a", "b"}, Home <- "a", Migrations <- {1}, NoCheckpoint <- none, Workers <- {"w1", "w2"},
  Window <- 1, MaxTime <- 0, MaxWrites <- 2,
  route <- v1, checkpoint <- v2, holds <- v3, creator <- v4, copy <- v5, now <- v6, pc <- v7, command <- v8,
  loaded <- v9, read <- v10, taken <- v11, writing <- v12, written <- v13, strayed <- v14

Races == INSTANCE MCRegionalMigration WITH
  Cells <- {"a", "b"}, Home <- "a", Migrations <- {1}, NoCheckpoint <- none, Workers <- Hands,
  Window <- 1, MaxTime <- 1, MaxWrites <- 2,
  route <- v1, checkpoint <- v2, holds <- v3, creator <- v4, copy <- v5, now <- v6, pc <- v7, command <- v8,
  loaded <- v9, read <- v10, taken <- v11, writing <- v12, written <- v13, strayed <- v14

Single == INSTANCE MCRegionalMigration WITH
  Cells <- {"a", "b"}, Home <- "a", Migrations <- {1}, NoCheckpoint <- none, Workers <- Hands,
  Window <- 1, MaxTime <- 1, MaxWrites <- 3,
  route <- v1, checkpoint <- v2, holds <- v3, creator <- v4, copy <- v5, now <- v6, pc <- v7, command <- v8,
  loaded <- v9, read <- v10, taken <- v11, writing <- v12, written <- v13, strayed <- v14

Retiring == INSTANCE MCRegionalMigration WITH
  Cells <- {"a", "b"}, Home <- "a", Migrations <- {2}, NoCheckpoint <- none, Workers <- Hands,
  Window <- 1, MaxTime <- 1, MaxWrites <- 2,
  route <- v1, checkpoint <- v2, holds <- v3, creator <- v4, copy <- v5, now <- v6, pc <- v7, command <- v8,
  loaded <- v9, read <- v10, taken <- v11, writing <- v12, written <- v13, strayed <- v14

Website == INSTANCE WebsiteHosting WITH
  Generations <- Publications, Publishers <- Hands, Subjects <- {"s"}, NoSubject <- none,
  MaxHolds <- HoldsPlaced, MaxHostingFaults <- HostingFaults, MaxTries <- Tries,
  target <- v1, deploy <- v2, outbox <- v3, deployJob <- v4, live <- v5, gate <- v6, held <- v7, publisher <- v8,
  scan <- v9, resumer <- v10, covered <- v11, reclaimed <- v12, holdsPlaced <- v13, hostingFaults <- v14

Suspension == INSTANCE WebsiteHosting WITH
  Generations <- 2, Publishers <- {"w"}, Subjects <- {"s"}, NoSubject <- none, MaxHolds <- 1,
  MaxHostingFaults <- 0, MaxTries <- 1,
  target <- v1, deploy <- v2, outbox <- v3, deployJob <- v4, live <- v5, gate <- v6, held <- v7, publisher <- v8,
  scan <- v9, resumer <- v10, covered <- v11, reclaimed <- v12, holdsPlaced <- v13, hostingFaults <- v14

Recovery == INSTANCE WebsiteHosting WITH
  Generations <- 1, Publishers <- Hands, Subjects <- {"s"}, NoSubject <- none, MaxHolds <- 1,
  MaxHostingFaults <- 1, MaxTries <- 2,
  target <- v1, deploy <- v2, outbox <- v3, deployJob <- v4, live <- v5, gate <- v6, held <- v7, publisher <- v8,
  scan <- v9, resumer <- v10, covered <- v11, reclaimed <- v12, holdsPlaced <- v13, hostingFaults <- v14

Inventory == INSTANCE SmugMugInventory WITH
  Requests <- {"run"}, Scans <- Scans, NoScope <- none, Callers <- {"caller"}, Runner <- runner, Pages <- 2,
  PageContents <- Contents, MaxStepFaults <- 1,
  connection <- v1, claimed <- v2, shots <- v3, receipts <- v4, saved <- v5, caller <- v6, run <- v7,
  tries <- v8, rewound <- v9, stepFaults <- v10

Import == INSTANCE SmugMugTransfer WITH
  Images <- 2, Unselected <- {1}, WithOriginal <- {2}, Sweepers <- {"w1", "w2"}, MaxSweepFaults <- 1,
  import <- v1, items <- v2, hosted <- v3, sweeper <- v4, overlapped <- v5, sweepFaults <- v6

Roles == INSTANCE DiscordRoles WITH
  Customers <- {"a", "b"}, Known <- {"a"}, Leavers <- {"a"}, Couriers <- Hands, NoCourier <- none,
  MaxRoleFaults <- 1,
  roleGrant <- v1, linked <- v2, forgotten <- v3, roleRecord <- v4, roleJob <- v5, roleLock <- v6, courier <- v7,
  member <- v8, giver <- v9, predates <- v10, roleFaults <- v11

Collection == INSTANCE CollectionAccess WITH
  Galleries <- {"g", "h"}, Pinned <- {"zip"}, Shelves <- SUBSET {"g", "h"} \ {{}}, Purchases <- {"purchase"},
  Gifts <- {"gift"}, Refreshers <- {"reader"}, MaxVersions <- 3,
  versions <- v1, shelf <- v2, refresher <- v3, holder <- v4, grants <- v5

Flickr == INSTANCE FlickrInventory WITH
  Photos <- {1, 2, 3}, Albums <- {}, Whole <- FALSE, PageSize <- 1, MaxChanges <- 2, MaxCaptures <- 2,
  MaxWalks <- 0,
  catalogue <- v1, description <- v2, albums <- v3, migration <- v4, capture <- v5, walk <- v6, changes <- v7,
  captures <- v8, walks <- v9

FlickrWhole == INSTANCE FlickrInventory WITH
  Photos <- {1, 2, 3}, Albums <- {}, Whole <- TRUE, PageSize <- 1, MaxChanges <- 2, MaxCaptures <- 2,
  MaxWalks <- 0,
  catalogue <- v1, description <- v2, albums <- v3, migration <- v4, capture <- v5, walk <- v6, changes <- v7,
  captures <- v8, walks <- v9

FlickrAlbums == INSTANCE FlickrInventory WITH
  Photos <- {1, 2}, Albums <- {1, 2}, Whole <- FALSE, PageSize <- 1, MaxChanges <- 3, MaxCaptures <- 0,
  MaxWalks <- 2,
  catalogue <- v1, description <- v2, albums <- v3, migration <- v4, capture <- v5, walk <- v6, changes <- v7,
  captures <- v8, walks <- v9

Moved == INSTANCE FlickrTransfer WITH
  Photos <- {1, 2}, Originals <- {1, 2}, Workers <- {"w"}, NoOne <- none, Batch <- 1, MaxConfirms <- 1,
  MaxTurns <- 1, MaxTrouble <- 1,
  migration <- v1, access <- v2, scanner <- v3, attached <- v4, workers <- v5, creator <- v6, troubles <- v7,
  asked <- v8, turns <- v9, trouble <- v10

Retried == INSTANCE FlickrTransfer WITH
  Photos <- {1}, Originals <- {1}, Workers <- {"w"}, NoOne <- none, Batch <- 1, MaxConfirms <- 1, MaxTurns <- 0,
  MaxTrouble <- 5,
  migration <- v1, access <- v2, scanner <- v3, attached <- v4, workers <- v5, creator <- v6, troubles <- v7,
  asked <- v8, turns <- v9, trouble <- v10

Overlapped == INSTANCE FlickrTransfer WITH
  Photos <- {1}, Originals <- {1}, Workers <- Hands, NoOne <- none, Batch <- 1, MaxConfirms <- 2, MaxTurns <- 0,
  MaxTrouble <- 1,
  migration <- v1, access <- v2, scanner <- v3, attached <- v4, workers <- v5, creator <- v6, troubles <- v7,
  asked <- v8, turns <- v9, trouble <- v10

SignIn == INSTANCE CustomerClaims WITH
  Subjects <- {1, 2}, Emails <- {1, 2}, Requests <- Hands, Purchases <- {}, Accounts <- TRUE,
  Offered <- {"login", "account"}, MaxLogins <- 2, MaxProofs <- 0, MaxClaims <- 0, MaxSessions <- 2, MaxGone <- 1,
  customers <- v1, accounts <- v2, logins <- v3, redeeming <- v4, sessions <- v5, proofs <- v6, claims <- v7,
  purchases <- v8, gone <- v9

PurchaseClaims == INSTANCE CustomerClaims WITH
  Subjects <- {1, 2}, Emails <- {1}, Requests <- {"r"}, Purchases <- {1, 2}, Accounts <- FALSE,
  Offered <- {"login", "verify"}, MaxLogins <- 1, MaxProofs <- 2, MaxClaims <- 2, MaxSessions <- 2, MaxGone <- 1,
  customers <- v1, accounts <- v2, logins <- v3, redeeming <- v4, sessions <- v5, proofs <- v6, claims <- v7,
  purchases <- v8, gone <- v9

Downloads == INSTANCE CommerceDownloads WITH
  Files <- {1, 2}, Builders <- Hands, Uploaders <- {}, Readers <- {"r"}, NoOne <- none, StorageLimit <- 4,
  MaxLapses <- 1, MaxChanges <- 3,
  available <- v1, allowed <- v2, granted <- v3, pack <- v4, job <- v5, lock <- v6, builders <- v7,
  uploads <- v8, readers <- v9, lapses <- v10, changes <- v11

CreatorStorage == INSTANCE CommerceDownloads WITH
  Files <- {1, 2}, Builders <- Hands, Uploaders <- {"u", "v"}, Readers <- {}, NoOne <- none, StorageLimit <- 5,
  MaxLapses <- 2, MaxChanges <- 2,
  available <- v1, allowed <- v2, granted <- v3, pack <- v4, job <- v5, lock <- v6, builders <- v7,
  uploads <- v8, readers <- v9, lapses <- v10, changes <- v11

PayPal == INSTANCE PayPalConnections WITH
  Connections <- {1}, Callers <- Hands, NoOne <- none, Orders <- {"o"}, MaxCommands <- 4, MaxLapses <- 1,
  MaxFaults <- 1,
  connections <- v1, vault <- v2, hooks <- v3, issued <- v4, lock <- v5, calls <- v6, orders <- v7,
  settled <- v8, commands <- v9, lapses <- v10, faults <- v11

Replacing == INSTANCE PayPalConnections WITH
  Connections <- {1, 2}, Callers <- Hands, NoOne <- none, Orders <- {"o"}, MaxCommands <- 3, MaxLapses <- 0,
  MaxFaults <- 1,
  connections <- v1, vault <- v2, hooks <- v3, issued <- v4, lock <- v5, calls <- v6, orders <- v7,
  settled <- v8, commands <- v9, lapses <- v10, faults <- v11

Init ==
  /\ part \in Parts
  /\ \/ part = "postgres" /\ Postgres!Init
     \/ part = "migration" /\ Migration!Init /\ No15
     \/ part = "races" /\ Races!Init /\ No15
     \/ part = "moving" /\ Moving!Init /\ No15
     \/ part = "single" /\ Single!Init /\ No15
     \/ part = "retiring" /\ Retiring!Init /\ No15
     \/ part = "website" /\ Website!HostingInit /\ No15
     \/ part = "held" /\ Suspension!HostingInit /\ No15
     \/ part = "recovery" /\ Recovery!HostingInit /\ No15
     \/ part = "inventory" /\ Inventory!InventoryInit /\ No11
     \/ part = "import" /\ Import!ImportInit /\ No7
     \/ part = "roles" /\ Roles!RoleInit /\ No12
     \/ part = "collection" /\ Collection!AccessInit /\ No6
     \/ part = "flickr" /\ Flickr!FlickrInit /\ No10
     \/ part = "flickrWhole" /\ FlickrWhole!FlickrInit /\ No10
     \/ part = "flickrAlbums" /\ FlickrAlbums!FlickrInit /\ No10
     \/ part = "originals" /\ Moved!TransferInit /\ No11
     \/ part = "retried" /\ Retried!TransferInit /\ No11
     \/ part = "overlapped" /\ Overlapped!TransferInit /\ No11
     \/ part = "signIn" /\ SignIn!ClaimInit /\ No10
     \/ part = "claims" /\ PurchaseClaims!ClaimInit /\ No10
     \/ part = "downloads" /\ Downloads!DownloadInit /\ No12
     \/ part = "storage" /\ CreatorStorage!DownloadInit /\ No12
     \/ part = "paypal" /\ PayPal!PayPalInit /\ No12
     \/ part = "replacing" /\ Replacing!PayPalInit /\ No12

Next ==
  \/ part = "postgres" /\ Postgres!MCNext /\ UNCHANGED part
  \/ part = "migration" /\ Migration!CarefulNext /\ UNCHANGED <<part, from15>>
  \/ part = "races" /\ Races!AnyNext /\ UNCHANGED <<part, from15>>
  \/ part = "moving" /\ Moving!CarefulNext /\ UNCHANGED <<part, from15>>
  \/ part = "single" /\ Single!CarefulNext /\ UNCHANGED <<part, from15>>
  \/ part = "retiring" /\ Retiring!CarefulNext /\ UNCHANGED <<part, from15>>
  \/ part = "website" /\ Website!HostingNext /\ UNCHANGED <<part, from15>>
  \/ part = "held" /\ Suspension!HostingNext /\ UNCHANGED <<part, from15>>
  \/ part = "recovery" /\ Recovery!HostingNext /\ UNCHANGED <<part, from15>>
  \/ part = "inventory" /\ Inventory!InventoryNext /\ UNCHANGED <<part, from11>>
  \/ part = "import" /\ Import!ImportNext /\ UNCHANGED <<part, from7>>
  \/ part = "roles" /\ Roles!RoleNext /\ UNCHANGED <<part, from12>>
  \/ part = "collection" /\ Collection!AccessNext /\ UNCHANGED <<part, from6>>
  \/ part = "flickr" /\ Flickr!FlickrNext /\ UNCHANGED <<part, from10>>
  \/ part = "flickrWhole" /\ FlickrWhole!FlickrNext /\ UNCHANGED <<part, from10>>
  \/ part = "flickrAlbums" /\ FlickrAlbums!FlickrNext /\ UNCHANGED <<part, from10>>
  \/ part = "originals" /\ Moved!TransferNext /\ UNCHANGED <<part, from11>>
  \/ part = "retried" /\ Retried!TransferNext /\ UNCHANGED <<part, from11>>
  \/ part = "overlapped" /\ Overlapped!TransferNext /\ UNCHANGED <<part, from11>>
  \/ part = "signIn" /\ SignIn!ClaimNext /\ UNCHANGED <<part, from10>>
  \/ part = "claims" /\ PurchaseClaims!ClaimNext /\ UNCHANGED <<part, from10>>
  \/ part = "downloads" /\ Downloads!DownloadNext /\ UNCHANGED <<part, from12>>
  \/ part = "storage" /\ CreatorStorage!DownloadNext /\ UNCHANGED <<part, from12>>
  \/ part = "paypal" /\ PayPal!PayPalNext /\ UNCHANGED <<part, from12>>
  \/ part = "replacing" /\ Replacing!PayPalNext /\ UNCHANGED <<part, from12>>

Spec == Init /\ [][Next]_platformVars

Alike == Permutations(Hands)

-----------------------------------------------------------------------------
(* The fairness of each component, while it is the one that runs.           *)

LiveSpec ==
  /\ Spec
  /\ \/ /\ []<>(part = "moving")
        /\ \A w \in {"w1", "w2"} :
             /\ WF_platformVars(part = "moving" /\ Moving!Resume(w) /\ UNCHANGED <<part, from15>>)
             /\ WF_platformVars(part = "moving" /\ Moving!Step(w) /\ UNCHANGED <<part, from15>>)
             /\ WF_platformVars(part = "moving" /\ Moving!GivesUp(w) /\ UNCHANGED <<part, from15>>)
        /\ <>[][\A w \in {"w1", "w2"} : part = "moving" /\ Moving!Stop(w) => Moving!GivesUp(w)]_platformVars
     \/ /\ []<>(part = "website")
        /\ \A p \in Hands : WF_platformVars(part = "website" /\ Website!Executes(p) /\ UNCHANGED <<part, from15>>)
        /\ \A a \in 1..Publications :
             /\ WF_platformVars(part = "website" /\ Website!Dispatch(a) /\ UNCHANGED <<part, from15>>)
             /\ SF_platformVars(part = "website" /\ (\E p \in Hands : Website!LeaseDeploy(p, a)) /\ UNCHANGED <<part, from15>>)
        /\ SF_platformVars(part = "website" /\ Website!ScanStep /\ UNCHANGED <<part, from15>>)
        /\ WF_platformVars(part = "website" /\ Website!Resumes /\ UNCHANGED <<part, from15>>)
     \/ /\ []<>(part = "inventory")
        /\ WF_platformVars(part = "inventory" /\ Inventory!Steps(runner) /\ UNCHANGED <<part, from11>>)
        /\ WF_platformVars(part = "inventory" /\ Inventory!Ask("run") /\ UNCHANGED <<part, from11>>)
        /\ WF_platformVars(part = "inventory" /\ Inventory!Checkpoint /\ UNCHANGED <<part, from11>>)
        /\ WF_platformVars(part = "inventory" /\ Inventory!Commit /\ UNCHANGED <<part, from11>>)
        /\ SF_platformVars(part = "inventory" /\ Inventory!Lease("run") /\ UNCHANGED <<part, from11>>)
     \/ /\ []<>(part = "import")
        /\ \A w \in {"w1", "w2"} :
             /\ WF_platformVars(part = "import" /\ Import!Resume(w) /\ UNCHANGED <<part, from7>>)
             /\ WF_platformVars(part = "import" /\ Import!Sweep(w) /\ UNCHANGED <<part, from7>>)
     \/ /\ []<>(part = "roles")
        /\ WF_platformVars(part = "roles" /\ Roles!Converge /\ UNCHANGED <<part, from12>>)
        /\ \A w \in Hands :
             /\ WF_platformVars(part = "roles" /\ (Roles!Member(w) \/ Roles!Compare(w) \/ Roles!Change(w) \/ Roles!Persist(w)) /\ UNCHANGED <<part, from12>>)
             /\ SF_platformVars(part = "roles" /\ Roles!Lock(w) /\ UNCHANGED <<part, from12>>)
             /\ \A c \in {"a", "b"} : SF_platformVars(part = "roles" /\ Roles!Snapshot(w, c) /\ UNCHANGED <<part, from12>>)
        /\ <>[][part = "roles" => ~Roles!ByHand]_platformVars

-----------------------------------------------------------------------------
(* Properties: each is a promise of one component, of its module.           *)

TypeOK ==
  CASE part = "postgres" -> Postgres!TypeOK
    [] part = "migration" -> Migration!TypeOK
    [] part = "races" -> Races!TypeOK
    [] part = "moving" -> Moving!TypeOK
    [] part = "single" -> Single!TypeOK
    [] part = "retiring" -> Retiring!TypeOK
    [] part = "website" -> Website!HostingTypeOK
    [] part = "held" -> Suspension!HostingTypeOK
    [] part = "recovery" -> Recovery!HostingTypeOK
    [] part = "inventory" -> Inventory!InventoryTypeOK
    [] part = "import" -> Import!ImportTypeOK
    [] part = "roles" -> Roles!RoleTypeOK
    [] part = "collection" -> Collection!AccessTypeOK
    [] part = "flickr" -> Flickr!FlickrTypeOK
    [] part = "flickrWhole" -> FlickrWhole!FlickrTypeOK
    [] part = "flickrAlbums" -> FlickrAlbums!FlickrTypeOK
    [] part = "originals" -> Moved!TransferTypeOK
    [] part = "retried" -> Retried!TransferTypeOK
    [] part = "overlapped" -> Overlapped!TransferTypeOK
    [] part = "signIn" -> SignIn!ClaimTypeOK
    [] part = "claims" -> PurchaseClaims!ClaimTypeOK
    [] part = "downloads" -> Downloads!DownloadTypeOK
    [] part = "storage" -> CreatorStorage!DownloadTypeOK
    [] part = "paypal" -> PayPal!PayPalTypeOK
    [] part = "replacing" -> Replacing!PayPalTypeOK

\* PostgreSQL's queue: leases that have not run out are kept and not shared, a
\* key has one job, and no settled job is run again (lease, transition).
PostgresSafe ==
  /\ [](part = "postgres" => /\ Postgres!LiveLeaseKept /\ Postgres!LiveLeasesDisjoint
                             /\ Postgres!CompletedOnce /\ Postgres!EnqueueIdempotent)
  /\ [][part = "postgres" => Postgres!NoneRevived]_platformVars

\* Migrations requested one after the other: the route names a cell that has the
\* content, and the source keeps its content and its hold while a rollback may need
\* them.  Whatever commands are repeated over stale checkpoints, a checkpoint moves
\* along its lifecycle one write at a time, and the route only by a verified migration
\* requested at the revision it moves from, or back by that migration's rollback
\* (coordinator, cell commands, routing directory).
MigrationSafe ==
  /\ [](part = "migration" => Migration!HomeHasContent /\ Migration!SourceKept /\ Migration!SourceReadOnly)
  /\ [][part = "races" => Races!LifecycleForward /\ Races!RouteMovesVerified]_platformVars

\* Website hosting: two executions never write to one target, its generations and
\* releases only move forward, and a release the worker took down for a hold is not
\* served again while the hold lasts (execute, reconcile, policyGate, resume).
WebsiteSafe ==
  /\ [](part = "website" => Website!OneWriter)
  /\ [][part = "website" => Website!MovesForward]_platformVars
  /\ [](part = "held" => Suspension!OneWriter /\ Suspension!HeldStaysDenied)
  /\ [](part = "recovery" => Recovery!OneWriter /\ Recovery!HeldStaysDenied)

\* SmugMug: a receipt counts the whole inventory that was read and survives a crash
\* once its run is done, a disconnected account records nothing, and an import that
\* reports completion has every item once (inventory, runOne, initializeItems, resume).
\* Flickr: what moves between the pages is listed once, no publication is forgotten, and
\* an original is attached only when it is clean, admitted and fetched no more often than
\* it must be (inventory, advanceFlickrAlbumInventory, run).
ImportSafe ==
  /\ [](part = "inventory" => Inventory!ReceiptIsWhole /\ Inventory!DoneRunsHaveReceipts)
  /\ [][part = "inventory" => Inventory!RecordsNothing]_platformVars
  /\ [](part = "import" => Import!ReadyIsWhole /\ Import!CompletedIsDone)
  /\ [][part = "import" => Import!KeepsHosted]_platformVars
  /\ [](part = "flickr" => Flickr!ListedOnce /\ Flickr!QuietReadExact)
  /\ [][part = "flickrWhole" => FlickrWhole!NothingForgotten]_platformVars
  /\ [](part = "flickrAlbums" => FlickrAlbums!ListedOnce /\ FlickrAlbums!QuietReadExact)
  /\ [](part = "originals" => Moved!OnlyClean /\ Moved!CompleteIsWhole)
  /\ [][part = "originals" => Moved!AttachesAdmitted /\ Moved!NotFetchedAgain]_platformVars
  /\ [](part = "retried" => Retried!RetriesBounded)
  /\ [](part = "overlapped" => Overlapped!OnlyClean /\ Overlapped!CompleteIsWhole)

\* What access includes: a role somebody else gave before the service managed it is not
\* removed, grants follow the latest contents of a collection and come back with them, and
\* access that ended altogether does not (deliverDiscord, updateAccessContents, claimGifts).  Links sign in
\* and claim once, for the buyer, and nothing is left of an erased customer (redeemEmailLogin,
\* redeemClaim, eraseCustomer).  What was withdrawn is not served and storage stays within
\* its limit (downloadAsset, buildPackage).  A PayPal connection keeps a readable secret
\* and its webhook while it takes payments (paypal-connections.ts).
AccessSafe ==
  /\ [][part = "roles" => Roles!KeepsOthersRole]_platformVars
  /\ [](part = "collection" => Collection!AccessFollowsContents /\ Collection!PaidContentsReturn)
  /\ [][part = "collection" => Collection!NoneComesBack]_platformVars
  /\ [](part = "signIn" => SignIn!SignsInOnce /\ SignIn!ErasedIsOut)
  /\ [][part = "signIn" => SignIn!AccountKept]_platformVars
  /\ [](part = "claims" => PurchaseClaims!OneClaimOpen /\ PurchaseClaims!ErasedIsOut)
  /\ [][part = "claims" => PurchaseClaims!ClaimedByBuyer]_platformVars
  /\ [](part = "downloads" => Downloads!WithdrawnNotServed /\ Downloads!ReadyIsBuilt)
  /\ [](part = "storage" => CreatorStorage!ReadyIsBuilt /\ CreatorStorage!WithinStorage)
  /\ [](part = "paypal" => PayPal!CredentialReadable /\ PayPal!AcceptsWithWebhook /\ PayPal!DisconnectedIsSettled)
  /\ [](part = "replacing" => Replacing!CredentialReadable /\ Replacing!AcceptsWithWebhook /\ Replacing!DisconnectedIsSettled)

\* One migration of a creator who writes all the while, rolled back or retired: the
\* home has the last acknowledged write, unless it passed the guard before the hold and
\* was done under it, was made elsewhere or, at the destination, was rolled back over (exportCreator,
\* importCreator, requireCreatorWritable).
HomeKeepsUp ==
  /\ part = "single" => Single!HomeKept
  /\ part = "retiring" => Retiring!HomeKept

\* What was asked for comes to rest: a requested migration has moved, a website that
\* depends on a held subject is not served for good, an inventory run has an outcome,
\* a confirmed import is swept to its end and Discord roles match access.
Settles ==
  /\ []<>(part = "moving" /\ 1 \in Moving!Requested => ~Moving!MovesTo(1))
  /\ []<>(part = "website" => ~Website!StillServed("s"))
  /\ []<>(part = "inventory" => ~Inventory!RunUnderWay("run"))
  /\ []<>(part = "import" => ~Import!ImportRunning)
  /\ <>[](part = "roles" => Roles!RoleMatches)
=============================================================================
