# Ubeeq: specifications, model checking and proofs

Ubeeq is a self-hostable platform for creators' work: HTTP APIs and web applications
over a set of TypeScript packages, with one set of adapters for a single machine
(SQLite and files), one for a server (PostgreSQL) and one for AWS (DynamoDB, S3, SQS).
This directory specifies in TLA+ the parts of it whose correctness depends on order:
what happens between two calls of a store, between two processes, between a platform
elsewhere and what is recorded of it. TLC checks each part on small instances; TLAPS
proves the central properties of the queues, of migrations, of orders, of sites and of the
creator's library, copies, galleries, activity, organizations and federation for every instance.

Contents: [inventory](#inventory) · [modules](#modules-and-how-they-correspond-to-the-code)
· [runs](#runs-what-each-one-asks-and-why-its-bounds-suffice) · [fairness](#fairness)
· [proofs](#proofs) · [where code and documentation differ](#where-code-and-documentation-differ)
· [not modelled](#what-is-not-modelled) · [plan](#plan)

To repeat a check: `tlc -workers 2 -config <cfg> <module>` (the pairs are in
`PROJECT.json`, "runs") and `tlapm <module>` for the modules named `*Proofs`.
`PROJECT.json` also holds, for every definition that models code, the lines it stands
for ("map"), a mutated definition for each property that the property detects
("mutants"), and every hazard found in the code with the properties aimed at it
("hazards").

## Inventory

| part (source) | state it keeps | hard behaviour | what makes it correct |
|---|---|---|---|
| **Job queues** (`packages/jobs`, `adapters/local`, `adapters/machine`, `adapters/aws`) | one row or item per job: state, attempt, availability, lease token and expiry | several worker processes; crashes, workers slower than their lease, a `lease()` of several statements, stale index reads | one live lease per job; only its holder settles it; attempts are bounded; what ended stays ended; one job per key; every job settles |
| **Regional migration** (`packages/deployment-platform`, `migration-cell.ts`, routing and checkpoint stores of the adapters, write guard in `server.ts`) | route, checkpoints, holds, records in each cell | commands delivered twice and concurrently, a stop between any two remote calls, several migrations of a creator | the route names a cell that has the content; the source is kept and read-only while it may be needed; a checkpoint never goes back; a migration completes |
| **Commerce: orders** (`packages/commerce`, `packages/commerce-runtime`, `paypal-commerce.ts`) | checkouts, payments, refunds, purchases, grants, leased jobs | provider calls between transactions; notifications lost, repeated, reordered | access only for money taken; refunds end access; every payment settles |
| **Commerce: access** (`service.ts`, `paypal-connections.ts`) | offer versions, grants, customers and their addresses, claims, downloads, Discord roles, vaulted secrets | contents that change after the sale, accounts provisioned between transactions, storage locks that lapse, a vault, a webhook and a record written in turn | grants follow contents and end for good when they end; a link is used once; what is withdrawn is not served; a connection in use has its secret |
| **Website publishing, editing and builds** (`packages/portability`, `adapters/local/src/website*.ts`, `packages/core/src/websites.ts`) | attempts, target lock, pointer, serving gate; pages, published paths, redirects; builds, jobs, artifacts | publishers that die after announcing an activation, holds placed meanwhile, overlapping saves, sources withdrawn while a build reads them | one writer per target; what is held is not served; old addresses keep working; a ready build is stored and not of withdrawn content |
| **Creator library** (`packages/core/src/creator-*.ts`, `adapters/local/src/creator-library.ts`, `packages/processing`) | Works, collections, their names and former names; media and renditions | services check in one read and write in another; two editors; workers past their lease | names are unique and former names kept; media, primary asset and renditions agree |
| **Works in the reference API** (`server.ts`, `packages/api/src/publication.ts`, `packages/moderation`) | uploads, processing jobs, publications, holds | a hold placed while a Work is published or shown; a retry of a publish request | an upload is not forgotten; a key publishes once; held work is not shown |
| **Copies and galleries elsewhere** (`publication-copies.ts`, `collection-destinations.ts`) | slots, operations, mappings, plans, receipts | calls whose outcome is unknown, plans that go stale | nothing is sent twice or on stale evidence; success is recorded only for what the platform shows |
| **Activity workflows** (`packages/integrations`) | feed checkpoints, digests, inbox marks, replies | overlapping schedulers and sessions, a crash after a message was handed over | nothing is missed, repeated or answered twice |
| **SmugMug and Flickr migrations** (`packages/integrations`) | inventories, receipts, items, positions | pages that shift while they are read, a sweep that stops between sink and record, unfenced stores | an inventory that claims to be whole is; an import that reports completion has every item once |
| **Historical announcements** (`historical-posts.ts`, `historical-announcements.ts`) | imported posts, associations, announcements | overlapping imports, edits of the creator, reconnected accounts | a snapshot keeps order and formatting; one announcement per post, the creator's words kept |
| **Organizations** (`packages/core/src/organizations.ts`) | members, owner, invitations, grants, transfers | validators answer from records read earlier | an owner remains; privileges pass only by who may give them; a transfer happens once |
| **Exports, restores, imports** (`packages/portability`, `memory-creator-content.ts`, `server.ts`) | manifests, checkpoints, restored records | a library edited while it is read; a repeated request whose first answer was lost | what arrives is whole, in order, once |
| **Federation** (`packages/federation`, `server.ts`) | replay store, actors, references | envelopes delivered again, late, at once | an envelope counts once and only for its own actor |
| **Usage and credit ledger, repositories, authentication** (`packages/billing`, `packages/persistence`, `packages/auth`) | ledger entries; revisioned records; windows | idempotent retries, optimistic revisions | not modelled, see below |
| **Providers, storage, media, UI, HTTP routing** | none of their own | I/O | – |

How they interact: the API enqueues jobs in the same process that serves requests;
worker loops (`runNextJob`, `server.ts:333`) lease a job of their cell, run the
handler, and settle it under the lease they were given. Commerce keeps its own jobs
in its own store, and the loop of `server.ts` alternates between the two. SQS, cron
and webhooks only wake loops or fill inboxes. The control plane of a migration calls
two cells over HTTP and the routing directory over its store; the cells know of a
migration only through the moderation hold on the creator, which every write of the
API consults first. The packages of the creator's side meet in the library's records
and in the jobs a change enqueues; each of them compares revisions of its own records,
and none takes a lock on another's.

## Modules and how they correspond to the code

```
JobLifecycle  <-- implemented by --  LocalJobQueue (SQLite)      <- LocalJobQueueProofs    \
   (abstract)                             |                                                 SqlJobsProofs
                                       SqlJobs   (the table and the shared statements)     /
                                          |-- PostgresJobQueue   <- PostgresJobQueueProofs
                                          '-- DynamoJobQueue     <- DynamoJobQueueProofs

RegionalMigration   <- MCRegionalMigration (operators)  <- RegionalMigrationProofs
CommerceOrders      <- CommerceOrdersProofs
FederationInbox, CreatorSlugs, Organizations, WebsiteHosting,
ActivityWorkflows   <- StudioProofs
PublicationCopies, PortableImport, CollectionDestinations,
WorkAssets          <- ContentProofs

MCPlatform = PostgresJobQueue + RegionalMigration + WebsiteHosting + SmugMugInventory
           + SmugMugTransfer + FlickrInventory + FlickrTransfer + DiscordRoles
           + CollectionAccess + CustomerClaims + CommerceDownloads + PayPalConnections
MCStudio   = CollectionDestinations + PublicationCopies + CreatorSlugs + WorkAssets
           + PublicWorks + ContentTransfer + PortableImport + FederationInbox
           + ActivityWorkflows + Organizations + WebsiteEditing + WebsiteBuilds
           + HistoricalPosts + HistoricalText + HistoricalImport
```

**Sums.** `MCPlatform` and `MCStudio` put components side by side that share no state:
a behaviour picks one of the `Parts` when it starts (`part`) and is a behaviour of that
component from then on. The variables `v1`, `v2`, … serve every component in turn, each
INSTANCE substituting them for its own, so no state of one meets another's; a promise is
stated as `part = "website" => Website!OneWriter`. The components of a sum interact in
the program only through values they read afresh (a policy, a role, a page), which are
chosen freely inside each module. Interactions with state on both sides are inside
one module: SmugMug's runner with the queue and the repository, hosting with the
moderation worker and the outbox, a Work's processing jobs with its publication.

**JobLifecycle** is what `packages/jobs/src/index.ts` and its README promise of any
adapter: state, holder and remaining budget of each job, changed by atomic
operations. It knows no time, token or table.

**SqlJobs** is the `ubeeq_jobs` table, a variable per column, with the operations
whose SQL is the same in the SQLite and PostgreSQL adapters: the fenced update
behind `complete`, `retry` and `deadLetter`, and `cancel` and `recover`. A worker has a
program counter, the timestamp its `lease()` call took and the `JobLease` it was
handed. `answers`, `recoveries` and `completions` are history for the properties.
**LocalJobQueue** adds SQLite's `enqueue` (a SELECT, then an INSERT that may meet the
unique index) and its `lease`, which is three autocommit statements over one timestamp:
`LeaseDeadLetter`, `LeaseReclaim`, `LeaseClaim`/`LeaseNone`. Between any two of them
other processes may do anything and time may pass, up to `MaxPause`.
**PostgresJobQueue** has an upsert and a leasing transaction. The transaction is one
step because its row locks exclude others from what it changes; what they do
not exclude is kept: `NOW()` is the time the transaction began, up to `MaxPause` ago,
and SKIP LOCKED may pass over any set of candidates. **DynamoJobQueue** keeps the table
as items with revisions: `lease` reads one page of an index that may miss recent items
and tries candidates in turn, each by a write on condition of the revision the page
showed.

**RegionalMigration**: every remote call of `resume`, `rollback` and `retire` is one
action (`PlaceSourceHold`, `ExportSource`, `TransferObjects`, `ImportRecords`,
`ImportHolds`, `ReadRoute`, `CutOver`, `ReadRouteBack`, `Restore`, `ReleaseSourceHold`,
`RetireContent`, `RetireCreator`), `Advance` is the compare-and-swap of the checkpoint, and
`Stop` stands for a crash or an error at any of them. A worker works from the copy of
the checkpoint it loaded. The creator's records in a cell are one version number:
`copy[c]` is the last acknowledged write the cell has, 0 if it has none. A write is
two steps, the guard and the write itself, as in the handlers of `server.ts`, and a
migration's steps may come in between; `strayed` is history and remembers that a write
was acknowledged under a hold or away from the home.
**MCRegionalMigration** adds two kinds of operators: any commands at any time
(`AnyNext`), and one migration after the other with one decision each, by operators who
open the new home for writes once the route names it (`CarefulNext`; with fairness
`LiveSpec`). The creator writes all the while in both.

**CommerceOrders**: one application checkout and its provider order, which leads to
at most one capture. Every store transaction is one action; a worker's job is the
sequence of its transactions and provider calls, and the provider's answer waits in
`seen[w]` while others act. `StateAfter`, `RefundedAfter`, `OrderAfter` and `AccessAfter` are
`applyEvidence` line by line. The provider, the buyer and the notifications are
modelled from what `paypal-commerce.ts` reads of them (`remote`), and marked external.
Rank stands for `updatedAt` of a capture: the provider's later states have later times.
The service queues a `reconcile` job per window; the model has one, queued again when
the one before is done, so that two comparisons of one order overlap only after a
lease has run out.

| module | code | one action is | left out |
|---|---|---|---|
| **CollectionAccess** | `updateAccessContents`, `refreshCollection`, gifts of `service.ts` | a transaction | prices |
| **DiscordRoles** | `deliverDiscord` and the Discord client | a transaction or a call; the lock can lapse between them | other roles of the account |
| **CustomerClaims** | sign-in links, proven addresses, claims, erasure of `service.ts` | a transaction; the host's account is made between two | rate limits, mail |
| **CommerceDownloads** | `downloadAsset`, `buildPackage`, uploads under the storage lock | a read, a stream's start, a commit | bytes, signed URLs |
| **PayPalConnections** | connect, disconnect, verify of `paypal-connections.ts` | a step of vault, webhook or record | scopes of PayPal |
| **WebsiteHosting** | `WebsitePublishingService`, attempts, lock, outbox, pointer and gate, the worker that applies holds | a statement or a host call | rendering, bindings |
| **WebsiteEditing** | `WebsiteService.save`, `websiteRoutes`, `websiteHistoricalRedirects` | a save or a publication | contents of pages |
| **WebsiteBuilds** | `requestBuild`, `execute`, `invalidate`, a reader's artifact | a read or a compared save | markup |
| **SmugMugInventory**, **SmugMugTransfer** | `smugmug-migration.ts`, the local runner | a page's read, compare-and-swap or checkpoint | OAuth signatures |
| **FlickrInventory**, **FlickrTransfer** | `flickr-*.ts`, the local repository | a page; a port's answer; an unfenced save | metadata |
| **CollectionDestinations** | mapping, plan and execution | a port call or a receipt | labels |
| **PublicationCopies** | allocation, approval and transitions | a commit | presets |
| **CreatorSlugs** | `CreatorWorkService`, `CreatorCollectionService`, their store | a check or the write that checks again | covers, access |
| **WorkAssets** | attachments, order, primary asset, regeneration, `CreatorAssetWorker` | a service's read or commit | crops, bytes |
| **PublicWorks** | uploads, processing, `publish`, holds, public views of `server.ts` | a call of the store | search, feeds |
| **ContentTransfer** | `content-export.ts`, `content-restore.ts`, `memory-creator-content.ts` | one read of the export; a restore's transaction | checksums |
| **PortableImport** | `POST /v1/imports` | a checkpoint write or the transaction | record payloads |
| **FederationInbox** | `POST /v1/federation/inbox` | a call of the replay store or the references | signatures (verified or refused) |
| **ActivityWorkflows** | `ActivityWorkflows`, its commands and documents | a read, a port call or a compared commit | tokens, quiet hours |
| **Organizations** | the validators, and the commit their document asks for | a load or a commit | identifiers |
| **HistoricalPosts**, **HistoricalText** | `historical-posts.ts` | one part or one token | URL and credential filtering |
| **HistoricalImport** | `planHistoricalAnnouncementImport` | a load or a commit | wording |

Each module states its variables, the helper operators that stand for pure functions of
the code, its actions in the order of the handler, and then its type invariant and
properties with the prose that ties them to the code.

## Runs: what each one asks and why its bounds suffice

| run | question | bounds |
|---|---|---|
| `local_queue` | Do all interleavings of the statements of two processes keep the queue's promises, implement `JobLifecycle`, and settle every job? | 2 workers restricted to one type; two callers with the same key; 2 attempts, 1 recovery; a clock of 3 values that then slides |
| `dynamo_queue` | The same promises over stale pages and revisions, and progress while the jobs fit a page. | 2 workers, 1 key, 4 revisions, 1 recovery |
| `commerce` | Can answers applied late or out of order give access that was not paid for, undo what is known, or give back access that ended? | 2 workers, one checkout of 2 minor units, 1 named partial refund, 2 of the notifications in any order, an erasure |
| `commerce_live` | Without notifications, and with one crash, error or lapsed lease, does a payment still settle and a refund still end access? | 2 workers, 1 fault |
| `platform` | Do the parts of `MCPlatform` keep their promises (`PostgresSafe`, `MigrationSafe`, `HomeKeepsUp`, `WebsiteSafe`, `ImportSafe`, `AccessSafe`)? | in each INSTANCE: 2 concurrent actors, 1–3 records or writes, 1–2 faults; 1 or 2 leases for a deployment job, which is cancelled (counted as a fault) with one attempt |
| `platform_live` | With fair loops, do a migration, a held website, an inventory, an import and a role come to rest? | 1 publisher, 1 fault, 1 hold, 3 leases for a deployment job, a migration while the clock stands |
| `studio` | Do the parts of `MCStudio` keep theirs (`SyndicationSafe`, `LibrarySafe`, `PeopleSafe`, `SitesSafe`, `HistorySafe`)? | in each INSTANCE: 2 concurrent editors or workers, 1–3 records, 1–2 faults |
| `postgres_budget` | Is the attempt budget kept by PostgreSQL? **No.** | 2 workers, 4 leases in a behaviour, clock to 6 |
| `dynamo_starved` | Is a job beyond the first page ever leased? **No.** | a page of 1, 2 jobs |
| `migration_interrupted` | Does the home keep its content when an interrupted rollback meets a retirement? **No.** | 1 worker, 1 migration |
| `migration_again` | Does the home keep the last write through a second migration (`HomeKept`)? **No.** | 1 worker, 2 migrations, 3 writes |
| `website_lock` | Can a lock left by a dead publisher be resolved as the documentation says? **No.** | 2 publishers, 1 fault |

Why two actors: each of the races in the hazard list is between one slow actor and
one that overtakes it; a third would be a second copy of one of them. Why one or
two records: jobs, names, slots or pages interact only through equal keys and through the
choice of the next one, both of which two show; three plans are used where a transfer is
overtaken twice. Two attempts reach a budget by a crash, by a report and by both. A second
migration is what makes stale checkpoints and stale imports possible. Two minor units
separate none, part and all of a refund. Revisions, pages and messages are bounded by the
constants named `Max…`, each in the guard of the action that uses it up; the bounds of an
INSTANCE leave every promise it is asked about at least one way to fail, as its mutants
show. Where a component is large, several INSTANCEs give it different small constants
(the feed, digests, replies and inbox of ActivityWorkflows; `signIn` and `claims` of
CustomerClaims), so that each question gets the actors it is about.

The clock of `local_queue` and `dynamo_queue` does not stop: when it has reached its bound
a tick moves all timestamps into the past instead (`Slide`), which is sound because only
differences are compared and the window is longer than any lease. Symmetry is used in
`commerce`, `platform` and `studio` (workers or `Hands`), which check no liveness.
`commerce` turns faults off (`MaxFaults = 0`) and notifications on, `commerce_live` the
reverse: together they would exceed what TLC explores in minutes, and out-of-order
evidence does not need faults. Deadlock is not checked where bounds are spent and nothing
is left to do; the queues' runs do check it.

## Fairness

* **Poll loops poll.** `setInterval`/`while` loops call `lease()` for ever; a statement
  that may run is run (weak fairness), and a worker that crashes now and then gets
  past the same statement some day (strong fairness). No handler must succeed, no operator must act.
* **Time passes.**
* **The index catches up** (`dynamo_queue`): full pages are read again and again, which
  is what eventual consistency promises.
* **Commerce ticks** (`commerce_live`): every tick runs a due job, earliest first, and the
  schedule once a minute (`commerce-runtime/src/runtime.ts:160-184`), so every scheduled
  job that is due again and again is leased. Nothing is assumed of the buyer, the
  creator, the provider's notifications or the jobs they leave.
* **A migration command is repeated** (`platform_live`): SQS redelivers `resume`; a call
  that can succeed is made; a worker is interrupted finitely often.
* **Hosting, imports and roles** (`platform_live`): the outbox dispatches, a deployment job
  that is ready is leased, which after a lapse or a retry it is only until it had `MaxTries` leases
  (20 in the code, `server.ts:316`) or is cancelled; the worker scans for holds, an inventory's queued job
  and an import's `resume` are run again, and a delivery of a role is repeated until it
  converges; locks are obtained in the end (strong fairness). The administrators of a Discord
  server leave a role alone after some time. The owner of the website, the operators, the
  creator and the platform's side do nothing they need not do.

## Proofs

Seven modules prove theorems about their components for any sets of actors and records and any
value of the bounds; `SqlJobsProofs` holds the lemmas the three queues share. What is
assumed is only the named assumptions on the constants (the ASSUMEs of `SqlJobs`,
`LocalJobQueue`, `DynamoJobQueue` and `CommerceOrders`) and the hypotheses written in a
theorem, which are no more than what the constants stand for.

| module | theorem | says |
|---|---|---|
| LocalJobQueueProofs | `TypeCorrect` | the type invariant |
| | `LeaseKept`, `Fencing` | a live lease is honoured, and no two live leases are on one job |
| | `BoundedRetries` | attempts never exceed the budget (if `MaxPause < LeaseDuration`) |
| | `OneCompletion`, `EndsStand` | a job completes once; what ended stays ended |
| | `OneJobPerKey`, `Isolation` | one job per key and cell; a worker gets only jobs of its cell and types |
| | `Implements` | the queue implements `JobLifecycle` (if `MaxPause < LeaseDuration`) |
| DynamoJobQueueProofs | `TypeCorrect`, `LeaseKept`, `Fencing`, `OneCompletion`, `EndsStand`, `OneJobPerKey` | the same of stale pages and compared revisions |
| | `BoundedRetries` | the budget, with no assumption on pauses |
| PostgresJobQueueProofs | `TypeCorrect`, `LeaseKept`, `Fencing`, `OneCompletion`, `EndsStand`, `OneJobPerKey` | the same of the locking transaction; the budget is not kept (`postgres_budget`) |
| RegionalMigrationProofs | `TypeCorrect` | the type invariant |
| | `CheckpointsGoForward` | a checkpoint moves along its lifecycle, one write at a time |
| | `RouteMovesOnce` | the route moves only by a verified migration planned at its revision, or back by that migration's rollback |
| | `ContentAndHoldsKept` | with one migration at a time and one decision for each: the home has content, the source keeps its content and its hold while a rollback may need them |
| | `HomeHasLastWrite` | one migration of a creator who writes all the while: the home has the last acknowledged write, unless it was done under a hold, elsewhere, or at a destination that was opened and rolled back |
| CommerceOrdersProofs | `TypeCorrect` | the type invariant |
| | `PaidAccess` | no purchase without money taken in a capture that fits |
| | `RealRefunds` | the service counts no more refunds than were made |
| | `PaymentsGoForward` | a delayed answer undoes nothing that is known |
| | `RefundsEndAccess`, `RevokedStays` | a full refund or reversal leaves no access; revoked access is not given back |
| | `OrderForGood` | a checkout keeps its provider order |
| StudioProofs | `InboxTypeCorrect`, `SlugsTyped`, `OrganizationTyped`, `HostingTyped`, `ActivityTyped` | the type invariants |
| | `EnvelopesOnce` | an envelope changes its reference at most once |
| | `ActorsApart` | only by the actor whose reference it is |
| | `NoChangeLost` | no delivery overwrites another's change |
| | `SlugsLeadToOne` | no slug, present or former, leads to two records of a kind |
| | `SlugsKept` | no edit that states its revision takes a present or former name from its record |
| | `AnOwnerRemains` | an organization always has an active owner |
| | `PrivilegeComesFromOwners` | who becomes or ceases to be owner or administrator does so by an active owner's act |
| | `WhoJoinsIsInvited` | who joins has what the invitation says and no more |
| | `TransferredAtMostOnce` | one revision of a workspace is transferred at most once |
| | `OneCallSwitches` | one call at most is about to switch a site's pointer, and what is recorded as active has been live |
| | `SiteMovesForward` | a site never goes back, and a confirmed release stays confirmed |
| | `HeldContentDenied` | what a hold names stays denied once a scan has dealt with it |
| | `PagesBeforeCheckpoints`, `CheckpointsGoOn` | a checkpoint covers only what pages handed out, and is never taken back |
| | `DigestsOnce` | no visible event is dropped from the digests or sent in two |
| | `ProviderActsOnce` | the provider acts once on a reply or notification |
| | `MarksStay` | marks of a comment are not lost to one another |
| ContentProofs | `CopiesTyped`, `ImportsTyped`, `DestinationsTyped`, `AssetsTyped` | the type invariants |
| | `OneCopyOfASlot` | a slot has one copy, a request one answer |
| | `SentAtMostOnce` | an operation is sent once at most, a copy makes one object at most |
| | `OneOperationOpen` | a copy has one open operation, an object one copy |
| | `BindingKept` | a copy keeps its object, a settled operation its outcome |
| | `ImportedWhole` | an import makes all its records, for its creator, or none |
| | `ToldWhatIsThere` | who is told an import is done finds it done |
| | `ImportBoundToOne` | an import identifier keeps its creator and manifest; a late failure undoes no completion |
| | `MediaWhole` | a Work, its media, its primary asset and its content agree |
| | `ResultsKept` | no older job's result replaces a later one's, and who has lost the lease ends no job |
| | `StaleCallsStop` | a call whose plan is out of date sends one request more at most |
| | `NothingAskedTwice` | what the platform carried out and still shows is not asked for again |
| | `VerifiedMeansTrue` | a run is verified when the platform showed what the collection wants then |
| | `PlansHaveEvidence` | what takes something out, or claims agreement, rests on a complete and fresh listing |
| | `OnlyPlannedRemovals` | a call takes out only what its plan found and did not want |

**Queues.** *Fencing* is not inductive as it stands. `TokensFence` is added: tokens are drawn
once, no two workers hold the same one, and a leased row that carries a worker's token is
the row of its job, with the expiry it was told. From it, a settle that is fenced by
token cannot touch another worker's row, and a reclaim cannot touch a live one because
the timestamp it compares with is not later than the clock. For DynamoDB the argument
needs one part more: an item is written only if its revision is the one the page
showed, and an item with that revision *is* the one the page showed (pages are copies of
items that were, and every write raises the revision), so what `lease` decides on the
page holds of the item. For PostgreSQL the transaction's `NOW()` may be old, so that the lease it
grants may have run out already; the invariant speaks of live leases only, and a row that
is passed over is not changed.

*BoundedRetries* of SQLite needs to know why a row may be claimed: `BudgetInv` says that a
`retry_scheduled` row has an attempt left, a `queued` one has one counting recoveries, and
that between the first and the second statement of a `lease()` call every lease that
is expired *at that call's timestamp* has one as well. The last part fails without an
assumption: if the call were paused for a whole lease, a lease granted after its first
statement would have expired by its timestamp. The assumption `MaxPause < LeaseDuration`
states exactly that; SQLite's autocommit statements take milliseconds and leases
take minutes, but a suspended process can break it, and the queue then grants one
attempt too many. DynamoDB decides and writes under one revision, so its budget needs no
such assumption.

*Implements* is the refinement: the abstract holder is the row's token while it is
leased, the abstract budget is what `BudgetInv` bounds; each statement is matched with
`Lapse`, `Claim`, `Settle`, `Enqueue`, `Cancel`, `Recover` or a stutter.

**Migrations.** `MigrationAssumption` says that the first home is a cell, migrations are
numbers, the window is one, and "no checkpoint" is not a checkpoint. `CommandInv` is kept
by every command over every stale checkpoint: a checkpoint has been written `Rank[state]`
times and the route has moved as far as its state says (`CheckpointOK`); a worker's copy
is the stored one or an older one of the same migration (`Older`); its place in the
command fits its copy (`PlaceOK`), and the route it read is the current one or
an older one (`RouteOK`). Both action properties follow from one step. They need no care
of the operators: the compare-and-swaps alone carry them.

`ContentAndHoldsKept` does need care, as `migration_interrupted` shows. `CarefulInv` adds
that at most one migration is in play; where its route is, by its checkpoint and by how far
a worker got beyond it; which cells have content; that the source has its hold from the
first write to the release; and that migrations that were not requested have left no
trace. The decisive part is the route during a rollback: it may have returned already while
the checkpoint still says `cutover`, and only because a migration to be rolled back is
never retired is the source's content safe then.

`HomeHasLastWrite` is about the contents and not only their presence. It asks for one migration
(`OneMigration`; `migration_again` shows that a second one breaks it) and otherwise is a theorem of
`CarefulSpec`, with writes under way at any step. `HomeKept` excepts what the code does not keep: a
write that passed the guard before the source hold and was done under it, or was admitted by another
cell than the home (`strayed`), and the last write at a destination that operators opened and then
rolled back (`RolledBackOver`). `KeptInv` strengthens the careful argument by what each copy carries.
From the source hold until the destination is opened or the route is back, the home is `Frozen`: an
acknowledged write would be one under a hold. What was exported, whether it is still in a worker's
hand or already imported, is therefore the last acknowledged write (`CarriesCurrent`), and the
migration's own hold, which travels with it, keeps the destination from writes until an operator
releases it (`CurrentAt`). When the route moves, at the cutover or back, it moves to such a copy, or
back over the writes of an opened destination.

**Commerce.** The first four theorems rest on one observation: evidence may be old, but it was true when it was
fetched and *stays* true, because the provider's view of an order only grows
(`Grown`: a capture does not vanish, a refund is not taken back). `EvidenceInv` has four parts.
`RemoteInv`: the provider refunds at most what it took. `NoticeInv`: the job of a reversal
exists only once the reversal happened, and a worker's job stays queued; it is needed because
evidence of a reversal comes from the notification's name and not from the capture.
`SeenInv`: what a worker carries to `applyEvidence` is `Known`. `BeliefInv`: what the records say
of a payment is true at the provider, and their `updatedAt` is at least that of the status
they hold. The last part is what `PaymentsGoForward` turns on: of two answers neither of which
names a refund, the older one has the smaller `updatedAt` and is not taken.
`RefundsEndAccess` and `RevokedStays` need `AccessInv` only: a grant exists exactly when its
purchase does, so evidence that finds a revoked grant also finds a purchase and does
not buy again. Of the constants the module
assumes only that an amount is positive and that a refund's id is not the name of another
notification.

**Federation.** `InboxInv` ties requests to the replay store: an envelope that was consumed
is worked on by at most one request, and one that has changed its reference by none
(`OneWorker`); a revision names one version of a reference, and what a request is about to
write over is its own actor's (`Versioned`); and a reference has been changed as often as
envelopes about it were applied (`Counted`). `InboxAssumption` asks only that
`Nobody` is not a type of event and that the bounds are numbers.

**Slugs.** Every service looks a slug up before it writes, and the look-up is stale when the write
comes; `SlugsUnique` holds because the statement that writes looks again. That alone is inductive.
`AliasesKept` is not: what is written was computed from what was read. `SlugInv` adds that who
creates a record is alone with it, that a revision names one version of a record, so that what was
read in the revision that still stands *is* the record, and that while it stands the aliases to be
written include the record's (`ReadOK`). Updates of collections that do not state a
revision may overtake one another, and the property does not speak of them. `SlugAssumption` says that no Work is a collection and that updates
compare the status and the revision, if anything.

**Organizations.** `OrgInv` says of every client what it may still commit (`ChangeOK`,
`AcceptanceOK`) in terms of *what it has seen*, so that no step of others can disturb it; the
adapter's comparison then makes what was seen the present (`Committed`). The count of owners is
what `AnOwnerRemains` turns on: a change prepared when there were two owners is refused when the set it saw is
no longer the set there is. `WhoJoinsIsInvited` needs `GrantsFit`, that all grants are of
active ordinary members: who was not active has none left from an earlier membership. For
`TransferredAtMostOnce` a workspace's revision counts the transfers carried out
(`TransfersCounted`), so a committed plan's revision is always in the past. `OrgAssumption` says
that the founder is a user, workspaces are held by users or the organization, and there are finitely many plans.

**Websites.** `HostingInv` says of every call what its step allows (`CallOK`): about to switch, it
has a current copy of its attempt, the target's lock is on that attempt, and the attempt is newer
than what is live; what it is about to record as confirmed is live or was followed by a later one;
and it executes no release that was confirmed. Two calls may hold the same execution id, because a
reconciliation takes over the lock's; of the calls with a current copy of one attempt only one
executes (`OneExecutes`), since who claims the attempt makes every other copy stale and a
reconciliation never turns to executing. So `NoRival`: who may write the attempt has no rival about
to switch. An attempt that was confirmed or is live was started (`AttemptsOK`), which is why
only a call that claims a started attempt it read before the start (`reclaimed`) can break
the rest, and the theorems except that case, which the code admits. `HostingAssumption` says that
`Generations` is a number and that no publisher is called "none". How many leases a deployment
job is given does not matter to these theorems.

`HeldContentDenied` asks when a held subject `Leads` to the active release: the release shows it
already, or a call is on its way to record one that does (`Hot`). A current copy means that the
target's lock is the call's (`CurrentOwns`), so a scan that looks at the active attempt and at the
lock's sees every such call; and a call gets on its way only past a check of the holds
(`CallKept`). While the hold lasts nothing that did not lead to its subject can begin to
(`LeadsBefore`), and where something does the gate is closed and nobody is resuming (`Denied`):
a resume needs a free lock and an eligible active release, and while it has the gate's lock file no
scan can suspend. That the active release is what resume rechecks depends on `WholeOK`: what was
started has its files. The invariant showed that a hold placed again is to be told from one that was
lifted while a scan was under way, which the model did not do.

**Activity.** A page is handed out for a scope and a checkpoint, and may be acknowledged by any
process at any time later. `Covers` says of a sequence that all events of the scope up to it were
handed out; it holds of every page, of every checkpoint and of what every call carries, and it
stays true because new events only come behind (`MovesOn`). Pages are whole because the rows of a page
are all that match up to the last of them (`FirstRows`), and the end of a page is the greatest of
its rows, which exists because the numbers are well-founded (`GreatestOne`). The profile in a call's hands is
the stored one as long as its revision is the stored revision (`ProfileRead`), so a
committed acknowledgement raises the checkpoint that is stored. What a call gathered for a digest
(`Gathered`) are the events from its cursor to the next but for those that were out of sight, whatever
changed since; commits at the revision that was read make the intervals of the digests adjacent and
disjoint (`DigestsOK`). Of a message at most one caller is at the provider (`OneCaller`), and it finds
it as it left it, since a claim changes status and revision and only `not_sent`, which says that
nothing was done, leads back to `ready` (`MessageOK`). `ActivityAssumption` says that events are comments
or health events and that the bounds are numbers.

**Copies.** The claims of a slot and of a request are written once, so what a creation has read of
them is still so (`AllocatingOK`), and every answer is on record as its request's claim, which
is its slot's (`ClaimsFit`). Of the operations everything follows from the pace of a copy
(`Paced`): its revision is that of the operation last approved plus how far that one has come,
which its version tells. Two calls that read one revision therefore read the same, and the first
to commit makes the other's reading old (`CallsLeft`). An operation goes in flight by one commit,
whose caller alone is at the provider (`OneSender`) and has not called yet (`SendingOK`). That a
copy makes one object needs `Made`: a creation that may have made one is in play, two cannot
be, since an open one means that there is no object on record and a confirmed one that there
is; and a refusal, which takes a creation out of play, is carried by a call that made nothing
(`RefusedOK`). `CopiesAssumption` says that the placeholders are no copies or objects, that
there is a slot and a kind, and that the bounds are numbers.

**Imports.** A request that went as far as to start carries a version of its import's checkpoint, of its own
creator and manifest, and a revision names one version (`RequestOK`); so a write on condition
of the revision touches what the request has seen, in particular a checkpoint it saw running and never one
another request has completed since. Checkpoints only go on (`GoesOn`), and the records of
other imports stay as they are because a record is created only where there was none.
`ImportAssumption` asks that a manifest names a record and that 0, the mark of a record no
import made, identifies no import.

**Destinations.** `DestInv` says of a plan that, as long as the collection's revision is the plan's,
it wants what the collection wants (`PlanOK`); every edit and every new mapping raises the revision, so
a call that compares the two at its next step finds out. `ExecutorOK` says of a call that it runs a plan
that was made, that its one operation is one of the plan's, and that a call that sent a request after its plan
was out of date is on its way to its end and sends no other. `NothingAskedTwice` turns on
reconciliation: who has the lease looks at the gallery before each operation, and until its request nobody
else has an operation accepted under the lease, or it no longer is the holder. The history `accepted` therefore holds what was carried out *and is still
shown* (`Standing`): an operation that somebody undid there, or that another plan reversed, may be asked for again.
The invariant showed that it had to, which runs with a single plan did not. `DestAssumption`
says that no plan is 0, that the placeholder is no call, and that the bounds are numbers.

**Media.** `MediaConsistent` is inductive but for two things. Every commit is computed from the stored
Work under the revision that was read, except that the role of new media and the whole of a revised
Work come from what was read; `ServiceOK` says that what was read *is* the stored Work
while its revision is (`WorksMove`: a Work changes only at a new revision). And the primary one is named on the
Work and marked among its media, so the two must agree after every attachment, choice, order and
detachment (`Whole`), which for a detachment is an argument about sequences: what remains of
media that are attached once (`LeftOut`). The results need an order of jobs. A job that enters
comes after all others (`JobEnters`); an asset has its first job only, or its jobs are no later than the one
admitted last (`AssetOK`); and a result is of a completed job. A job that may store its result is
leased, so it is not the one whose result is there, and it is the one admitted last, so it came later:
an older job that an operator revives finds another one admitted. `AssetAssumption` says that
`NoAsset` is no asset and that the bounds are numbers.

**Only model-checked.** Liveness under fairness (`JobsSettle`, `PaymentSettles`,
`RefundArrives`, `Settles`), which the provers do not reach; and the type invariants and promises of
the sums, whose variables stand for a different component in every part. For the components
named above the parts of `PostgresSafe`, `MigrationSafe`, `WebsiteSafe`, `LibrarySafe`,
`PeopleSafe` and `SyndicationSafe`, and `HomeKeepsUp`, are theorems of the component's own specification.

## Where code and documentation differ

Five runs check a sentence of the documentation that the code does not keep; the
quotations are in `PROJECT.json`, "findings".

1. `postgres_budget`: PostgreSQL's `lease` gives back expired leases whatever attempt
   they are on, so a job that kills its worker is run for ever.
2. `dynamo_starved`: `lease` looks at the first hundred items of the index, settled jobs
   included; a queued job behind them is never offered.
3. `migration_interrupted`: a rollback stopped after the route returned leaves the checkpoint
   at `cutover`, and a later `retire` deletes the content of the cell the route names.
4. `migration_again`: an import leaves records the destination already has, so a second
   migration after a rollback brings back stale ones.
5. `website_lock`: a publisher that dies between announcing the activation and the pointer's
   move leaves a lock that `releaseRecoveryLock` refuses to release.

Met while modelling, and without a run of their own:

* A request that passed the write guard before the hold writes after it, even after
  the export (`server.ts:176`, against "source writes … must reject while held",
  `docs/aws-multi-cell-operator-runbook.md:58`). The model has the write, and `HomeKept` excepts it.
* While `import` or `retire` runs, a cell that is not the home has the creator's record and
  no hold, and accepts writes (`migration-cell.ts:43`, `:96`).
* The migration's own hold travels with the export while it is active, and nothing
  releases it at the destination: the new home stays read-only
  (`migration-cell.ts:65`). `platform_live` counts a migration complete at its cutover.
* A deployment job has 20 attempts (`server.ts:316`) and the outbox enqueues it once. A release that was
  switched to and never confirmed is reached by neither the active attempt nor the lock, so once
  its job is dead-lettered or cancelled it stays served under a hold, although the worker "applies policy
  gates to dependent local sites" (`docs/website-hosting.md:101`). `Settles` excepts it (`GivenUp`).
* A role given by hand between the read of the account and the transaction that follows
  (`service.ts:923`, `:924`), or while the service manages the role, is recorded as the service's and
  removed with the access (`:938`), against "retaining preexisting independent roles"
  (`packages/integrations/PAYPAL-CREATOR-PAYMENTS.md:228`). `AccessSafe` is about roles given before.
* An operator may cancel the job of an upload that is not ready (`server.ts:546`); `recover` refuses a
  cancelled job and nothing enqueues another, so the upload stays pending. `NotForgotten` excepts it.
* A worker stalled inside `retire` deletes the source even if the creator has moved back
  (`packages/deployment-platform/src/index.ts:216`); the runs that pass request the next
  migration only when no worker is at the last one.
* The write guard asks for the creator's first hundred holds (`server.ts:176`).
* SQLite's records are compared by `updatedAt` (`adapters/local/src/index.ts:455`): two writes
  within a millisecond are not told apart.
* A customer erased while an order is under way is given an active grant when its
  capture is applied afterwards (`service.ts:478`). `RevokedForGood` states what holds:
  access that the erasure took does not come back.
* A full refund of a payment older than `recentPaymentDays` is learnt from its
  notification only (`service.ts:767`).

## What is not modelled

Left out for good: rendering, HTTP routing and parsing, third-party payloads,
media subprocesses, manifests and their validation, deployment plans. They keep no state of
their own or do I/O only.

Abstracted inside the modelled parts: payloads and correlation fields of jobs;
`get` and `list`; an operator's `cancel` of a job in the modules other than the queues,
`PublicWorks` and `WebsiteHosting`; the cell registry, object inventories and checksums of a
migration (a transfer succeeds or the command fails); identifiers, rate limits and
audit records; what the table above names. Commerce is modelled for application checkouts:
subscriptions and the catalogue of external products are not.

Not modelled for lack of room: the usage and credit ledger (`packages/billing`), the
revisioned repositories and transaction coordinators as components of their own (their
guarantees appear as the atomic steps of the modules above), authentication and rate
limits, approvals of a workspace, publishing back to SmugMug, DeviantArt's posts,
moderation cases, and discovery and the outbox of federation. `PROJECT.json`,
"components", lists each with its reason.

## Plan

1. Theorems for the components that TLC alone checks so far: `WebsiteEditing`, `WebsiteBuilds`,
   `PublicWorks`, `ContentTransfer`, the inventories and transfers of SmugMug and Flickr, the
   historical posts, and the access side of commerce.
2. Models of the parts listed above as not modelled for lack of room, the ledger first.
