------------------------------ MODULE MCStudio ------------------------------
(***************************************************************************)
(* The creator's side of the system, put together as in MCPlatform: each   *)
(* behaviour is one of its components, named by `part'.                    *)
(***************************************************************************)
EXTENDS Naturals, FiniteSets, TLC

CONSTANTS Parts,          \* the components of this run
          Hands,          \* their concurrent callers
          none

VARIABLES part,
  v1, v2, v3, v4, v5, v6, v7, v8, v9, v10, v11, v12, v13, v14, v15

studioVars == <<part,
  v1, v2, v3, v4, v5, v6, v7, v8, v9, v10, v11, v12, v13, v14, v15>>

Mapped(authority, automatic, selected, exact) ==
  [authority |-> authority, automatic |-> automatic, reviewed |-> automatic,
   selected |-> selected, exact |-> exact, propagate |-> automatic]
Mappings == {Mapped("native", TRUE, {}, TRUE), Mapped("native", FALSE, {1}, FALSE), Mapped("platform", FALSE, {}, TRUE)}
FormOf(slug, state, parent) == [slug |-> slug, state |-> state, parent |-> parent]
TopForms == {FormOf(s, "ready", 0) : s \in {"a", "b", "c"}} \cup {FormOf("a", "draft", 0)}
SubForms == {FormOf(s, "ready", 0) : s \in {"a", "galleries"}}
            \cup {FormOf("b", s, p) : s \in {"ready", "archived"}, p \in {0, 1}}
OnePage == 1 :> FormOf("a", "ready", 0)
SubPage == OnePage @@ 2 :> FormOf("b", "ready", 1)
PartOf(t, i, u, w, p) == [type |-> t, id |-> i, url |-> u, words |-> w, picture |-> p]
TumblrParts == {PartOf("text", "none", "none", TRUE, FALSE), PartOf("text", "none", "none", FALSE, FALSE),
                PartOf("image", "x", "good", FALSE, FALSE), PartOf("image", "y", "bad", FALSE, FALSE),
                PartOf("player", "v", "none", FALSE, FALSE), PartOf("card", "x", "bad", FALSE, TRUE),
                PartOf("other", "o", "good", TRUE, FALSE)}
DiscordParts == {PartOf("text", "none", "none", TRUE, FALSE), PartOf("image", "x", "good", FALSE, FALSE),
                 PartOf("image", "y", "good", FALSE, FALSE), PartOf("card", "x", "good", TRUE, TRUE),
                 PartOf("card", "z", "bad", TRUE, FALSE)}
                \cup {PartOf(t, "none", "none", FALSE, FALSE) : t \in {"other", "component", "forward", "hidden"}}

\* the variables a component does not need
No15 == v15 = none
No14 == v14 = none /\ No15
No13 == v13 = none /\ No14
No12 == v12 = none /\ No13
No11 == v11 = none /\ No12
No10 == v10 = none /\ No11
No9 == v9 = none /\ No10
No8 == v8 = none /\ No9
No7 == v7 = none /\ No8
No6 == v6 = none /\ No7
No5 == v5 = none /\ No6
No4 == v4 = none /\ No5
No3 == v3 = none /\ No4
from15 == <<v15>>
from14 == <<v14, from15>>
from13 == <<v13, from14>>
from12 == <<v12, from13>>
from11 == <<v11, from12>>
from10 == <<v10, from11>>
from9 == <<v9, from10>>
from8 == <<v8, from9>>
from7 == <<v7, from8>>
from6 == <<v6, from7>>
from5 == <<v5, from6>>
from4 == <<v4, from5>>
from3 == <<v3, from4>>

Destinations == INSTANCE CollectionDestinations WITH
  Works <- {1}, Foreign <- {2}, Settings <- Mappings, Plans <- {1}, Executors <- Hands, NoExecutor <- none,
  ChangesAccess <- FALSE, Freshness <- 0, MaxRevision <- 1, MaxTime <- 1, MaxPortFaults <- 1,
  works <- v1, mapping <- v2, revision <- v3, connected <- v4, gallery <- v5, plans <- v6, runs <- v7,
  lease <- v8, executor <- v9, accepted <- v10, clock <- v11, portFaults <- v12

Allocation == INSTANCE PublicationCopies WITH
  Callers <- Hands, Slots <- {1, 2}, Creations <- {1, 2}, Configs <- {1}, Copies <- {1, 2}, NoCopy <- 0,
  Kinds <- {"CREATE"}, Remotes <- {1, 2}, NoRemote <- 0, MaxCopyRevision <- 5, MaxWorkRevision <- 1,
  MaxCopyFaults <- 1,
  work <- v1, publication <- v2, requestClaim <- v3, slotClaim <- v4, operation <- v5, remoteClaim <- v6,
  caller <- v7, objects <- v8, carried <- v9, answers <- v10, copyFaults <- v11

Delivery == INSTANCE PublicationCopies WITH
  Callers <- Hands, Slots <- {1}, Creations <- {1}, Configs <- {1}, Copies <- {1}, NoCopy <- 0,
  Kinds <- {"CREATE", "UPDATE", "REMOVE"}, Remotes <- {1, 2}, NoRemote <- 0, MaxCopyRevision <- 9,
  MaxWorkRevision <- 2, MaxCopyFaults <- 2,
  work <- v1, publication <- v2, requestClaim <- v3, slotClaim <- v4, operation <- v5, remoteClaim <- v6,
  caller <- v7, objects <- v8, carried <- v9, answers <- v10, copyFaults <- v11

WorkSlugs == INSTANCE CreatorSlugs WITH
  Works <- {1, 2}, Collections <- {}, Slugs <- {1, 2}, NoSlug <- 0, Editors <- Hands, Expectations <- {},
  MaxRecordRevision <- 3,
  record <- v1, editor <- v2

CollectionSlugs == INSTANCE CreatorSlugs WITH
  Works <- {}, Collections <- {1, 2}, Slugs <- {1, 2}, NoSlug <- 0, Editors <- Hands,
  Expectations <- {{}, {"revision"}}, MaxRecordRevision <- 1,
  record <- v1, editor <- v2

Editing == INSTANCE WorkAssets WITH
  LibraryWorks <- {1}, Assets <- {1, 2}, NoAsset <- 0, Clients <- Hands, Workers <- {}, Regenerations <- {}, MaxJobs <- 0,
  MaxAttempts <- 1, MaxCommits <- 5,
  workRecord <- v1, media <- v2, lead <- v3, asset <- v4, job <- v5, client <- v6, worker <- v7

Sharing == INSTANCE WorkAssets WITH
  LibraryWorks <- {1, 2}, Assets <- {1}, NoAsset <- 0, Clients <- Hands, Workers <- {}, Regenerations <- {}, MaxJobs <- 0,
  MaxAttempts <- 1, MaxCommits <- 3,
  workRecord <- v1, media <- v2, lead <- v3, asset <- v4, job <- v5, client <- v6, worker <- v7

Processing == INSTANCE WorkAssets WITH
  LibraryWorks <- {1}, Assets <- {1}, NoAsset <- 0, Clients <- {1}, Workers <- Hands, Regenerations <- {"again"},
  MaxJobs <- 2, MaxAttempts <- 2, MaxCommits <- 4,
  workRecord <- v1, media <- v2, lead <- v3, asset <- v4, job <- v5, client <- v6, worker <- v7

Feed == INSTANCE ActivityWorkflows WITH
  Creators <- {1, 2}, Callers <- Hands, Kinds <- {"comment"}, Offered <- {"activity", "acknowledge"},
  PageSize <- 1, Batches <- 2, NoteSize <- 1, Minimums <- {1}, MaxEvents <- 2, MaxPages <- 2, MaxMessages <- 0,
  MaxProfileRevision <- 2, MaxRetries <- 0, MaxChanges <- 1,
  event <- v1, world <- v2, profile <- v3, mark <- v4, page <- v5, message <- v6, handed <- v7, passed <- v8,
  reached <- v9, caller <- v10

Digests == INSTANCE ActivityWorkflows WITH
  Creators <- {1}, Callers <- Hands, Kinds <- {"comment"}, Offered <- {"select", "prefer", "prepare", "hide"},
  PageSize <- 1, Batches <- 3, NoteSize <- 2, Minimums <- {2}, MaxEvents <- 3, MaxPages <- 0, MaxMessages <- 2,
  MaxProfileRevision <- 3, MaxRetries <- 0, MaxChanges <- 1,
  event <- v1, world <- v2, profile <- v3, mark <- v4, page <- v5, message <- v6, handed <- v7, passed <- v8,
  reached <- v9, caller <- v10

Replies == INSTANCE ActivityWorkflows WITH
  Creators <- {1}, Callers <- Hands, Kinds <- {"comment", "health"},
  Offered <- {"prefer", "prepare", "reply", "deliver"}, PageSize <- 1, Batches <- 2, NoteSize <- 1,
  Minimums <- {1}, MaxEvents <- 1, MaxPages <- 0, MaxMessages <- 1, MaxProfileRevision <- 2, MaxRetries <- 1,
  MaxChanges <- 1,
  event <- v1, world <- v2, profile <- v3, mark <- v4, page <- v5, message <- v6, handed <- v7, passed <- v8,
  reached <- v9, caller <- v10

Inbox == INSTANCE ActivityWorkflows WITH
  Creators <- {1}, Callers <- Hands, Kinds <- {"comment"}, Offered <- {"read", "resolve", "reopen", "hide"},
  PageSize <- 1, Batches <- 1, NoteSize <- 1, Minimums <- {1}, MaxEvents <- 1, MaxPages <- 0, MaxMessages <- 0,
  MaxProfileRevision <- 3, MaxRetries <- 0, MaxChanges <- 1,
  event <- v1, world <- v2, profile <- v3, mark <- v4, page <- v5, message <- v6, handed <- v7, passed <- v8,
  reached <- v9, caller <- v10

Owners == INSTANCE Organizations WITH
  Users <- {1, 2}, TheOrganization <- 0, Founder <- 1, Holders <- {0}, Workspaces <- {1}, Invitations <- {1},
  Plans <- {}, Clients <- Hands, InvitedRoles <- {"administrator"}, GrantRoles <- {}, MaxMemberRevision <- 3,
  MaxOrganizationRevision <- 1,
  organization <- v1, member <- v2, owner <- v3, grant <- v4, invitation <- v5, plan <- v6, client <- v7

Joining == INSTANCE Organizations WITH
  Users <- {1, 2}, TheOrganization <- 0, Founder <- 1, Holders <- {0}, Workspaces <- {1}, Invitations <- {1, 2},
  Plans <- {}, Clients <- {1}, InvitedRoles <- {"member"}, GrantRoles <- {"viewer"}, MaxMemberRevision <- 3,
  MaxOrganizationRevision <- 1,
  organization <- v1, member <- v2, owner <- v3, grant <- v4, invitation <- v5, plan <- v6, client <- v7

Transfers == INSTANCE Organizations WITH
  Users <- {1}, TheOrganization <- 0, Founder <- 1, Holders <- {1}, Workspaces <- {1, 2}, Invitations <- {},
  Plans <- {1, 2, 3}, Clients <- {}, InvitedRoles <- {}, GrantRoles <- {}, MaxMemberRevision <- 1,
  MaxOrganizationRevision <- 3,
  organization <- v1, member <- v2, owner <- v3, grant <- v4, invitation <- v5, plan <- v6, client <- v7

Addresses == INSTANCE WebsiteEditing WITH
  Editors <- {1}, Pages <- {1, 2}, NoPage <- 0, Forms <- TopForms, FirstPages <- OnePage, TypedFrom <- {<<"d">>},
  MaxSiteRevision <- 4, MaxReleases <- 2,
  site <- v1, draft <- v2, captured <- v3, published <- v4, owed <- v5, typed <- v6, seen <- v7

Nesting == INSTANCE WebsiteEditing WITH
  Editors <- Hands, Pages <- {1, 2}, NoPage <- 0, Forms <- SubForms, FirstPages <- SubPage, TypedFrom <- {},
  MaxSiteRevision <- 3, MaxReleases <- 1,
  site <- v1, draft <- v2, captured <- v3, published <- v4, owed <- v5, typed <- v6, seen <- v7

Asking == INSTANCE WebsiteBuilds WITH
  Keys <- {1, 2}, Clients <- Hands, Readers <- {}, Workers <- {}, MaxAttempts <- 1, MaxSite <- 2,
  MaxWithdrawals <- 1,
  site <- v1, source <- v2, swept <- v3, build <- v4, job <- v5, artifacts <- v6, client <- v7, reader <- v8,
  worker <- v9, sweeper <- v10, withdrawals <- v11

Building == INSTANCE WebsiteBuilds WITH
  Keys <- {1}, Clients <- {1}, Readers <- {}, Workers <- Hands, MaxAttempts <- 2, MaxSite <- 1,
  MaxWithdrawals <- 1,
  site <- v1, source <- v2, swept <- v3, build <- v4, job <- v5, artifacts <- v6, client <- v7, reader <- v8,
  worker <- v9, sweeper <- v10, withdrawals <- v11

Serving == INSTANCE WebsiteBuilds WITH
  Keys <- {1}, Clients <- {1}, Readers <- {1}, Workers <- {1}, MaxAttempts <- 1, MaxSite <- 2, MaxWithdrawals <- 1,
  site <- v1, source <- v2, swept <- v3, build <- v4, job <- v5, artifacts <- v6, client <- v7, reader <- v8,
  worker <- v9, sweeper <- v10, withdrawals <- v11

TumblrPosts == INSTANCE HistoricalPosts WITH
  Provider <- "tumblr", Parts <- TumblrParts, TrailLengths <- {0, 1}, Rows <- {<<1, 0>>, <<0, 2>>},
  MaxParts <- 4, Limit <- 3, AttachmentLimit <- 2,
  source <- v1, blocks <- v2, attachments <- v3, links <- v4, reasons <- v5, mapped <- v6, result <- v7

DiscordPosts == INSTANCE HistoricalPosts WITH
  Provider <- "discord", Parts <- DiscordParts, TrailLengths <- {0}, Rows <- {<<>>}, MaxParts <- 5, Limit <- 6,
  AttachmentLimit <- 1,
  source <- v1, blocks <- v2, attachments <- v3, links <- v4, reasons <- v5, mapped <- v6, result <- v7

Formatting == INSTANCE HistoricalText WITH
  Tags <- {"b", "i"}, Sizes <- {<<3, 1>>, <<1, 2>>}, MaxTokens <- 5,
  tokens <- v1, text <- v2, open <- v3, spans <- v4, result <- v5

Planning == INSTANCE HistoricalImport WITH
  Posts <- {1}, Importers <- {1}, Choices <- {{}, {"restore"}}, Kinds <- {"original", "reply"},
  Accesses <- {"full", "unavailable"}, MaxVersion <- 2, MaxConnections <- 1, MaxAnnouncements <- 2,
  posts <- v1, connection <- v2, associations <- v3, announcements <- v4, publications <- v5, excluded <- v6,
  jobs <- v7

Overlapping == INSTANCE HistoricalImport WITH
  Posts <- {1}, Importers <- Hands, Choices <- {{"restore"}}, Kinds <- {"original"}, Accesses <- {"full"},
  MaxVersion <- 2, MaxConnections <- 1, MaxAnnouncements <- 2,
  posts <- v1, connection <- v2, associations <- v3, announcements <- v4, publications <- v5, excluded <- v6,
  jobs <- v7

Reconnecting == INSTANCE HistoricalImport WITH
  Posts <- {1}, Importers <- Hands, Choices <- {{}}, Kinds <- {"original"}, Accesses <- {"full"},
  MaxVersion <- 1, MaxConnections <- 2, MaxAnnouncements <- 2,
  posts <- v1, connection <- v2, associations <- v3, announcements <- v4, publications <- v5, excluded <- v6,
  jobs <- v7

Uploads == INSTANCE PublicWorks WITH
  Assets <- {"file"}, Workers <- Hands, Publishers <- {}, Viewers <- {}, Keys <- {}, Places <- {}, NoOne <- none,
  MaxAttempts <- 2, MaxRecoveries <- 1, MaxHolds <- 0, MaxPublishes <- 0, MaxFaults <- 1,
  assets <- v1, jobs <- v2, workers <- v3, renditions <- v4, usage <- v5, work <- v6, intents <- v7,
  publications <- v8, publishers <- v9, viewers <- v10, holds <- v11, placed <- v12, asked <- v13,
  recovered <- v14, faults <- v15

Showing == INSTANCE PublicWorks WITH
  Assets <- {"file", "other"}, Workers <- {1}, Publishers <- Hands, Viewers <- {1}, Keys <- {1},
  Places <- {"here", "there"}, NoOne <- none, MaxAttempts <- 1, MaxRecoveries <- 0, MaxHolds <- 1,
  MaxPublishes <- 2, MaxFaults <- 0,
  assets <- v1, jobs <- v2, workers <- v3, renditions <- v4, usage <- v5, work <- v6, intents <- v7,
  publications <- v8, publishers <- v9, viewers <- v10, holds <- v11, placed <- v12, asked <- v13,
  recovered <- v14, faults <- v15

Exporting == INSTANCE ContentTransfer WITH
  Works <- {1, 2}, Assets <- {1, 2}, Shelves <- {"shelf"}, Restorers <- {}, RestoreIds <- {}, NoAsset <- none,
  Whole <- TRUE, MaxEdits <- 2, MaxExports <- 1, MaxLater <- 0, MaxLost <- 0,
  source <- v1, version <- v2, reading <- v3, exports <- v4, restorers <- v5, target <- v6, restored <- v7,
  edits <- v8, later <- v9, lost <- v10

Restoring == INSTANCE ContentTransfer WITH
  Works <- {1, 2}, Assets <- {1}, Shelves <- {"shelf"}, Restorers <- Hands, RestoreIds <- {1, 2},
  NoAsset <- none, Whole <- FALSE, MaxEdits <- 1, MaxExports <- 1, MaxLater <- 1, MaxLost <- 1,
  source <- v1, version <- v2, reading <- v3, exports <- v4, restorers <- v5, target <- v6, restored <- v7,
  edits <- v8, later <- v9, lost <- v10

Importing == INSTANCE PortableImport WITH
  Records <- {1, 2}, Manifests <- {{1, 2}, {2}}, Creators <- {"a", "b"}, Imports <- {1}, Requests <- Hands,
  Nobody <- none, MaxAsked <- 3, MaxTrouble <- 1,
  records <- v1, checkpoints <- v2, requests <- v3, asked <- v4, trouble <- v5

Colliding == INSTANCE PortableImport WITH
  Records <- {1, 2}, Manifests <- {{1, 2}}, Creators <- {"a", "b"}, Imports <- {1, 2}, Requests <- Hands,
  Nobody <- none, MaxAsked <- 3, MaxTrouble <- 1,
  records <- v1, checkpoints <- v2, requests <- v3, asked <- v4, trouble <- v5

Federation == INSTANCE FederationInbox WITH
  Actors <- {"a", "b"}, Publications <- {"p"}, Envelopes <- {"1", "2"}, Requests <- Hands, Nobody <- none,
  MaxArrivals <- 3, MaxTrouble <- 1,
  sent <- v1, expired <- v2, consumed <- v3, actors <- v4, references <- v5, requests <- v6, applied <- v7,
  arrivals <- v8, trouble <- v9

Init ==
  /\ part \in Parts
  /\ \/ part = "destinations" /\ Destinations!DestInit /\ No13
     \/ part = "copies" /\ Allocation!CopyInit /\ No12
     \/ part = "delivery" /\ Delivery!CopyInit /\ No12
     \/ part = "workSlugs" /\ WorkSlugs!SlugInit /\ No3
     \/ part = "collectionSlugs" /\ CollectionSlugs!SlugInit /\ No3
     \/ part = "editing" /\ Editing!AssetInit /\ No8
     \/ part = "sharing" /\ Sharing!AssetInit /\ No8
     \/ part = "processing" /\ Processing!AssetInit /\ No8
     \/ part = "feed" /\ Feed!ActivityInit /\ No11
     \/ part = "digests" /\ Digests!ActivityInit /\ No11
     \/ part = "replies" /\ Replies!ActivityInit /\ No11
     \/ part = "inbox" /\ Inbox!ActivityInit /\ No11
     \/ part = "owners" /\ Owners!OrgInit /\ No8
     \/ part = "joining" /\ Joining!OrgInit /\ No8
     \/ part = "transfers" /\ Transfers!OrgInit /\ No8
     \/ part = "addresses" /\ Addresses!SiteInit /\ No8
     \/ part = "nesting" /\ Nesting!SiteInit /\ No8
     \/ part = "asking" /\ Asking!BuildInit /\ No12
     \/ part = "building" /\ Building!BuildInit /\ No12
     \/ part = "serving" /\ Serving!BuildInit /\ No12
     \/ part = "tumblr" /\ TumblrPosts!PostInit /\ No8
     \/ part = "discord" /\ DiscordPosts!PostInit /\ No8
     \/ part = "formatting" /\ Formatting!TextInit /\ No6
     \/ part = "planning" /\ Planning!ImportInit /\ No8
     \/ part = "overlapping" /\ Overlapping!ImportInit /\ No8
     \/ part = "reconnecting" /\ Reconnecting!ImportInit /\ No8
     \/ part = "uploads" /\ Uploads!PublicInit
     \/ part = "showing" /\ Showing!PublicInit
     \/ part = "exporting" /\ Exporting!TransferInit /\ No11
     \/ part = "restoring" /\ Restoring!TransferInit /\ No11
     \/ part = "importing" /\ Importing!ImportInit /\ No6
     \/ part = "colliding" /\ Colliding!ImportInit /\ No6
     \/ part = "federation" /\ Federation!InboxInit /\ No10

Next ==
  \/ part = "destinations" /\ Destinations!DestNext /\ UNCHANGED <<part, from13>>
  \/ part = "copies" /\ Allocation!CopyNext /\ UNCHANGED <<part, from12>>
  \/ part = "delivery" /\ Delivery!CopyNext /\ UNCHANGED <<part, from12>>
  \/ part = "workSlugs" /\ WorkSlugs!SlugNext /\ UNCHANGED <<part, from3>>
  \/ part = "collectionSlugs" /\ CollectionSlugs!SlugNext /\ UNCHANGED <<part, from3>>
  \/ part = "editing" /\ Editing!AssetNext /\ UNCHANGED <<part, from8>>
  \/ part = "sharing" /\ Sharing!AssetNext /\ UNCHANGED <<part, from8>>
  \/ part = "processing" /\ Processing!AssetNext /\ UNCHANGED <<part, from8>>
  \/ part = "feed" /\ Feed!ActivityNext /\ UNCHANGED <<part, from11>>
  \/ part = "digests" /\ Digests!ActivityNext /\ UNCHANGED <<part, from11>>
  \/ part = "replies" /\ Replies!ActivityNext /\ UNCHANGED <<part, from11>>
  \/ part = "inbox" /\ Inbox!ActivityNext /\ UNCHANGED <<part, from11>>
  \/ part = "owners" /\ Owners!OrgNext /\ UNCHANGED <<part, from8>>
  \/ part = "joining" /\ Joining!OrgNext /\ UNCHANGED <<part, from8>>
  \/ part = "transfers" /\ Transfers!OrgNext /\ UNCHANGED <<part, from8>>
  \/ part = "addresses" /\ Addresses!SiteNext /\ UNCHANGED <<part, from8>>
  \/ part = "nesting" /\ Nesting!SiteNext /\ UNCHANGED <<part, from8>>
  \/ part = "asking" /\ Asking!BuildNext /\ UNCHANGED <<part, from12>>
  \/ part = "building" /\ Building!BuildNext /\ UNCHANGED <<part, from12>>
  \/ part = "serving" /\ Serving!BuildNext /\ UNCHANGED <<part, from12>>
  \/ part = "tumblr" /\ TumblrPosts!PostNext /\ UNCHANGED <<part, from8>>
  \/ part = "discord" /\ DiscordPosts!PostNext /\ UNCHANGED <<part, from8>>
  \/ part = "formatting" /\ Formatting!TextNext /\ UNCHANGED <<part, from6>>
  \/ part = "planning" /\ Planning!ImportNext /\ UNCHANGED <<part, from8>>
  \/ part = "overlapping" /\ Overlapping!ImportNext /\ UNCHANGED <<part, from8>>
  \/ part = "reconnecting" /\ Reconnecting!ImportNext /\ UNCHANGED <<part, from8>>
  \/ part = "uploads" /\ Uploads!PublicNext /\ UNCHANGED part
  \/ part = "showing" /\ Showing!PublicNext /\ UNCHANGED part
  \/ part = "exporting" /\ Exporting!TransferNext /\ UNCHANGED <<part, from11>>
  \/ part = "restoring" /\ Restoring!TransferNext /\ UNCHANGED <<part, from11>>
  \/ part = "importing" /\ Importing!ImportNext /\ UNCHANGED <<part, from6>>
  \/ part = "colliding" /\ Colliding!ImportNext /\ UNCHANGED <<part, from6>>
  \/ part = "federation" /\ Federation!InboxNext /\ UNCHANGED <<part, from10>>

Spec == Init /\ [][Next]_studioVars

Alike == Permutations(Hands)

-----------------------------------------------------------------------------
(* Properties: each is a promise of its components, from their modules.     *)

TypeOK ==
  CASE part = "destinations" -> Destinations!DestTypeOK
    [] part = "copies" -> Allocation!CopyTypeOK
    [] part = "delivery" -> Delivery!CopyTypeOK
    [] part = "workSlugs" -> WorkSlugs!SlugTypeOK
    [] part = "collectionSlugs" -> CollectionSlugs!SlugTypeOK
    [] part = "editing" -> Editing!AssetTypeOK
    [] part = "sharing" -> Sharing!AssetTypeOK
    [] part = "processing" -> Processing!AssetTypeOK
    [] part = "feed" -> Feed!ActivityTypeOK
    [] part = "digests" -> Digests!ActivityTypeOK
    [] part = "replies" -> Replies!ActivityTypeOK
    [] part = "inbox" -> Inbox!ActivityTypeOK
    [] part = "owners" -> Owners!OrgTypeOK
    [] part = "joining" -> Joining!OrgTypeOK
    [] part = "transfers" -> Transfers!OrgTypeOK
    [] part = "addresses" -> Addresses!SiteTypeOK
    [] part = "nesting" -> Nesting!SiteTypeOK
    [] part = "asking" -> Asking!BuildTypeOK
    [] part = "building" -> Building!BuildTypeOK
    [] part = "serving" -> Serving!BuildTypeOK
    [] part = "tumblr" -> TumblrPosts!PostTypeOK
    [] part = "discord" -> DiscordPosts!PostTypeOK
    [] part = "formatting" -> Formatting!TextTypeOK
    [] part = "planning" -> Planning!ImportTypeOK
    [] part = "overlapping" -> Overlapping!ImportTypeOK
    [] part = "reconnecting" -> Reconnecting!ImportTypeOK
    [] part = "uploads" -> Uploads!PublicTypeOK
    [] part = "showing" -> Showing!PublicTypeOK
    [] part = "exporting" -> Exporting!TransferTypeOK
    [] part = "restoring" -> Restoring!TransferTypeOK
    [] part = "importing" -> Importing!ImportTypeOK
    [] part = "colliding" -> Colliding!ImportTypeOK
    [] part = "federation" -> Federation!InboxTypeOK

\* A gallery elsewhere that follows a collection: plans rest on complete and fresh
\* evidence, a call stops when its plan is stale, asks nothing twice and records success
\* only for what the platform shows (executeCollectionDestinationPlan).  A copy of a Work
\* published elsewhere has its slot to itself, is sent at most once for an approved
\* operation and keeps the object it made (createPublicationCopy, transition).
SyndicationSafe ==
  /\ [](part = "destinations" => Destinations!StopsWhenStale /\ Destinations!NotRepeated)
  /\ [][part = "destinations" => Destinations!VerifiedIsTrue /\ Destinations!PlansOnEvidence /\ Destinations!RemovesKnown]_studioVars
  /\ [](part = "copies" => Allocation!AnswersAgree /\ Allocation!SentOnce /\ Allocation!OneOpen)
  /\ [](part = "delivery" => Delivery!SentOnce /\ Delivery!OneOpen)
  /\ [][part = "delivery" => Delivery!KeepsBinding]_studioVars

\* A creator's library under concurrent editors: no two live records share a present or
\* former name and none loses a former one (creator-works.ts, creator-collections.ts).  A
\* Work's content, media and primary asset agree, and processing stores what the newest
\* admitted job made, once (creator-assets.ts, creator-asset-worker.ts).  In the reference API
\* an upload is not forgotten unless its job is cancelled, and a Work published once and not
\* shown while it is held (server.ts).  What leaves for another library arrives there whole,
\* in order and once (content-export.ts, memory-creator-content.ts); an import through the API is whole or not
\* there, and an envelope of another instance changes its own reference once (server.ts).
LibrarySafe ==
  /\ [](part = "workSlugs" => WorkSlugs!SlugsUnique)
  /\ [][part = "workSlugs" => WorkSlugs!AliasesKept]_studioVars
  /\ [](part = "collectionSlugs" => CollectionSlugs!SlugsUnique)
  /\ [][part = "collectionSlugs" => CollectionSlugs!AliasesKept]_studioVars
  /\ [](part = "editing" => Editing!MediaConsistent)
  /\ [](part = "sharing" => Sharing!MediaConsistent)
  /\ [](part = "processing" => Processing!MediaConsistent)
  /\ [][part = "processing" => Processing!ResultsFenced /\ Processing!OnlyHolderEnds]_studioVars
  /\ [](part = "uploads" => Uploads!NotForgotten)
  /\ [][part = "uploads" => Uploads!RenditionKept]_studioVars
  /\ [](part = "showing" => Showing!KeyPublishesOnce /\ Showing!HeldNotShown)
  /\ [](part = "exporting" => Exporting!QuietExportsParse)
  /\ [](part = "restoring" => Restoring!RestoredClosed /\ Restoring!RestoredWhole /\ Restoring!DoneNotRefused)
  /\ [][part = "restoring" => Restoring!OnlyOnce]_studioVars
  /\ [](part = "importing" => Importing!WholeOrNothing /\ Importing!ToldTrue)
  /\ [][part = "importing" => Importing!BoundToOne]_studioVars
  /\ [](part = "colliding" => Colliding!WholeOrNothing /\ Colliding!ToldTrue)
  /\ [][part = "colliding" => Colliding!BoundToOne]_studioVars
  /\ [](part = "federation" => Federation!AppliedOnce /\ Federation!OnlyItsActor /\ Federation!NoneOverwritten)

\* Those who follow a creator's activity from chat miss nothing, get nothing twice and
\* answer once, whatever sessions and schedulers overlap (activity-workflows.ts).  An
\* organization keeps an owner, and its privileges and workspaces pass only by those who may
\* give them (organizations.ts).
PeopleSafe ==
  /\ [](part = "feed" => Feed!CheckpointsHonest)
  /\ [][part = "feed" => Feed!CheckpointsForward]_studioVars
  /\ [](part = "digests" => Digests!DigestsExact)
  /\ [](part = "replies" => Replies!ActsOnce)
  /\ [][part = "inbox" => Inbox!MarksKept]_studioVars
  /\ [](part = "owners" => Owners!OwnerRemains)
  /\ [][part = "owners" => Owners!PrivilegeFromOwners]_studioVars
  /\ [][part = "joining" => Joining!JoinsAsInvited]_studioVars
  /\ [](part = "transfers" => Transfers!TransferredOnce)

\* A website keeps the addresses it had in public through renames and retired releases, and
\* its history never blocks a save (website-redirect-history.ts).  Its builds end once, with
\* their bytes stored, and what is withdrawn while one runs or is read is neither left ready
\* nor delivered (website-service.ts).
SitesSafe ==
  /\ [](part = "addresses" => Addresses!PublishedPathsKept /\ Addresses!HistoryNeverBlocks /\ Addresses!DraftsLeaveNoTrace)
  /\ [](part = "nesting" => Nesting!PublishedPathsKept /\ Nesting!HistoryNeverBlocks)
  /\ [](part = "asking" => Asking!AnswersMatch)
  /\ [](part = "building" => Building!WithdrawnStaysOut /\ Building!ReadyIsStored)
  /\ [][part = "building" => Building!EndsOnce]_studioVars
  /\ [](part = "serving" => Serving!HeldNotDelivered /\ Serving!WithdrawnStaysOut)

\* Old posts brought in from elsewhere keep their parts, order and formatting, and are called
\* whole only when they are (historical-posts.ts).  However imports and edits overlap, a post
\* has one announcement, which follows its post until the creator makes it their own
\* (historical-announcements.ts).
HistorySafe ==
  /\ [](part = "tumblr" => TumblrPosts!RowsKeepTheirParts /\ TumblrPosts!SnapshotValid /\ TumblrPosts!FullMeansWhole)
  /\ [](part = "discord" => DiscordPosts!SnapshotValid /\ DiscordPosts!FullMeansWhole)
  /\ [](part = "formatting" => Formatting!FormattingFollows /\ Formatting!SpansFit)
  /\ [](part = "planning" => Planning!OneEach /\ Planning!ShowsObserved)
  /\ [][part = "planning" => Planning!OwnContentKept /\ Planning!ReviewsAreReal /\ Planning!TrackedElsewhere]_studioVars
  /\ [](part = "overlapping" => Overlapping!OneEach /\ Overlapping!ShowsObserved)
  /\ [][part = "overlapping" => Overlapping!OwnContentKept /\ Overlapping!ReviewsAreReal /\ Overlapping!TrackedElsewhere]_studioVars
  /\ [](part = "reconnecting" => Reconnecting!OneEach /\ Reconnecting!ShowsObserved)
  /\ [][part = "reconnecting" => Reconnecting!OwnContentKept /\ Reconnecting!ReviewsAreReal /\ Reconnecting!TrackedElsewhere]_studioVars
=============================================================================
