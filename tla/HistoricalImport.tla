--------------------------- MODULE HistoricalImport ---------------------------
(***************************************************************************)
(* Importing a creator's old posts as private historical announcements     *)
(* (planHistoricalAnnouncementImport).  The plan is a pure function of what *)
(* an importer observed and loaded; the host stores associations under     *)
(* importedSourceKey, once each, and commits a plan only over the state it  *)
(* was made from (docs/integration-import-history.md).                      *)
(***************************************************************************)
EXTENDS Naturals, Sequences, FiniteSets, Functions

CONSTANTS Posts,        \* remote posts
          Importers,    \* import jobs that overlap
          Choices,      \* what an import may be told: subsets of {"restore", "replies", "attributed", "metadata"}
          Kinds,        \* attributions a post may have
          Accesses,     \* what of a post may be seen: subset of Completeness
          MaxVersion,   \* how often a post's body is edited
          MaxConnections,
          MaxAnnouncements

VARIABLES posts,        \* each remote post: [kind, body, likes, state]
          connection,   \* reconnecting gives another connection
          associations, \* source key -> [id, observed]
          announcements, \* id -> [origin, content, edited, review]
          publications, \* posts known to be a Work's or a Collection's publication
          excluded,     \* keys the creator does not want imported
          jobs          \* each importer's observation and what it loaded

importVars == <<posts, connection, associations, announcements, publications, excluded, jobs>>

Origins == {"external_import", "local"}
Completeness == {"full", "metadata_only", "unavailable"}
Absent == [id |-> 0]
NoJob == [phase |-> "idle"]

\* importedSourceKey: tenant, owner, provider, containers and remote id, not the connection.
SourceKey_OfConnection(post, through) == [post |-> post, connection |-> through]
SourceKey(post, through) == [post |-> post]
\* The normalised post: engagement stays in sourceData, archiving is a local outcome.
Snapshot(post) == [post |-> post, body |-> posts[post].body, likes |-> posts[post].likes, archive |-> "not_requested"]
\* historicalSourceContentHash: without engagement, archiving or connection.
ContentHash_WithEngagement(snapshot, state) == <<snapshot.post, snapshot.body, snapshot.likes, state>>
ContentHash(snapshot, state) == <<snapshot.post, snapshot.body, state>>

ImportInit ==
  /\ posts \in [Posts -> [kind : Kinds, body : {1}, likes : {0}, state : {"full"}]]
  /\ connection = 1 /\ associations = <<>> /\ announcements = <<>> /\ publications = {} /\ excluded = {}
  /\ jobs = [i \in Importers |-> NoJob]

-----------------------------------------------------------------------------
(* The remote side and the connection (external).                           *)

RemoteStays == UNCHANGED <<posts, connection>>
LocalStays == UNCHANGED <<associations, announcements, publications, excluded>>
EditPost(p) ==
  /\ posts[p].body < MaxVersion /\ posts' = [posts EXCEPT ![p].body = @ + 1]
  /\ UNCHANGED <<connection, jobs>> /\ LocalStays
LikePost(p) ==
  /\ posts[p].likes = 0 /\ posts' = [posts EXCEPT ![p].likes = 1]
  /\ UNCHANGED <<connection, jobs>> /\ LocalStays
\* A post loses its body or access to it, or has it again.
ChangeAccess(p, state) ==
  /\ state # posts[p].state /\ posts' = [posts EXCEPT ![p].state = state]
  /\ UNCHANGED <<connection, jobs>> /\ LocalStays
Reconnect ==
  /\ connection < MaxConnections /\ connection' = connection + 1
  /\ UNCHANGED <<posts, jobs>> /\ LocalStays

-----------------------------------------------------------------------------
(* The creator (external host).                                             *)

Keys == DOMAIN associations
Changed(id, announcement) == announcements' = [announcements EXCEPT ![id] = announcement]
EditLocally(id) ==
  /\ ~announcements[id].edited
  /\ Changed(id, [announcements[id] EXCEPT !.content.body = 0, !.edited = TRUE])
  /\ UNCHANGED <<associations, publications, excluded, jobs>> /\ RemoteStays
ReviewSource(id) ==
  /\ announcements[id].review /\ Changed(id, [announcements[id] EXCEPT !.review = FALSE])
  /\ UNCHANGED <<associations, publications, excluded, jobs>> /\ RemoteStays
\* Managed ingestion of an attachment ends.
ArchiveMedia(id) ==
  /\ announcements[id].content.archive # "archived"
  /\ Changed(id, [announcements[id] EXCEPT !.content.archive = "archived"])
  /\ UNCHANGED <<associations, publications, excluded, jobs>> /\ RemoteStays
Free == (1..MaxAnnouncements) \ DOMAIN announcements
NewIds == {id \in Free : \A other \in Free : id <= other}
With(f, k, v) == [x \in DOMAIN f \cup {k} |-> IF x = k THEN v ELSE f[x]]
\* An announcement was sent from here: its remote post is associated with it.
RecordOutbound(p) ==
  /\ SourceKey(p, connection) \notin Keys
  /\ \E id \in NewIds :
       /\ announcements' = With(announcements, id, [origin |-> "local", content |-> [Snapshot(p) EXCEPT !.body = 0],
                                                    edited |-> FALSE, review |-> FALSE])
       /\ associations' = With(associations, SourceKey(p, connection), [id |-> id, observed |-> <<>>])
  /\ UNCHANGED <<publications, excluded, jobs>> /\ RemoteStays
RecordPublication(p) ==
  /\ p \notin publications /\ publications' = publications \cup {p}
  /\ UNCHANGED <<associations, announcements, excluded, jobs>> /\ RemoteStays
\* The creator removes an imported announcement: its post stays out of later imports.
ExcludeSource(key) ==
  LET id == associations[key].id
  IN /\ announcements[id].origin = "external_import"
     /\ associations' = Restrict(associations, Keys \ {key})
     /\ announcements' = Restrict(announcements, DOMAIN announcements \ {id})
     /\ excluded' = excluded \cup {key}
     /\ UNCHANGED <<publications, jobs>> /\ RemoteStays

-----------------------------------------------------------------------------
(* An import job: it observes a post and loads what is known of it, plans   *)
(* and commits.                                                             *)

Association(key) == IF key \in Keys THEN associations[key] ELSE Absent
Known(key, post) ==
  [association |-> Association(key),
   announcement |-> IF key \in Keys THEN announcements[associations[key].id] ELSE Absent,
   published |-> post \in publications, excluded |-> key \in excluded]
Observe(i, p, choice) ==
  LET key == SourceKey(p, connection)
  IN /\ jobs[i] = NoJob
     /\ jobs' = [jobs EXCEPT ![i] = [phase |-> "planned", key |-> key, source |-> Snapshot(p), kind |-> posts[p].kind,
                                     state |-> posts[p].state, choice |-> choice, known |-> Known(key, p)]]
     /\ LocalStays /\ RemoteStays

Skipped(job) ==
  \/ job.known.excluded /\ "restore" \notin job.choice
  \/ job.state = "unavailable"
  \/ job.state = "metadata_only" /\ "metadata" \notin job.choice
  \/ job.kind = "system"
  \/ job.kind = "reply" /\ "replies" \notin job.choice
  \/ job.kind \notin {"system", "reply", "original"} /\ "attributed" \notin job.choice
Update_Refreshing(known, hash) ==
  IF known.association.observed = hash THEN "unchanged" ELSE "refresh_local"
Update(known, hash) ==
  IF known.association.observed = hash THEN "unchanged"
  ELSE IF known.announcement.origin = "local" \/ known.announcement.edited THEN "review_source_change"
  ELSE "refresh_local"
\* planHistoricalAnnouncementImport
Plan_AnnouncementFirst(job) ==
  IF Skipped(job) THEN "skip" ELSE IF job.known.association # Absent
  THEN Update(job.known, ContentHash(job.source, job.state))
  ELSE IF job.known.published THEN "reconcile_publication" ELSE "create_announcement"
Plan(job) ==
  IF job.known.excluded /\ "restore" \notin job.choice THEN "skip"
  ELSE IF job.known.published THEN "reconcile_publication"
  ELSE IF Skipped(job) THEN "skip"
  ELSE IF job.known.association = Absent THEN "create_announcement"
  ELSE Update(job.known, ContentHash(job.source, job.state))

\* What the host does with a plan, in the commit that also stores the observation.
Created(job, hash) ==
  \E id \in NewIds :
    /\ announcements' = With(announcements, id, [origin |-> "external_import", content |-> job.source,
                                                 edited |-> FALSE, review |-> FALSE])
    /\ associations' = With(associations, job.key, [id |-> id, observed |-> hash])
    /\ excluded' = excluded \ {job.key}
Reconciled(job, hash, announcement) ==
  /\ Changed(job.known.association.id, announcement)
  /\ associations' = [associations EXCEPT ![job.key].observed = hash]
  /\ UNCHANGED excluded
Commit(i) ==
  LET job == jobs[i]
      plan == Plan(job)
      hash == ContentHash(job.source, job.state)
      now == job.known.announcement
  IN /\ job.phase = "planned" /\ jobs' = [jobs EXCEPT ![i] = NoJob]
     /\ UNCHANGED publications /\ RemoteStays
     /\ job.known = Known(job.key, job.source.post)
     /\ \/ plan \in {"skip", "reconcile_publication", "unchanged"} /\ UNCHANGED <<associations, announcements, excluded>>
        \/ plan = "create_announcement" /\ Created(job, hash)
        \/ plan = "refresh_local" /\ Reconciled(job, hash, [now EXCEPT !.content = job.source])
        \/ plan = "review_source_change" /\ Reconciled(job, hash, [now EXCEPT !.review = TRUE])
\* What it loaded has changed: the job looks again.
Conflict(i) ==
  /\ jobs[i].phase = "planned" /\ jobs[i].known # Known(jobs[i].key, jobs[i].source.post)
  /\ jobs' = [jobs EXCEPT ![i] = NoJob] /\ LocalStays /\ RemoteStays

ImportNext ==
  \/ Reconnect
  \/ \E p \in Posts : EditPost(p) \/ LikePost(p) \/ RecordOutbound(p) \/ RecordPublication(p)
  \/ \E p \in Posts, state \in Accesses : ChangeAccess(p, state)
  \/ \E id \in DOMAIN announcements : EditLocally(id) \/ ReviewSource(id) \/ ArchiveMedia(id)
  \/ \E key \in Keys : ExcludeSource(key)
  \/ \E i \in Importers, p \in Posts, choice \in Choices : Observe(i, p, choice)
  \/ \E i \in Importers : Commit(i) \/ Conflict(i)
ImportSpec == ImportInit /\ [][ImportNext]_importVars

-----------------------------------------------------------------------------
ImportTypeOK ==
  /\ DOMAIN posts = Posts /\ \A p \in Posts : posts[p].body \in 1..MaxVersion /\ posts[p].state \in Completeness
  /\ connection \in 1..MaxConnections /\ publications \subseteq Posts
  /\ DOMAIN announcements \subseteq 1..MaxAnnouncements
  /\ \A id \in DOMAIN announcements : announcements[id].origin \in Origins /\ announcements[id].content.post \in Posts
  /\ \A key \in Keys : associations[key].id \in DOMAIN announcements
  /\ DOMAIN jobs = Importers

\* However often the creator reconnects and however imports overlap, a remote post has one
\* announcement, and every announcement is reached from its post (importedSourceKey).
OneEach ==
  /\ \A a, b \in DOMAIN announcements : announcements[a].content.post = announcements[b].content.post => a = b
  /\ \A a \in DOMAIN announcements : \E key \in Keys : associations[key].id = a

\* An imported announcement shows what was last observed of its post until the creator
\* edits it; from then on, and if it was sent from here, an import never changes its
\* content (planHistoricalAnnouncementImport).
ShowsObserved ==
  \A key \in Keys :
    LET a == announcements[associations[key].id]
    IN a.origin = "external_import" /\ ~a.edited =>
         \E state \in Completeness : associations[key].observed = ContentHash(a.content, state)
OwnContentKept ==
  \A a \in DOMAIN announcements \cap DOMAIN announcements' :
    announcements[a].origin = "local" \/ announcements[a].edited =>
      announcements'[a].content.body = announcements[a].content.body

\* The creator is asked to review only what the post's author changed: likes, archived
\* media and a new connection are not changes of the post (historicalSourceContentHash).
ReviewsAreReal ==
  \A key \in Keys \cap DOMAIN associations' :
    LET id == associations[key].id
        saw == associations[key].observed
    IN announcements'[id].review /\ ~announcements[id].review /\ saw # <<>> =>
         <<saw[2], saw[Len(saw)]>> # <<associations'[key].observed[2], associations'[key].observed[Len(saw)]>>

\* A post known as a publication becomes no announcement and refreshes none, and a post the
\* creator excluded comes back only when an import is told to restore it.
TrackedElsewhere ==
  \A key \in DOMAIN associations' :
    associations' # associations /\ (key \notin Keys \/ associations'[key] # associations[key]) =>
      \A i \in Importers :
        jobs[i] # NoJob /\ jobs'[i] = NoJob =>
          /\ jobs[i].source.post \notin publications
          /\ jobs[i].key \in excluded => "restore" \in jobs[i].choice
===============================================================================
