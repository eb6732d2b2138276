----------------------------- MODULE CreatorSlugs -----------------------------
(***************************************************************************)
(* The names of a creator's Works and collections: CreatorWorkService,     *)
(* CreatorCollectionService and the writes of LocalCreatorLibraryStore     *)
(* (packages/core/src/creator-works.ts, creator-collections.ts,            *)
(* adapters/local/src/creator-library.ts).                                 *)
(*                                                                         *)
(* A record answers to its slug and to every slug it had before.  Services *)
(* check a slug with a read and the store checks it again in the statement *)
(* that writes.  Access checks and covers change nothing and are left out. *)
(***************************************************************************)
EXTENDS Naturals

CONSTANTS Works, Collections, Slugs, NoSlug,
          Editors,        \* concurrent requests
          Expectations,   \* what updates of collections compare: "status", "revision"
          MaxRecordRevision \* bound: no edit of a record begins at this revision

Records == Works \cup Collections
Alike(r, q) == r \in Works <=> q \in Works

VARIABLES
  record, \* by id: status, slug, slugHistory with the slug itself, revision
  editor  \* each request: step, record, what it read, what it writes

slugVars == <<record, editor>>

Record == [status : {"none", "live", "deleted"}, slug : Slugs \cup {NoSlug}, aliases : SUBSET Slugs, revision : Nat]
NoRecord == [status |-> "none", slug |-> NoSlug, aliases |-> {}, revision |-> 0]
AtRest == [at |-> "idle", record |-> 0, was |-> NoRecord, next |-> NoRecord, expects |-> {}]

SlugInit ==
  /\ record = [r \in Records |-> NoRecord]
  /\ editor = [e \in Editors |-> AtRest]

Leaves(e) == editor' = [editor EXCEPT ![e] = AtRest]
Others(r) == {q \in Records : q # r /\ Alike(q, r) /\ record[q].status = "live"}

\* Only current slugs are compared.
Taken_CurrentOnly(r, names) == \E q \in Others(r) : record[q].slug \in names

\* requireAvailableSlug, and availableSlug of the store
Taken(r, names) == \E q \in Others(r) : record[q].aliases \cap names # {}

CreateRecord(e, r, slug) ==
  /\ editor[e] = AtRest /\ record[r].status = "none" /\ \A f \in Editors : editor[f].record # r
  /\ editor' = [editor EXCEPT ![e] =
       [AtRest EXCEPT !.at = "check", !.record = r,
                    !.next = [status |-> "live", slug |-> slug, aliases |-> {slug}, revision |-> IF r \in Works THEN 1 ELSE 0]]]
  /\ UNCHANGED record

\* CreatorWorkService.revise: the edit is applied to the Work that was read.
Revise(e, r, status, slug) ==
  LET was == record[r]
  IN /\ editor[e] = AtRest /\ was.status # "none" /\ was.revision < MaxRecordRevision
     /\ editor' = [editor EXCEPT ![e] =
          [at |-> "check", record |-> r, was |-> was, expects |-> {"revision"},
           next |-> [status |-> status, slug |-> slug, aliases |-> was.aliases \cup {slug}, revision |-> was.revision + 1]]]
     /\ UNCHANGED record

\* A client edits the collection it has seen; update reads the stored one again.
Edit(e, r, status, slug, expects) ==
  /\ editor[e] = AtRest /\ record[r].status # "none" /\ record[r].revision < MaxRecordRevision
  /\ editor' = [editor EXCEPT ![e] = [at |-> "load", record |-> r, was |-> record[r], expects |-> expects,
                                      next |-> [record[r] EXCEPT !.status = status, !.slug = slug]]]
  /\ UNCHANGED record

LoadRecord(e) ==
  LET next == editor[e].next
  IN /\ editor[e].at = "load"
     /\ editor' = [editor EXCEPT ![e].at = "check",
                                 ![e].next.aliases = record[editor[e].record].aliases \cup {next.slug}]
     /\ UNCHANGED record

\* CreatorCollectionService.remove writes what it has read, as deleted.
Remove(e, r, expects) ==
  /\ editor[e] = AtRest /\ record[r].status # "none" /\ record[r].revision < MaxRecordRevision
  /\ editor' = [editor EXCEPT ![e] = [at |-> "write", record |-> r, was |-> record[r], expects |-> expects,
                                      next |-> [record[r] EXCEPT !.status = "deleted"]]]
  /\ UNCHANGED record

\* What the service asks for before it writes.
Requested(e) ==
  LET was == editor[e].was
      next == editor[e].next
  IN IF next.status = "deleted" THEN {}
     ELSE IF editor[e].record \in Collections \/ was.status = "deleted" THEN next.aliases
     ELSE IF next.slug # was.slug THEN {next.slug} ELSE {}

CheckSlug(e) ==
  /\ editor[e].at = "check"
  /\ IF Taken(editor[e].record, Requested(e)) THEN Leaves(e) ELSE editor' = [editor EXCEPT ![e].at = "write"]
  /\ UNCHANGED record

\* The write does not compare the revision.
Expected_Status(e) == record[editor[e].record].status = editor[e].was.status

Expected(e) ==
  LET now == record[editor[e].record]
  IN /\ "revision" \in editor[e].expects => now.revision = editor[e].was.revision
     /\ "status" \in editor[e].expects => now.status = editor[e].was.status

\* A restored record takes back its current slug only.
Acquired_Current(next) == IF next.status = "deleted" THEN {} ELSE {next.slug}

Acquired(next) == IF next.status = "deleted" THEN {} ELSE next.aliases

\* create, updateWork, updateCreatorCollection: one statement each
WriteRecord(e) ==
  LET r == editor[e].record
      next == editor[e].next
  IN /\ editor[e].at = "write"
     /\ record' = IF Expected(e) /\ ~Taken(r, Acquired(next))
                    THEN [record EXCEPT ![r] = [next EXCEPT !.revision =
                            IF r \in Works \/ editor[e].was.status = "none" THEN next.revision ELSE record[r].revision + 1]]
                    ELSE record
     /\ Leaves(e)

SlugNext ==
  \E e \in Editors :
    \/ \E r \in Records, slug \in Slugs : CreateRecord(e, r, slug)
    \/ \E r \in Works, slug \in Slugs : \E status \in {"live", "deleted"} : Revise(e, r, status, slug)
    \/ \E r \in Collections, expects \in Expectations :
         Remove(e, r, expects) \/ \E slug \in Slugs, status \in {"live", "deleted"} : Edit(e, r, status, slug, expects)
    \/ LoadRecord(e) \/ CheckSlug(e) \/ WriteRecord(e)

SlugSpec == SlugInit /\ [][SlugNext]_slugVars

SlugTypeOK ==
  /\ record \in [Records -> Record]
  /\ \A e \in Editors : editor[e].at \in {"idle", "load", "check", "write"} /\ editor[e].record \in Records \cup {0}
                        /\ editor[e].next \in Record

\* Whatever is created, renamed, deleted and restored at once, a slug, current or
\* former, leads to one live Work and to one live collection of the creator.
SlugsUnique == \A r, q \in Records : r # q /\ Alike(r, q) /\ record[r].status = "live" /\ record[q].status = "live"
                 => record[r].aliases \cap record[q].aliases = {}

\* A record keeps answering to every slug it ever had, through renames that overtake one
\* another, as long as each states the revision it was made from (those of Works do).
AliasesKept ==
  \A e \in Editors :
    LET r == editor[e].record
    IN editor[e].at = "write" /\ editor'[e].at = "idle" /\ "revision" \in editor[e].expects
         => record[r].aliases \subseteq record'[r].aliases /\ record'[r].slug \in record'[r].aliases
=============================================================================
