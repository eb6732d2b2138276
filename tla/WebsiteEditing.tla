--------------------------- MODULE WebsiteEditing ---------------------------
(***************************************************************************)
(* The pages of a website, the addresses they had in public, and the       *)
(* redirects that keep those addresses alive: WebsiteService.save with      *)
(* websiteRoutes and websiteHistoricalRedirects.  A page is known by its    *)
(* id, so a published address follows its page from name to name.           *)
(***************************************************************************)
EXTENDS Naturals, Sequences, FiniteSets

CONSTANTS Editors,     \* sessions that open and save the website
          Pages,       \* the pages besides Home
          NoPage,      \* no parent
          Forms,       \* what a page can be: its slug, state and parent
          FirstPages,  \* the pages of the first revision
          TypedFrom,   \* addresses an editor enters as a redirect
          MaxSiteRevision, MaxReleases

VARIABLES site,        \* the stored website, with its revision
          draft,       \* what each editor's session is doing
          captured,    \* snapshots taken for publication and not yet confirmed
          published,   \* confirmed snapshots, newest first
          owed,        \* address |-> page: what the saves so far have promised
          typed, seen  \* redirects entered by hand; addresses ever in public

siteVars == <<site, draft, captured, published, owed, typed, seen>>

Root == <<>>
Index == <<"galleries">>      \* a page may have it, a redirect may not leave it
Slugs == {"a", "b", "c", "d", "galleries"}
Redirects == [from : Seq(Slugs), to : Seq(Slugs)]
Path(pages, p) == IF pages[p].parent = NoPage THEN <<pages[p].slug>>
                  ELSE <<pages[pages[p].parent].slug, pages[p].slug>>
Routes(pages) == {Root} \cup {Path(pages, p) : p \in DOMAIN pages}

\* Sub-pages have a top-level parent that is not archived, and no two pages one address.
ValidPages(pages) ==
  /\ \A p \in DOMAIN pages : pages[p].parent # NoPage =>
       /\ pages[p].parent \in DOMAIN pages \ {p}
       /\ pages[pages[p].parent].parent = NoPage
       /\ pages[pages[p].parent].state # "archived"
  /\ \A p, q \in DOMAIN pages : Path(pages, p) = Path(pages, q) => p = q

\* Only ready pages are public.
Ready(pages) == {p \in DOMAIN pages : pages[p].state = "ready"}
ResourcePaths(pages) == [p \in Ready(pages) |-> Path(pages, p)]
Targets(pages) == {Root} \cup {Path(pages, p) : p \in Ready(pages)}

ValidRedirects(pages, redirects) ==
  \A r \in redirects :
    /\ r.from \notin Routes(pages) \cup {Index}
    /\ r.to \in Targets(pages) \ {r.from}
    /\ \A q \in redirects : q.from = r.from => q = r

\* The addresses a release gives to pages that are still public, directly or by a redirect.
Leads(release, pages) ==
  LET past == ResourcePaths(release.pages)
      still == DOMAIN past \cap Ready(pages)
  IN {[from |-> past[p], page |-> p] : p \in still}
     \cup {[from |-> r.from, page |-> p] : <<r, p>> \in
             {rp \in release.redirects \X still : rp[1].to = past[rp[2]]}}
ReleaseLeads(releases, pages) ==
  {l \in UNION {Leads(releases[i], pages) : i \in DOMAIN releases} :
     \E i \in DOMAIN releases :
       /\ l \in Leads(releases[i], pages)
       /\ \A j \in 1..(i - 1) : \A m \in Leads(releases[j], pages) : m.from # l.from}
OldestLeads(releases, pages) ==
  {l \in UNION {Leads(releases[i], pages) : i \in DOMAIN releases} :
     \E i \in DOMAIN releases :
       /\ l \in Leads(releases[i], pages)
       /\ \A j \in (i + 1)..Len(releases) : \A m \in Leads(releases[j], pages) : m.from # l.from}
Retained_OldestFirst(releases, pages) ==
  {[from |-> l.from, to |-> Path(pages, l.page)] : l \in OldestLeads(releases, pages)}
Retained(releases, pages) ==
  {[from |-> l.from, to |-> Path(pages, l.page)] : l \in ReleaseLeads(releases, pages)}

\* The redirects of the draft: those to a page that is gone or under a new page go, those to
\* a page that moved follow it.
Followed_Unmoved(candidate, old) == candidate.redirects
Followed(candidate, old) ==
  LET before == ResourcePaths(old.pages)
      now == ResourcePaths(candidate.pages)
      removed == {before[p] : p \in DOMAIN before \ DOMAIN now}
      moved == {[from |-> before[p], to |-> now[p]] : p \in DOMAIN before \cap DOMAIN now}
      known(r) == r \in old.redirects
      shadowed(r) == r.from \in Routes(candidate.pages) /\ \E q \in old.redirects : q.from = r.from
  IN {[r EXCEPT !.to = IF \E m \in moved : m.from = r.to THEN (CHOOSE m \in moved : m.from = r.to).to ELSE r.to] :
        r \in {q \in candidate.redirects : ~(q.to \in removed /\ known(q)) /\ ~shadowed(q)}}
HistoricalRedirects_Drafts(candidate, old, releases) ==
  LET kept == Followed(candidate, old)
      before == ResourcePaths(old.pages)
      now == ResourcePaths(candidate.pages)
  IN kept \cup {r \in {[from |-> before[p], to |-> now[p]] : p \in DOMAIN before \cap DOMAIN now} :
                  r.from \notin Routes(candidate.pages) /\ \A q \in kept : q.from # r.from}
HistoricalRedirects(candidate, old, releases) ==
  LET useful == {r \in Retained(releases, candidate.pages) :
                   r.from \notin Routes(candidate.pages)}
  IN {r \in Followed(candidate, old) : \A u \in useful : u.from # r.from} \cup useful

-----------------------------------------------------------------------------
Idle == [at |-> "idle"]
SiteInit ==
  /\ site = [revision |-> 1, deleted |-> FALSE, pages |-> FirstPages, redirects |-> {}]
  /\ draft = [e \in Editors |-> Idle]
  /\ captured = {} /\ published = <<>>
  /\ owed = [a \in {} |-> NoPage] /\ typed = {} /\ seen = {Root}

Body(s) == [pages |-> s.pages, redirects |-> s.redirects]

\* get: the session works on the revision it read.
Open(e) ==
  /\ draft[e].at \in {"idle", "refused"} /\ ~site.deleted /\ site.revision < MaxSiteRevision
  /\ draft' = [draft EXCEPT ![e] = [at |-> "open", base |-> Body(site), expected |-> site.revision]]
  /\ UNCHANGED <<site, captured, published, owed, typed, seen>>

\* One page given another form, added, or deleted; or one redirect entered or taken away.
EditedPages(pages) ==
  {[q \in DOMAIN pages \cup {p} |-> IF q = p THEN f ELSE pages[q]] : p \in Pages, f \in Forms}
  \cup {[q \in DOMAIN pages \ {p} |-> pages[q]] : p \in DOMAIN pages}
Edits(base) ==
  {[pages |-> ps, redirects |-> base.redirects] : ps \in EditedPages(base.pages)}
  \cup {[pages |-> base.pages, redirects |-> base.redirects \cup {[from |-> a, to |-> b]}] :
          a \in TypedFrom, b \in Targets(base.pages)}
  \cup {[pages |-> base.pages, redirects |-> base.redirects \ {r}] : r \in base.redirects}

\* What the sessions promise the public: what the releases this save knew lead to, and what
\* earlier saves promised unless the page, or the redirect's author, has withdrawn it.
Promises(was, candidate, releases) ==
  LET led == ReleaseLeads(releases, candidate.pages)
      older == {a \in DOMAIN was : /\ was[a] \in Ready(candidate.pages)
                                   /\ a \notin Routes(candidate.pages)
                                   /\ \A l \in led : l.from # a
                                   /\ was[a] \in Ready(site.pages)
                                   /\ [from |-> a, to |-> Path(site.pages, was[a])] \in candidate.redirects}
  IN [a \in older \cup {l.from : l \in led} |->
        IF \E l \in led : l.from = a THEN (CHOOSE l \in led : l.from = a).page ELSE was[a]]

\* save up to the store: the draft is checked without its redirects, then with those the
\* history of the website adds.
Submit(e) ==
  /\ draft[e].at = "open"
  /\ \E edit \in Edits(draft[e].base) \ {draft[e].base} :
       /\ ValidPages(edit.pages)
       /\ LET redirects == HistoricalRedirects(edit, site, published)
              byHand == edit.redirects \ draft[e].base.redirects
          IN draft' = [draft EXCEPT ![e] =
               IF site.deleted \/ site.revision # draft[e].expected THEN Idle
               ELSE IF ~ValidRedirects(edit.pages, redirects)
                    THEN [at |-> "refused", byHand |-> byHand # {}, index |-> Index \in seen]
                    ELSE [at |-> "saving", expected |-> draft[e].expected, byHand |-> {r.from : r \in byHand},
                          site |-> [pages |-> edit.pages, redirects |-> redirects],
                          owes |-> Promises(owed, edit, published)]]
  /\ UNCHANGED <<site, captured, published, owed, typed, seen>>

\* saveWebsite: UPDATE ... WHERE revision = expected AND not deleted.
Commit(e) ==
  /\ draft[e].at = "saving"
  /\ draft' = [draft EXCEPT ![e] = Idle]
  /\ IF ~site.deleted /\ site.revision = draft[e].expected
     THEN /\ site' = [revision |-> site.revision + 1, deleted |-> FALSE,
                      pages |-> draft[e].site.pages, redirects |-> draft[e].site.redirects]
          /\ owed' = draft[e].owes /\ typed' = typed \cup draft[e].byHand
     ELSE UNCHANGED <<site, owed, typed>>
  /\ UNCHANGED <<captured, published, seen>>

\* remove: the record stays as a tombstone no save can overwrite.
Remove(e) ==
  /\ draft[e].at = "open"
  /\ draft' = [draft EXCEPT ![e] = Idle]
  /\ site' = IF ~site.deleted /\ site.revision = draft[e].expected
             THEN [site EXCEPT !.revision = @ + 1, !.deleted = TRUE] ELSE site
  /\ UNCHANGED <<captured, published, owed, typed, seen>>

\* capturePublication: a review pins the website it saw.
Capture ==
  /\ ~site.deleted /\ Body(site) \notin captured
  /\ Cardinality(captured) + Len(published) < MaxReleases
  /\ captured' = captured \cup {Body(site)}
  /\ UNCHANGED <<site, draft, published, owed, typed, seen>>
\* The deployment of a captured snapshot is confirmed.
Confirm ==
  /\ \E r \in captured :
       /\ captured' = captured \ {r} /\ published' = <<r>> \o published
       /\ seen' = seen \cup {Path(r.pages, p) : p \in Ready(r.pages)}
  /\ UNCHANGED <<site, draft, owed, typed>>
\* The oldest snapshot is retired.
Retire ==
  /\ Len(published) > 1 /\ published' = SubSeq(published, 1, Len(published) - 1)
  /\ UNCHANGED <<site, draft, captured, owed, typed, seen>>

SiteNext ==
  \/ \E e \in Editors : Open(e) \/ Submit(e) \/ Commit(e) \/ Remove(e)
  \/ Capture \/ Confirm \/ Retire
SiteSpec == SiteInit /\ [][SiteNext]_siteVars

-----------------------------------------------------------------------------
SiteBodies == [pages : UNION {[d -> Forms] : d \in SUBSET Pages}, redirects : SUBSET Redirects]
IsBody(b) == /\ DOMAIN b.pages \subseteq Pages /\ \A p \in DOMAIN b.pages : b.pages[p] \in Forms
             /\ \A r \in b.redirects : r \in Redirects
SiteTypeOK ==
  /\ site.revision \in 1..(MaxSiteRevision + 1) /\ site.deleted \in BOOLEAN /\ IsBody(Body(site))
  /\ \A e \in Editors : draft[e].at \in {"idle", "open", "saving", "refused"}
  /\ \A r \in captured : IsBody(r)
  /\ \A i \in DOMAIN published : IsBody(published[i])
  /\ \A a \in DOMAIN owed : owed[a] \in Pages

\* An address that a published release gave to a page leads to that page, in one hop, for
\* as long as the page is public and no other page has taken the address, however often the
\* page and its parent are renamed and whichever releases are retired meanwhile
\* (websiteHistoricalRedirects: "Preserve published paths").
PublishedPathsKept ==
  \A a \in DOMAIN owed : owed[a] \in Ready(site.pages) =>
    \/ a \in Routes(site.pages)
    \/ [from |-> a, to |-> Path(site.pages, owed[a])] \in site.redirects

\* The website's own history never stands in the way of a save: a session that leaves the
\* redirects alone is not refused over them, whatever its change does to their targets.
\* The one exception is a page once public at /galleries/, whose address no redirect may
\* leave (websiteRoutes allows the page and reserves the redirect).
HistoryNeverBlocks ==
  \A e \in Editors : draft[e].at = "refused" => draft[e].byHand \/ draft[e].index

\* Addresses that were never public leave no trace: every redirect was entered by hand or
\* leaves an address a confirmed release had (websiteHistoricalRedirects: "leaving
\* never-published draft paths out of history").
DraftsLeaveNoTrace == \A r \in site.redirects : r.from \in typed \cup seen
=============================================================================
