---------------------------- MODULE FlickrInventory ----------------------------
(***************************************************************************)
(* The catalogue of a Flickr account is read one page at a time while its   *)
(* owner changes it: photos into the migration's manifest                  *)
(* (packages/integrations/src/flickr-inventory.ts), albums and their photos *)
(* into a checkpoint (flickr-album-inventory.ts), each page as the client   *)
(* accepts it (flickr-client.ts).  Which pages are asked for, and that a    *)
(* failed page is asked for again or given up, is the application's.        *)
(***************************************************************************)
EXTENDS Naturals, Sequences, SequencesExt, FiniteSets

CONSTANTS Photos, Albums,
          Whole,       \* does the application hand over the catalogue in one call
          PageSize,
          MaxChanges,  \* changes at Flickr
          MaxCaptures, \* inventories of the photos
          MaxWalks     \* inventories of the albums

VARIABLES catalogue,   \* the photos at Flickr, newest first
          description, \* photo -> version of what Flickr says of it
          albums,      \* the albums at Flickr, and their photos
          migration,   \* the stored manifest: see NoMigration
          capture,     \* the inventory under way: [page, quiet], page 0 when none
          walk,        \* FlickrAlbumInventory, and whether Flickr rested meanwhile
          changes, captures, walks

flickrVars == <<catalogue, description, albums, migration, capture, walk, changes, captures, walks>>

Unknown == "none"
NoMigration == [photos |-> <<>>, hash |-> [p \in Photos |-> 0], publications |-> [p \in Photos |-> Unknown]]
NoWalk == [phase |-> "idle", page |-> 1, index |-> 1, albums |-> <<>>, quiet |-> TRUE]

FlickrInit ==
  /\ catalogue = SetToSeq(Photos) /\ description = [p \in Photos |-> 1]
  /\ albums = [i \in 1..Cardinality(Albums) |-> [id |-> SetToSeq(Albums)[i], photos |-> SetToSeq(Photos)]]
  /\ migration = NoMigration /\ capture = [page |-> 0, quiet |-> TRUE] /\ walk = NoWalk
  /\ changes = 0 /\ captures = 0 /\ walks = 0

-----------------------------------------------------------------------------
(* The owner at Flickr.                                                     *)

Changed ==
  /\ changes < MaxChanges /\ changes' = changes + 1
  /\ capture' = [capture EXCEPT !.quiet = FALSE] /\ walk' = [walk EXCEPT !.quiet = FALSE]
  /\ UNCHANGED <<migration, captures, walks>>
\* What is removed makes the pages behind it move up, what is added makes them move down.
Toggled(seq, x) == IF Contains(seq, x) THEN SelectSeq(seq, LAMBDA y : y # x) ELSE <<x>> \o seq
TogglePhoto(p) == catalogue' = Toggled(catalogue, p) /\ Changed /\ UNCHANGED <<description, albums>>
Describe(p) ==
  /\ description[p] < 2 /\ description' = [description EXCEPT ![p] = @ + 1] /\ Changed /\ UNCHANGED <<catalogue, albums>>
TogglePlace(i, p) == albums' = [albums EXCEPT ![i].photos = Toggled(@, p)] /\ Changed /\ UNCHANGED <<catalogue, description>>
ToggleAlbum(a) ==
  /\ albums' = IF \E i \in DOMAIN albums : albums[i].id = a THEN SelectSeq(albums, LAMBDA b : b.id # a)
               ELSE <<[id |-> a, photos |-> <<>>]>> \o albums
  /\ Changed /\ UNCHANGED <<catalogue, description>>

-----------------------------------------------------------------------------
(* Pages as the client accepts them.                                        *)

Size == IF Whole THEN Cardinality(Photos) ELSE PageSize
PagesOf(seq, size) == (Len(seq) + size - 1) \div size
Page(seq, page, size) == [i \in 1..(IF page * size <= Len(seq) THEN size ELSE Len(seq) - (page - 1) * size) |-> seq[(page - 1) * size + i]]
\* A page past the end is refused, an empty catalogue's first page is not.
Answered(seq, page, size) == PagesOf(seq, size) >= page \/ (page = 1 /\ seq = <<>>)

-----------------------------------------------------------------------------
(* inventory(): what a page makes of the stored manifest.                   *)

Without(seq, photos) == SelectSeq(seq, LAMBDA p : ~Contains(photos, p))
Merged_All(photos, append) == IF append THEN migration.photos \o photos ELSE photos
Merged(photos, append) == IF append THEN Without(migration.photos, photos) \o photos ELSE photos
HashOf(p, photos) == IF Contains(photos, p) THEN description[p] ELSE migration.hash[p]
Observed(p, photos) ==
  IF Contains(migration.photos, p) /\ HashOf(p, photos) # migration.hash[p] THEN "REMOTE_CHANGED" ELSE "ACTIVE"
\* Only an inventory in one call tells what is missing.
Absent_Forgotten(p) == Unknown
Absent(p) == IF migration.publications[p] = Unknown THEN Unknown ELSE "MISSING"
Inventoried(photos, more, append) ==
  LET all == Merged(photos, append)
  IN [photos |-> all,
      hash |-> [p \in Photos |-> IF Contains(all, p) THEN HashOf(p, photos) ELSE 0],
      publications |-> [p \in Photos |-> IF Contains(all, p) THEN Observed(p, photos)
                                          ELSE IF ~append /\ ~more THEN Absent(p) ELSE Unknown]]

StartCapture ==
  /\ capture.page = 0 /\ captures < MaxCaptures /\ captures' = captures + 1 /\ capture' = [page |-> 1, quiet |-> TRUE]
  /\ UNCHANGED <<catalogue, description, albums, migration, walk, changes, walks>>
CapturePage ==
  LET page == capture.page
      more == page < PagesOf(catalogue, Size)
  IN /\ page > 0
     /\ IF Answered(catalogue, page, Size)
        THEN /\ migration' = Inventoried(Page(catalogue, page, Size), more, page > 1)
             /\ capture' = [capture EXCEPT !.page = IF more THEN @ + 1 ELSE 0]
        ELSE capture' = [page |-> 0, quiet |-> FALSE] /\ UNCHANGED migration
     /\ UNCHANGED <<catalogue, description, albums, walk, changes, captures, walks>>

-----------------------------------------------------------------------------
(* advanceFlickrAlbumInventory: the albums, then the photos of each.        *)

StartWalk ==
  /\ walk.phase \in {"idle", "complete"} /\ walks < MaxWalks /\ walks' = walks + 1
  /\ walk' = [NoWalk EXCEPT !.phase = "albums"]
  /\ UNCHANGED <<catalogue, description, albums, migration, capture, changes, captures>>
Walks(next) == walk' = next /\ UNCHANGED <<catalogue, description, albums, migration, capture, changes, captures, walks>>
\* An application that meets an error starts over.
Fails == Walks(NoWalk)
Shows_Anything(seen, page) == TRUE
Shows(seen, page) == \A i \in DOMAIN page : ~Contains(seen, page[i])
IdsOf(seq) == [i \in DOMAIN seq |-> seq[i].id]
WalkAlbums ==
  LET page == Page(albums, walk.page, PageSize)
      all == walk.albums \o [i \in DOMAIN page |-> [id |-> page[i].id, photos |-> <<>>]]
  IN /\ walk.phase = "albums"
     /\ IF Answered(albums, walk.page, PageSize) /\ Shows(IdsOf(walk.albums), IdsOf(page))
        THEN Walks(IF walk.page < PagesOf(albums, PageSize) THEN [walk EXCEPT !.page = @ + 1, !.albums = all]
                   ELSE [walk EXCEPT !.page = 1, !.albums = all, !.phase = IF all = <<>> THEN "complete" ELSE "members"])
        ELSE Fails
PhotosAt(id) == (CHOOSE i \in DOMAIN albums : albums[i].id = id)
NextPage_Kept == walk.page + 1
NextPage == 1
WalkMembers ==
  LET album == walk.albums[walk.index]
      there == album.id \in {albums[i].id : i \in DOMAIN albums}
      seq == IF there THEN albums[PhotosAt(album.id)].photos ELSE <<>>
      page == Page(seq, walk.page, PageSize)
      next == [walk EXCEPT !.albums[walk.index].photos = @ \o page]
  IN /\ walk.phase = "members"
     /\ IF there /\ Answered(seq, walk.page, PageSize) /\ Shows(album.photos, page)
        THEN Walks(IF walk.page < PagesOf(seq, PageSize) THEN [next EXCEPT !.page = @ + 1]
                   ELSE [next EXCEPT !.page = NextPage, !.index = @ + 1,
                                     !.phase = IF walk.index = Len(walk.albums) THEN "complete" ELSE @])
        ELSE Fails

FlickrNext ==
  \/ \E p \in Photos : TogglePhoto(p) \/ Describe(p) \/ \E i \in DOMAIN albums : TogglePlace(i, p)
  \/ \E a \in Albums : ToggleAlbum(a)
  \/ StartCapture \/ CapturePage \/ StartWalk \/ WalkAlbums \/ WalkMembers
FlickrSpec == FlickrInit /\ [][FlickrNext]_flickrVars

-----------------------------------------------------------------------------
\* Types, and the counters within their bounds.
FlickrTypeOK ==
  /\ \A p \in Photos : migration.publications[p] \in {Unknown, "ACTIVE", "REMOTE_CHANGED", "MISSING"}
  /\ ToSet(migration.photos) \subseteq Photos /\ ToSet(catalogue) \subseteq Photos
  /\ walk.phase \in {"idle", "albums", "members", "complete"} /\ capture.page \in Nat
  /\ changes \in 0..MaxChanges /\ captures \in 0..MaxCaptures /\ walks \in 0..MaxWalks

(* However photos and albums move between the pages that are read, nothing  *)
(* is listed twice (inventory's merge, the checkpoint's comparison).        *)
ListedOnce ==
  /\ IsInjective(migration.photos) /\ IsInjective(IdsOf(walk.albums))
  /\ \A i \in DOMAIN walk.albums : IsInjective(walk.albums[i].photos)

(* What was read while Flickr rested is what is there, in its order: the     *)
(* catalogue once its last page is in, the albums once the walk completed.   *)
QuietReadExact ==
  /\ capture.page = 0 /\ capture.quiet /\ captures > 0
       => migration.photos = catalogue /\ \A p \in ToSet(catalogue) : migration.hash[p] = description[p]
  /\ walk.phase = "complete" /\ walk.quiet => walk.albums = albums

(* A catalogue taken in one call forgets no publication: one whose photo is  *)
(* gone is missing, one whose photo changed since it was last seen is told   *)
(* apart (inventory without a cursor).                                       *)
NothingForgotten ==
  migration' # migration /\ capture.page = 1 /\ capture'.page = 0 =>
    \A p \in Photos : migration.publications[p] # Unknown =>
      migration'.publications[p] = IF ~Contains(catalogue, p) THEN "MISSING"
                                   ELSE IF Contains(migration.photos, p) /\ description[p] # migration.hash[p] THEN "REMOTE_CHANGED" ELSE "ACTIVE"
=============================================================================
