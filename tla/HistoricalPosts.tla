--------------------------- MODULE HistoricalPosts ---------------------------
(***************************************************************************)
(* A post of Tumblr, Discord or DeviantArt turned into the bounded         *)
(* snapshot the core accepts (historical-posts.ts): its parts are taken in  *)
(* order, each may leave several blocks, one or none, and a row of the      *)
(* source's layout is told in the numbers of the blocks that came out.      *)
(***************************************************************************)
EXTENDS Naturals, Sequences, FiniteSets, SequencesExt

CONSTANTS Provider,         \* "tumblr", "discord" or "deviantart"
          Parts,            \* what a post can consist of
          TrailLengths,     \* parts that come before the post's own: those it reblogs
          Rows,             \* rows of the source's layout: sequences of part numbers from 0
          MaxParts, Limit, AttachmentLimit

VARIABLES source,   \* the parts taken so far, the length of the trail, whether it is public
          blocks, attachments, links, reasons,
          mapped,   \* per part: the number of blocks there were before it
          result    \* the layout and the completeness, once the post is done

postVars == <<source, blocks, attachments, links, reasons, mapped, result>>

None == [done |-> FALSE]
Built == [blocks |-> blocks, attachments |-> attachments, links |-> links, reasons |-> reasons]

\* The builder: everything is added in order and within the bounds of a snapshot.
Put(b, kind, id, n) ==
  IF Len(b.blocks) < Limit THEN [b EXCEPT !.blocks = Append(@, [kind |-> kind, id |-> id, part |-> n])] ELSE b
Unsupported(b, reason, n) == Put([b EXCEPT !.reasons = @ \cup {reason}], "unsupported", "none", n)
AddText(b, present, n) == IF present THEN Put(b, "text", "none", n) ELSE b
AddLink(b, id, url, n) ==
  IF url = "good" /\ Cardinality(b.links) < Limit /\ Len(b.blocks) < Limit
  THEN Put([b EXCEPT !.links = @ \cup {id}], "link", id, n) ELSE b
Media_Repeated(b, id, url, n) ==
  IF url # "good" \/ Len(b.attachments) >= AttachmentLimit THEN Unsupported(b, "attachment_unavailable_or_limit", n)
  ELSE Put([b EXCEPT !.attachments = Append(@, id)], "attachment", id, n)
Media(b, id, url, n) ==
  IF url # "good" \/ Len(b.attachments) >= AttachmentLimit THEN Unsupported(b, "attachment_unavailable_or_limit", n)
  ELSE IF id \in Range(b.attachments) THEN b
  ELSE Put([b EXCEPT !.attachments = Append(@, id)], "attachment", id, n)
Noted(b, reason) == [b EXCEPT !.reasons = @ \cup {reason}]

\* What a part of a post adds.  A part has an identity, an address, maybe words and a picture.
Adds(b, p, n) ==
  LET told == AddLink(AddText(b, p.words, n), p.id, p.url, n)
  IN CASE p.type = "text" -> AddText(b, p.words, n)
       [] p.type = "image" -> Media(b, p.id, p.url, n)
       \* Audio and video that are hosted elsewhere are named.
       [] p.type = "player" ->
            Noted(IF p.url = "none" THEN Unsupported(told, "source_content_retained", n) ELSE told,
                  "external_media_reference_retained")
       \* A link with its poster, an embed, a component, a sticker.
       [] p.type \in {"card", "component"} -> IF p.picture THEN Media(told, p.id, "good", n) ELSE told
       [] p.type = "other" -> Unsupported(told, "source_content_retained", n)
       [] p.type = "forward" -> Unsupported(b, "forwarded_content_not_archived", n)
       [] p.type = "hidden" -> Noted(b, "message_content_access_required")

\* The order in which Discord's normalizer goes through a message.
Stages == <<"text", "image", "card", "other", "component", "forward", "hidden">>
InOrder(p) ==
  Provider = "discord" => \A i \in DOMAIN source.parts :
    \A k \in DOMAIN Stages : source.parts[i].type = Stages[k] => p.type \in {Stages[j] : j \in k..Len(Stages)}

PostInit ==
  /\ \E t \in TrailLengths : source = [parts |-> <<>>, trail |-> t]
  /\ blocks = <<>> /\ attachments = <<>> /\ links = {} /\ reasons = {}
  /\ mapped = <<>> /\ result = None

\* The part after the last; those beyond the bound are left alone.
Take ==
  /\ ~result.done /\ Len(source.parts) < MaxParts
  /\ \E p \in Parts :
       /\ InOrder(p)
       /\ LET n == Len(source.parts) + 1
              b == IF n > Limit THEN Built ELSE Adds(Built, p, n)
          IN /\ blocks' = b.blocks /\ attachments' = b.attachments /\ links' = b.links /\ reasons' = b.reasons
             /\ mapped' = IF n > Limit THEN mapped ELSE Append(mapped, Len(blocks))
             /\ source' = [source EXCEPT !.parts = Append(@, p)]
  /\ UNCHANGED result

\* A row names the post's own parts: those of the trail come first.
Named_Untrailed(row) == SelectSeq(row, LAMBDA k : k < Len(mapped))
Named(row) ==
  LET known == SelectSeq(row, LAMBDA k : k + source.trail < Len(mapped))
  IN [i \in DOMAIN known |-> known[i] + source.trail]
Indexes(row) ==
  SelectSeq([i \in DOMAIN Named(row) |-> mapped[Named(row)[i] + 1]], LAMBDA k : k < Len(blocks))
\* What remains to be said at the end: parts beyond the bound, components that showed nothing.
Ended ==
  IF Len(source.parts) > Limit THEN Unsupported(Built, "block_limit", 0)
  ELSE IF blocks = <<>> /\ \E i \in DOMAIN source.parts : source.parts[i].type = "component"
       THEN Unsupported(Built, "source_content_retained", 0) ELSE Built
Benign_Limits == {"source_content_retained", "external_media_reference_retained", "attachment_unavailable_or_limit"}
Benign == {"source_content_retained", "external_media_reference_retained"}
Completeness(b, public) ==
  IF ~public \/ "message_content_access_required" \in b.reasons THEN "unavailable"
  ELSE IF b.blocks = <<>> THEN "metadata_only"
  ELSE IF b.reasons \subseteq Benign THEN "full" ELSE "partial"

Finish ==
  /\ ~result.done /\ Len(source.parts) >= source.trail
  /\ \E row \in Rows, public \in BOOLEAN :
       result' = [done |-> TRUE, row |-> row, layout |-> Indexes(row), completeness |-> Completeness(Ended, public)]
  /\ blocks' = Ended.blocks /\ reasons' = Ended.reasons
  /\ UNCHANGED <<source, attachments, links, mapped>>

PostNext == Take \/ Finish
PostSpec == PostInit /\ [][PostNext]_postVars

-----------------------------------------------------------------------------
PostTypeOK ==
  /\ source.parts \in Seq(Parts) /\ source.trail \in TrailLengths
  /\ Len(blocks) <= Limit /\ Len(attachments) <= AttachmentLimit
  /\ \A i \in DOMAIN mapped : mapped[i] \in 0..Len(blocks)
  /\ result.done => result.completeness \in {"unavailable", "metadata_only", "partial", "full"}

From(n) == {i \in DOMAIN blocks : blocks[i].part = n}
OwnParts == {result.row[i] + source.trail + 1 : i \in {j \in DOMAIN result.row :
               result.row[j] + source.trail < Len(mapped)}}

\* A row of the layout holds the first block of every part it names that left one, in the
\* row's order, and nothing else, except that a part that left nothing is taken for the one
\* that left the next block (normalizeTumblrHistoricalPost: mappedIndexes).
RowsKeepTheirParts ==
  result.done =>
    /\ \A n \in OwnParts : From(n) # {} =>
         \E i \in DOMAIN result.layout : /\ blocks[result.layout[i] + 1].part = n
                                         /\ \A j \in From(n) : result.layout[i] + 1 <= j
    /\ \A i \in DOMAIN result.layout :
         LET n == blocks[result.layout[i] + 1].part
         IN n \in OwnParts \/ \E m \in OwnParts : m < n /\ \A k \in m..(n - 1) : From(k) = {}

\* Whatever the provider sends, what comes out passes the core's validation: attachments
\* have distinct ids, blocks refer to attachments of the snapshot, rows to its blocks
\* (validateHistoricalSnapshot).
SnapshotValid ==
  /\ \A i, j \in DOMAIN attachments : attachments[i] = attachments[j] => i = j
  /\ \A i \in DOMAIN blocks : blocks[i].kind = "attachment" => blocks[i].id \in Range(attachments)
  /\ result.done => \A i \in DOMAIN result.layout : result.layout[i] < Len(blocks)

\* A post is called full only if its pictures are attached and what it says or links to has
\* left a block, or the snapshot has run into its bound (docs: "Unsupported/truncated
\* content is partial").
FullMeansWhole ==
  result.done /\ result.completeness = "full" /\ Len(blocks) < Limit =>
    \A n \in DOMAIN source.parts :
      LET p == source.parts[n] IN
      /\ p.type = "image" \/ p.picture => p.id \in Range(attachments)
      /\ p.type # "image" /\ (p.words \/ p.url = "good") => From(n) # {}
      /\ p.type \notin {"forward", "hidden"}
=============================================================================
