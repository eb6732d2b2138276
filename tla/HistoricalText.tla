---------------------------- MODULE HistoricalText ----------------------------
(***************************************************************************)
(* The formatting of an imported text.  Legacy HTML is read tag by tag into *)
(* a text and spans over it (legacyFormattedText), then addresses in the    *)
(* text are replaced by their public form, of another length, and the spans *)
(* are moved along (addText in builder).  A character is known by the marks *)
(* that were open when it was read.                                         *)
(***************************************************************************)
EXTENDS Integers, Sequences, FiniteSets, SequencesExt

CONSTANTS Tags,       \* inline tags: each gives its span
          Sizes,      \* <<length, length of the public form>> of an address
          MaxTokens

VARIABLES tokens,     \* how many tokens were read
          text,       \* the characters: what each is and the marks over it
          open, spans, \* marks not yet closed, and spans: [tag, mark, start, end]
          result      \* the text and the spans that reach the snapshot

textVars == <<tokens, text, open, spans, result>>

Chars(kind, n, size) == [i \in 1..n |-> [kind |-> kind, first |-> i = 1, size |-> size, last |-> i = n,
                                         under |-> {open[j].mark : j \in DOMAIN open}]]
Newline == Chars("newline", 1, 1)
EndsAddress(t) == t # <<>> /\ Last(t).kind = "link"
EndsLine(t) == t = <<>> \/ Last(t).kind = "newline"

TextInit == tokens = 0 /\ text = <<>> /\ open = <<>> /\ spans = <<>> /\ result = [done |-> FALSE]

Reads == ~result.done /\ tokens < MaxTokens /\ tokens' = tokens + 1 /\ UNCHANGED result
Blank == Reads /\ text' = text \o Chars("plain", 1, 1) /\ UNCHANGED <<open, spans>>
\* An address goes on to the next blank, so it does not follow another.
Address == Reads /\ ~EndsAddress(text) /\ (\E s \in Sizes : text' = text \o Chars("link", s[1], s[2])) /\ UNCHANGED <<open, spans>>
Break == Reads /\ text' = text \o Newline /\ UNCHANGED <<open, spans>>
\* A paragraph, a list item or a heading begins or ends.
Block == Reads /\ text' = (IF EndsLine(text) THEN text ELSE text \o Newline) /\ UNCHANGED <<open, spans>>
OpenTag == /\ Reads /\ \E t \in Tags : open' = Append(open, [tag |-> t, mark |-> tokens, start |-> Len(text)])
           /\ UNCHANGED <<text, spans>>
\* The last mark of the tag is closed; a mark over nothing gives no span.
Innermost(at) == Max(at)
Spanned(marks) ==
  LET wide == SelectSeq(marks, LAMBDA m : Len(text) > m.start)
  IN [i \in DOMAIN wide |-> [tag |-> wide[i].tag, mark |-> wide[i].mark, start |-> wide[i].start, end |-> Len(text)]]
CloseTag ==
  /\ Reads
  /\ \E t \in Tags :
       LET at == {i \in DOMAIN open : open[i].tag = t}
       IN IF at = {} THEN UNCHANGED <<open, spans>>
          ELSE /\ open' = RemoveAt(open, Innermost(at))
               /\ spans' = spans \o Spanned(<<open[Innermost(at)]>>)
  /\ UNCHANGED text

-----------------------------------------------------------------------------
\* Line ends at the end of the text are cut off.
Trimmed(t) == SubSeq(t, 1, Max({0} \cup {i \in DOMAIN t : t[i].kind # "newline"}))
\* Every address: where it is in the text and the length of its public form.
EditsOf(t) ==
  LET starts == SetToSortSeq({i \in DOMAIN t : t[i].kind = "link" /\ t[i].first}, <)
      ends == SetToSortSeq({i \in DOMAIN t : t[i].kind = "link" /\ t[i].last}, <)
  IN [k \in DOMAIN starts |-> [start |-> starts[k] - 1, end |-> ends[k], size |-> t[starts[k]].size]]
Lesser(a, b) == IF a < b THEN a ELSE b
Shift(edits) == FoldLeft(LAMBDA s, e : s + e.size - (e.end - e.start), 0, edits)
Remap_Unmoved(edits, p) == p
Remap(edits, p) ==
  LET before == SelectSeq(edits, LAMBDA e : p >= e.end)
      within == SelectSeq(edits, LAMBDA e : p > e.start /\ p < e.end)
  IN IF within = <<>> THEN p + Shift(before)
     ELSE within[1].start + Shift(before) + Lesser(p - within[1].start, within[1].size)

\* addText: spans that do not fit the text are reported, the others follow it.
Written_Unfitting(t, all) ==
  LET edits == EditsOf(t)
  IN [done |-> TRUE, length |-> Len(t) + Shift(edits), original |-> t, reported |-> FALSE,
      formatting |-> [i \in DOMAIN all |-> [all[i] EXCEPT !.start = Remap(edits, @), !.end = Remap(edits, @)]]]
Written(t, all) ==
  LET edits == EditsOf(t)
      fits == SelectSeq(all, LAMBDA f : f.end <= Len(t))
      moved == [i \in DOMAIN fits |-> [fits[i] EXCEPT !.start = Remap(edits, fits[i].start),
                                                      !.end = Remap(edits, fits[i].end)]]
  IN [done |-> TRUE, length |-> Len(t) + Shift(edits), original |-> t,
      formatting |-> SelectSeq(moved, LAMBDA f : f.end > f.start),
      reported |-> Len(fits) < Len(all)]
\* At the end of the source marks left open reach to its end.
Finish == /\ ~result.done /\ result' = Written(Trimmed(text), spans \o Spanned(open))
          /\ UNCHANGED <<tokens, text, open, spans>>

TextNext == Blank \/ Address \/ Break \/ Block \/ OpenTag \/ CloseTag \/ Finish
TextSpec == TextInit /\ [][TextNext]_textVars

-----------------------------------------------------------------------------
TextTypeOK ==
  /\ tokens \in 0..MaxTokens
  /\ \A i \in DOMAIN open : open[i].tag \in Tags /\ open[i].start \in 0..Len(text)
  /\ \A i \in DOMAIN spans : spans[i].start < spans[i].end /\ spans[i].end <= Len(text)

\* The place of a character in the public text, counted from what stands before it.
Place(t, i) ==
  LET before == 1..(i - 1)
  IN Cardinality({j \in before : t[j].kind # "link"})
     + FoldLeft(LAMBDA n, e : IF e.end < i THEN n + e.size ELSE n, 0, EditsOf(t))

\* A character outside the addresses is formatted in the public text exactly as it was in
\* the source, however many addresses before it became longer or shorter, unless the mark
\* reached into the line ends that were cut off, which is reported (legacyFormattedText,
\* remap in addText).
FormattingFollows ==
  result.done =>
    \A i \in DOMAIN result.original :
      LET c == result.original[i]
          place == Place(result.original, i)
          over == {f.mark : f \in {g \in Range(result.formatting) : g.start <= place /\ place < g.end}}
      IN c.kind # "link" => over \subseteq c.under /\ (~result.reported => over = c.under)

\* Every span lies within the text it is stored with (validateHistoricalSnapshot refuses the
\* whole post otherwise).
SpansFit ==
  result.done => \A f \in Range(result.formatting) : 0 <= f.start /\ f.start < f.end /\ f.end <= result.length
===============================================================================
