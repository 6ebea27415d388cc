---------------------------- MODULE PlainAnswer ----------------------------
(***************************************************************************)
(* What the reader is shown of an answer while it streams in: plainAnswer  *)
(* of apps/shared/plain.js, which the page calls on the whole text at each *)
(* frame.  It cuts the passages that report a failed call out of the body, *)
(* leaves a plain sentence for each and files their text in the drawer,    *)
(* says what is left in the estate's own words, then renders headings,     *)
(* lists and paragraphs.                                                   *)
(*                                                                         *)
(* A line is its kind, and the wording inside a line is left out: what     *)
(* _cutFailures makes of it as it was written, else what _markdown makes   *)
(* of it once _dejargon is done with it.                                   *)
(***************************************************************************)
EXTENDS Naturals, Sequences, FiniteSets, SequencesExt

CONSTANT MaxLines     \* bound: lines of an answer

ASSUME MaxLinesAssumption == MaxLines \in Nat

VARIABLES lines,      \* the answer so far
          body,       \* the blocks of the pane
          technical   \* the passages in the drawer, each the numbers of its lines

plainAnswerVars == <<lines, body, technical>>

\* _startsFailure: an announcement that names the call in backticks.
Announcement == {"announce"}
\* _isFailLine: it, the bullets that detail it, the sentence that concludes from it.
FailLine == Announcement \cup {"fail bullet", "because"}
\* "code" is a line of nothing but machine text that has no plain name: code spans,
\* brackets.
Kind == FailLine \cup {"blank", "rule", "code", "heading", "item", "text"}
\* The kinds that have no words for the reader.
Wordless == {"blank", "rule", "code"}

-----------------------------------------------------------------------------
(* _cutFailures.                                                           *)

\* The first line from j on that is not blank, or the end.
Filled(ls, j) == {k \in j..Len(ls) : ls[k] # "blank"}
NextFilled(ls, j) ==
    IF Filled(ls, j) = {} THEN Len(ls) + 1
    ELSE CHOOSE k \in Filled(ls, j) : \A l \in Filled(ls, j) : k <= l
Follows(ls, k) == k <= Len(ls) /\ ls[k] \in FailLine \ Announcement

PassageGreedy(ls, from) ==    \* a bug: an announcement does not end a passage
    LET taken[j \in from..(Len(ls) + 1)] ==
          IF j <= Len(ls) /\ ls[j] \in FailLine
          THEN LET rest == taken[j + 1] IN [rest EXCEPT !.lines = <<j>> \o @]
          ELSE IF j <= Len(ls) /\ ls[j] = "blank" /\ Follows(ls, NextFilled(ls, j))
          THEN taken[NextFilled(ls, j)]
          ELSE [lines |-> <<>>, next |-> j]
    IN  taken[from]

\* The passage that begins at `from`: it goes on over fail lines, and over blank lines
\* that more of it follows, up to the next announcement.
Passage(ls, from) ==
    LET taken[j \in from..(Len(ls) + 1)] ==
          IF j <= Len(ls) /\ ls[j] \in FailLine /\ (j > from => ls[j] \notin Announcement)
          THEN LET rest == taken[j + 1] IN [rest EXCEPT !.lines = <<j>> \o @]
          ELSE IF j <= Len(ls) /\ ls[j] = "blank" /\ Follows(ls, NextFilled(ls, j))
          THEN taken[NextFilled(ls, j)]
          ELSE [lines |-> <<>>, next |-> j]
    IN  taken[from]

\* A line of the cut answer: which line it was, or the sentence for a passage.
Own(ls, i) == [kind |-> ls[i], of |-> <<i>>]
Blank == [kind |-> "blank", of |-> <<>>]
Sentence(passage) == [kind |-> "failure", of |-> passage]

CutFailures(ls) ==
    LET cut[i \in 1..(Len(ls) + 1)] ==
          IF i > Len(ls) THEN [lines |-> <<>>, technical |-> <<>>]
          ELSE IF ls[i] \notin FailLine
               THEN LET rest == cut[i + 1] IN [rest EXCEPT !.lines = <<Own(ls, i)>> \o @]
          ELSE LET passage == Passage(ls, i)
                   rest == cut[passage.next]
               IN  [lines |-> <<Blank, Sentence(passage.lines), Blank>> \o rest.lines,
                    technical |-> <<passage.lines>> \o rest.technical]
    IN  cut[1]

-----------------------------------------------------------------------------
(* _dejargon, on each line of the cut answer: of machine text nothing is left. *)

Dejargon(line) == IF line.kind = "code" THEN [line EXCEPT !.kind = "blank"] ELSE line
Dejargoned(ls) == [i \in DOMAIN ls |-> Dejargon(ls[i])]

-----------------------------------------------------------------------------
(* _markdown: a loop over the lines that holds a paragraph or a list open. *)

Closed(tag, ls) == IF ls = <<>> THEN <<>> ELSE <<[tag |-> tag, lines |-> ls]>>

\* flush().
Flush(m) == [html |-> m.html \o Closed("p", m.para) \o Closed("ul", m.list),
             para |-> <<>>, list |-> <<>>]

Render(m, line) ==
    CASE line.kind \in {"blank", "rule"} -> Flush(m)
      [] line.kind = "heading" ->
           [Flush(m) EXCEPT !.html = @ \o Closed("h", <<line>>)]
      [] line.kind = "item" ->
           [html |-> m.html \o Closed("p", m.para),
            para |-> <<>>, list |-> Append(m.list, line)]
      [] OTHER ->
           LET open == IF m.list = <<>> THEN m ELSE Flush(m)
           IN  [open EXCEPT !.para = Append(@, line)]

Nothing == [html |-> <<>>, para |-> <<>>, list |-> <<>>]

Markdown(ls) ==
    LET rendered[i \in 0..Len(ls)] ==
          IF i = 0 THEN Nothing ELSE Render(rendered[i - 1], ls[i])
    IN  Flush(rendered[Len(ls)]).html

-----------------------------------------------------------------------------
PlainAnswerInit == lines = <<>> /\ body = <<>> /\ technical = <<>>

\* Another line of the answer, and plainAnswer on all of it.
Arrive(kind) ==
    /\ Len(lines) < MaxLines
    /\ lines' = Append(lines, kind)
    /\ body' = Markdown(Dejargoned(CutFailures(lines').lines))
    /\ technical' = CutFailures(lines').technical

PlainAnswerNext == \E kind \in Kind : Arrive(kind)

PlainAnswerSpec == PlainAnswerInit /\ [][PlainAnswerNext]_plainAnswerVars

-----------------------------------------------------------------------------
PlainAnswerTypeOK ==
    /\ lines \in Seq(Kind) /\ Len(lines) <= MaxLines
    /\ \A i \in DOMAIN body : body[i].tag \in {"h", "p", "ul"} /\ body[i].lines # <<>>

\* The places in the body, from top to bottom, and the lines they show.
Place == UNION {{b} \X DOMAIN body[b].lines : b \in DOMAIN body}
Above(p, q) == p[1] < q[1] \/ (p[1] = q[1] /\ p[2] < q[2])
At(p) == body[p[1]].lines[p[2]]

\* A failure begins at an announcement, or at a detail or conclusion that stands
\* under nothing but other text: the last line above it that is not blank.
Begins(ls, i) ==
    /\ ls[i] \in FailLine
    /\ \/ ls[i] \in Announcement
       \/ \A k \in 1..(i - 1) :
            (\A l \in (k + 1)..(i - 1) : ls[l] = "blank") => ls[k] \notin FailLine

\* The drawer has the lines about failed calls, once and in order, in passages.
DrawerIsWhole ==
    /\ \A a \in DOMAIN technical : \A i, j \in DOMAIN technical[a] :
         i < j => technical[a][i] < technical[a][j]
    /\ \A a, b \in DOMAIN technical : \A i \in ToSet(technical[a]), j \in ToSet(technical[b]) :
         a < b => i < j
    /\ UNION {ToSet(technical[a]) : a \in DOMAIN technical}
         = {i \in DOMAIN lines : lines[i] \in FailLine}

\* "A step that failed is still on the page, in the reader's words in the body and in the
\* model's own words one click away", and so is the rest: every line of the answer that
\* has words for the reader is on the page once and in its place, the lines about the
\* mine in the body and those about a failed call in the drawer, at every moment of the
\* streaming, wherever lines of machine text stand between them. Each failure has a
\* sentence and a paragraph of its own: two of them back to back, merged, and "the
\* reader would have been told one step failed when two had". It is not all that the
\* comment says, "nothing is discarded": a line of machine text that is not about a
\* failed call is in neither place.
NoWordsAreDiscarded ==
    /\ DrawerIsWhole
    /\ \A p, q \in Place : Above(p, q) => At(p).of[1] < At(q).of[1]
    /\ {At(p).of[1] : p \in Place}
         = {i \in DOMAIN lines : \/ Begins(lines, i)
                               \/ lines[i] \notin FailLine \cup Wordless}
    /\ {At(p).of : p \in {p \in Place : At(p).kind = "failure"}} = ToSet(technical)
    /\ \A p \in Place : At(p).kind = "failure" =>
         body[p[1]].tag = "p" /\ Len(body[p[1]].lines) = 1
=============================================================================
