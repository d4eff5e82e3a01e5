----------------------------- MODULE RequestLines -----------------------------
(***************************************************************************)
(* Where a line of the review is on the request's page, and back           *)
(* (engine/src/forge.rs, the positions of forgeio.rs).                     *)
(*                                                                         *)
(* The request shows the change under review (module Rebuild), so both     *)
(* sides hold the same lines; what differs is how a line is named.  The    *)
(* plan keeps git's numbers of a hunk, the forge wants one number of a     *)
(* changed line and on GitLab both numbers of an unchanged one, and a      *)
(* thread comes back with the numbers the forge kept.  A file without      *)
(* text hunks has no lines to comment on.  Left out: paths, and the sha a  *)
(* line code is made of, which no answer brings back.                      *)
(***************************************************************************)
EXTENDS Rebuild, Integers

CONSTANT RequestContext    \* lines of context a request's diff shows around a hunk

ASSUME ContextAssumption == RequestContext \in Nat

Side == {"old", "new"}
Other(side) == IF side = "old" THEN "new" ELSE "old"
None == 0

(***************************************************************************)
(* The file's hunks, each under the run it is made of, in the numbers git  *)
(* gives them: a side with no lines is named by the line before it.        *)
(***************************************************************************)
NewBefore(runs, k) == Len(FlattenSeq([j \in 1..(k - 1) |-> runs[j].added \o runs[j].kept]))
EntryOf(runs, k) ==
    LET after == [old |-> runs[k].after, new |-> NewBefore(runs, k)]
        text == [old |-> runs[k].removed, new |-> runs[k].added]
    IN  [start |-> [s \in Side |-> IF text[s] = <<>> THEN after[s] ELSE after[s] + 1],
         count |-> [s \in Side |-> Len(text[s])], text |-> text]
HunkEntries(runs) == [k \in {k \in DOMAIN runs : IsHunk(runs[k])} |-> EntryOf(runs, k)]

From(h, side) == IF h.start[side] = 0 THEN 1 ELSE h.start[side]
Holds(h, side, line) == line >= From(h, side) /\ line < From(h, side) + h.count[side]
TextAt(h, side, line) == IF Holds(h, side, line) THEN {h.text[side][line - From(h, side) + 1].text} ELSE {}

(***************************************************************************)
(* What goes up.                                                           *)
(***************************************************************************)
\* The hunk whose end carries the shift of the lines after it.
Above(hs, side, line) == {k \in DOMAIN hs : From(hs[k], side) + hs[k].count[side] <= line}
Governs(hs, side, line, k) ==
    /\ k \in Above(hs, side, line)
    /\ \A j \in Above(hs, side, line) : From(hs[j], side) <= From(hs[k], side)

OtherSideLine(hs, side, line) ==
    IF \E k \in DOMAIN hs : Holds(hs[k], side, line) THEN None
    ELSE IF Above(hs, side, line) = {} THEN line
    ELSE LET h == hs[CHOOSE k \in DOMAIN hs : Governs(hs, side, line, k)]
         IN  line + (From(h, Other(side)) + h.count[Other(side)]) - (From(h, side) + h.count[side])

\* Mutant: one line further down than the diff shows.
InRequestDiff_far(hs, a) ==
    \E k \in DOMAIN hs :
        LET s == From(hs[k], a.side)
        IN  a.line >= s - RequestContext /\ a.end_line <= s + hs[k].count[a.side] + RequestContext

InRequestDiff(hs, a) ==
    \E k \in DOMAIN hs :
        LET s == From(hs[k], a.side)
        IN  a.line >= s - RequestContext /\ a.end_line <= s + hs[k].count[a.side] - 1 + RequestContext

\* One end of a range: the numbers that are real.
LineEnd(hs, side, line) ==
    LET other == OtherSideLine(hs, side, line)
    IN  [s \in Side |-> IF s = side THEN line ELSE other]

\* A comment's position: the numbers of its last line and, of a range, both ends.
NewComment(hs, a) ==
    [side |-> a.side, line |-> a.end_line,
     start_line |-> IF a.end_line > a.line THEN a.line ELSE None,
     other_line |-> OtherSideLine(hs, a.side, a.end_line),
     span |-> IF a.end_line > a.line
              THEN {[start |-> LineEnd(hs, a.side, a.line), end |-> LineEnd(hs, a.side, a.end_line)]}
              ELSE {}]

(***************************************************************************)
(* What comes back.  GitHub keeps side and line, and the text it had there;*)
(* GitLab keeps the numbers it was given, and no text.                     *)
(***************************************************************************)
ReviewBody(c) == [side |-> c.side, line |-> c.line, start_line |-> c.start_line]
DraftNotePosition(c) ==
    [line |-> [s \in Side |-> IF s = c.side THEN c.line ELSE c.other_line], span |-> c.span]

\* `text` is what the diff hunk ends with; a thread whose line left the diff has only that.
ParseGhThread(sent, text, outdated) ==
    [side |-> sent.side, line |-> IF outdated THEN None ELSE sent.line,
     start_line |-> IF outdated THEN None ELSE sent.start_line, text |-> {text}]
ParseDiscussion(pos) ==
    LET side == IF pos.line["new"] # None THEN "new" ELSE "old"
        starts == {span.start[side] : span \in pos.span}
    IN  [side |-> side, line |-> pos.line[side],
         start_line |-> IF \E s \in starts : s < pos.line[side] THEN CHOOSE s \in starts : TRUE ELSE None,
         text |-> {}]

(***************************************************************************)
(* Where a thread is shown: at its line, else at its text, else nowhere.   *)
(***************************************************************************)
Distance(h, side, line) ==
    LET s == From(h, side)
        end == s + (IF h.count[side] = 0 THEN 1 ELSE h.count[side]) - 1
    IN  IF line < s THEN s - line ELSE IF line > end THEN line - end ELSE 0
Nearest(hs, side, line) ==
    CHOOSE k \in DOMAIN hs :
        /\ \A j \in DOMAIN hs : Distance(hs[k], side, line) <= Distance(hs[j], side, line)
        /\ \A j \in DOMAIN hs : j < k => Distance(hs[k], side, line) < Distance(hs[j], side, line)
AnchorAt(side, first, last, h, k, texts) ==
    [side |-> side, line |-> first, end_line |-> last, offset |-> first - From(h, side), hunk |-> k,
     line_text |-> texts[1], end_line_text |-> texts[2]]
Nowhere == [hunk |-> None]

\* Mutant: the hunk nearest by its old numbers, whichever side the thread is on.
PlaceAtLine_old(hs, t) ==
    LET first == IF t.start_line = None \/ t.start_line > t.line THEN t.line ELSE t.start_line
        k == Nearest(hs, "old", t.line)
        Said(line) == TextAt(hs[k], t.side, line)
        end == IF Said(t.line) # {} THEN Said(t.line) ELSE t.text
    IN  AnchorAt(t.side, first, t.line, hs[k], k, <<IF first = t.line THEN end ELSE Said(first), end>>)

PlaceAtLine(hs, t) ==
    LET first == IF t.start_line = None \/ t.start_line > t.line THEN t.line ELSE t.start_line
        k == IF \E j \in DOMAIN hs : Holds(hs[j], t.side, t.line)
             THEN Min({j \in DOMAIN hs : Holds(hs[j], t.side, t.line)})
             ELSE Nearest(hs, t.side, t.line)
        Said(line) == TextAt(hs[k], t.side, line)
        end == IF Said(t.line) # {} THEN Said(t.line) ELSE t.text
    IN  AnchorAt(t.side, first, t.line, hs[k], k, <<IF first = t.line THEN end ELSE Said(first), end>>)

Says(h, side, text) == \E i \in DOMAIN h.text[side] : {h.text[side][i].text} = text
PlaceAtText(hs, t) ==
    IF t.text \in {{}, {Blank}} \/ \A k \in DOMAIN hs : \A s \in Side : ~Says(hs[k], s, t.text) THEN Nowhere
    ELSE LET k == Min({j \in DOMAIN hs : \E s \in Side : Says(hs[j], s, t.text)})
             side == IF Says(hs[k], t.side, t.text) THEN t.side ELSE Other(t.side)
             line == From(hs[k], side) - 1 + Min({i \in DOMAIN hs[k].text[side] : {hs[k].text[side][i].text} = t.text})
         IN  AnchorAt(side, line, line, hs[k], k, <<t.text, t.text>>)

Place(hs, t) == IF DOMAIN hs = {} THEN Nowhere ELSE IF t.line # None THEN PlaceAtLine(hs, t) ELSE PlaceAtText(hs, t)

(***************************************************************************)
(* The diff itself, line by line, from the runs and not from the numbers   *)
(* kept of them.                                                           *)
(***************************************************************************)
RunInDiff(runs, k) ==
    LET before == [old |-> runs[k].after, new |-> NewBefore(runs, k)]
        r == Len(runs[k].removed)
        a == Len(runs[k].added)
    IN  [i \in 1..r |-> [old |-> before["old"] + i, new |-> None, text |-> runs[k].removed[i].text]]
        \o [i \in 1..a |-> [old |-> None, new |-> before["new"] + i, text |-> runs[k].added[i].text]]
        \o [i \in DOMAIN runs[k].kept |-> [old |-> before["old"] + r + 1, new |-> before["new"] + a + 1,
                                           text |-> runs[k].kept[i].text]]
DiffLines(runs) == FlattenSeq([k \in DOMAIN runs |-> RunInDiff(runs, k)])
Index(diff, side, line) == CHOOSE i \in DOMAIN diff : diff[i][side] = line
Changed(l) == None \in {l.old, l.new}

\* The lines the request's page shows, and the stretches they come in.
Displayed(diff, i) == \E j \in DOMAIN diff : Changed(diff[j]) /\ i - j <= RequestContext /\ j - i <= RequestContext
TogetherOnPage(diff, i, j) == \A k \in i..j : Displayed(diff, k)

\* What a reader may write a note on: one line or a range of one side's lines.
Notes(diff) ==
    LET Numbers(s) == {diff[i][s] : i \in DOMAIN diff} \ {None}
    IN  UNION {{[side |-> s, line |-> n[1], end_line |-> n[2]] :
                   n \in {m \in Numbers(s) \X Numbers(s) : m[1] <= m[2]}} : s \in Side}

\* The texts the request shows, once, when the run begins.
InReview ==
    {change[p] : p \in {q \in Path : /\ stage = "check" /\ IsText(change[q].base) /\ IsText(change[q].head)
                                     /\ ~TypeChange(change[q])}}

\* A hunk with nothing on one side is named there by the line before it, which
\* the arithmetic takes for its first line, except at the top of a file.
OneSided(h) == \E s \in Side : h.count[s] = 0 /\ h.start[s] # 0
OffByOne(hs, side, line) ==
    \E k \in DOMAIN hs : Governs(hs, side, line, k) /\ OneSided(hs[k])

(***************************************************************************)
(* Properties.                                                             *)
(***************************************************************************)
\* An unchanged line's two numbers, which GitLab is given, are of one line of
\* the diff.  (forge.rs, other_side_line: "the number an unchanged line has on
\* the other side"; spec/forge.md.)
BothNumbersAreOneLine ==
    \A c \in InReview :
        \A hs \in {HunkEntries(c.runs)}, diff \in {DiffLines(c.runs)} :
            \A l \in ToSet(diff) : ~Changed(l) =>
                \A s \in Side : OtherSideLine(hs, s, l[s]) = l[Other(s)]

\* Shown at a changed line that still says what it said; counted only if there is none.
FoundByText(hs, diff, thread) ==
    LET a == Place(hs, thread)
        said == {i \in DOMAIN diff : Changed(diff[i]) /\ {diff[i].text} = thread.text}
    IN  IF said = {} THEN a = Nowhere ELSE Index(diff, a.side, a.line) \in said

\* A note that went to a request comes back to its own line: on GitHub to the
\* same numbers, on GitLab to a line of the diff that is the same one, as long
\* as no hunk with an empty side carries its shift; a range comes back with its
\* first line or without it, never with another; and the text and offset kept
\* with it, which the next plan matches by, are those of the line it is at.  Once
\* the line has left the diff the text alone decides.
ComesBackToItsLine ==
    \A c \in InReview :
        \A hs \in {HunkEntries(c.runs)}, diff \in {DiffLines(c.runs)} : \A n \in Notes(diff) :
            LET sent == NewComment(hs, n)
                last == Index(diff, n.side, n.end_line)
                github == Place(hs, ParseGhThread(ReviewBody(sent), diff[last].text, FALSE))
                gitlab == Place(hs, ParseDiscussion(DraftNotePosition(sent)))
                Truthful(a) ==
                    \A at \in {<<a.line, a.line_text>>, <<a.end_line, a.end_line_text>>} :
                        LET i == Index(diff, a.side, at[1])
                        IN  at[2] \subseteq {diff[i].text} /\ (Changed(diff[i]) /\ a.line = a.end_line => at[2] # {})
                Held(a) ==
                    /\ a.line = From(hs[a.hunk], a.side) + a.offset
                    /\ Changed(diff[Index(diff, a.side, a.end_line)]) => Holds(hs[a.hunk], a.side, a.end_line)
            IN  DOMAIN hs # {} =>
                /\ <<github.side, github.line, github.end_line>> = <<n.side, n.line, n.end_line>>
                /\ Truthful(github) /\ Held(github)
                /\ (\A line \in {n.line, n.end_line} : ~OffByOne(hs, n.side, line)) =>
                    /\ Index(diff, gitlab.side, gitlab.end_line) = last
                    /\ gitlab.line \in {gitlab.end_line, diff[Index(diff, n.side, n.line)][gitlab.side]}
                    /\ Truthful(gitlab) /\ Held(gitlab)
                /\ diff[last].text # Blank =>
                    FoundByText(hs, diff, ParseGhThread(ReviewBody(sent), diff[last].text, TRUE))

\* What the check of a publish lets through is on the page GitHub resolves
\* lines against, both ends in one stretch of it: one comment it cannot place
\* fails the whole review.  A hunk with no line on the note's side is counted
\* from the line before it, so only the others are held to this; a single line
\* they bring onto the page is not turned down.
SentIsOnThePage ==
    \A c \in InReview :
        \A hs \in {HunkEntries(c.runs)}, diff \in {DiffLines(c.runs)} : \A n \in Notes(diff) :
            LET plain == [k \in {k \in DOMAIN hs : hs[k].count[n.side] > 0 \/ hs[k].start[n.side] = 0} |-> hs[k]]
                first == Index(diff, n.side, n.line)
                last == Index(diff, n.side, n.end_line)
            IN  /\ InRequestDiff(plain, n) => TogetherOnPage(diff, first, last)
                /\ plain = hs /\ first = last /\ Displayed(diff, first) => InRequestDiff(hs, n)
=============================================================================
