------------------------------- MODULE Window -------------------------------
(***************************************************************************)
(* Which lines of a file the diff pane shows around its hunks              *)
(* (crates/tui/src/window.rs).                                             *)
(*                                                                         *)
(* A file is its hunks, in order, and the gaps around them.  A window      *)
(* stops at the neighbouring hunk until it is told to cross it.            *)
(***************************************************************************)
EXTENDS Integers, Sequences, FiniteSetsExt, SequencesExt

CONSTANT Context  \* lines shown either side of a hunk before any expansion

ASSUME WindowAssumption == Context \in Nat

Sides == {"old", "new"}

\* The default `Expansion`.
AsItIs == [up |-> 0, down |-> 0, crossed_up |-> 0, crossed_down |-> 0]

(* A file f is [order, gap, listed, grown]: its hunks in order, the gaps      *)
(* around them, the hunks this view lists, and how far each has been pulled  *)
(* open.  A hunk's lines on a side are a range as git writes it, [start,     *)
(* count].                                                                   *)

\* `cut`: the end of the unchanged run before a change.
AboveEnd(range) == IF range.count = 0 THEN range.start + 1 ELSE range.start

\* Mutant: below an empty side taken as below a full one.
BelowStart_full(range) == range.start + range.count

BelowStart(range) == AboveEnd(range) + range.count

\* `saturating_sub`
Less(n, m) == Max({n - m, 0})

\* `avail_up`, `avail_down`: the lines of a gap, the k-th after k hunks.  Both sides
\* must have them.
GapsOf(hunks, len) ==
  [k \in 0 .. Len(hunks) |->
     Min({Less(IF k = Len(hunks) THEN len[s] + 1 ELSE AboveEnd(hunks[k + 1][s]),
               IF k = 0 THEN 1 ELSE BelowStart(hunks[k][s])) : s \in Sides})]

\* Context beyond a span's ends, clamped to the gap that is there.
ReachUp(f, owner, lo) == Min({Context + f.grown[f.order[owner]].up, f.gap[lo - 1]})
ReachDown(f, owner, hi) == Min({Context + f.grown[f.order[owner]].down, f.gap[hi]})

\* The hunks a shown hunk covers, and whose expansion governs each end.
SpanOf(f, k) ==
  [lo |-> Max({1, k - f.grown[f.order[k]].crossed_up}), up |-> k,
   hi |-> Min({k + f.grown[f.order[k]].crossed_down, Len(f.order)}), down |-> k]

\* They overlap, or are adjacent and their reaches cover the gap between.
Joins(f, s, t) ==
  \/ t.lo <= s.hi
  \/ /\ t.lo = s.hi + 1
     /\ ReachDown(f, s.down, s.hi) + ReachUp(f, t.up, t.lo) >= f.gap[s.hi]

\* Both ends are widened.
Joined(s, t) ==
  [lo |-> Min({s.lo, t.lo}), up   |-> IF t.lo < s.lo THEN t.up ELSE s.up,
   hi |-> Max({s.hi, t.hi}), down |-> IF t.hi > s.hi THEN t.down ELSE s.down]

\* Only the last span is ever joined.
Spans(f) ==
  LET Add(spans, t) ==
        IF spans # <<>> /\ Joins(f, Last(spans), t)
        THEN Append(Front(spans), Joined(Last(spans), t)) ELSE Append(spans, t)
      upto[k \in 0 .. Len(f.order)] ==
        IF k = 0 THEN <<>>
        ELSE IF f.order[k] \in f.listed THEN Add(upto[k - 1], SpanOf(f, k)) ELSE upto[k - 1]
  IN  upto[Len(f.order)]

\* Mutant: an edge with no lines left offers nothing.
Edge_spent(f, side, owner, hidden, gap, beyond) ==
  IF hidden = 0 THEN <<>>
  ELSE << [hunk |-> f.order[owner], side |-> side, hidden |-> hidden, gap |-> gap,
           next |-> {}] >>

\* A `Boundary`, if there is one: an edge with lines left offers them, an edge
\* with none the hunk beyond, and at the file's edge there is nothing.
Edge(f, side, owner, hidden, gap, beyond) ==
  IF hidden = 0 /\ beyond \notin DOMAIN f.order THEN <<>>
  ELSE << [hunk |-> f.order[owner], side |-> side, hidden |-> hidden, gap |-> gap,
           next |-> IF hidden = 0 THEN {f.order[beyond]} ELSE {}] >>

\* A `Block`: the span, the context past each end, and the boundaries there.
BlockOf(f, s) ==
  LET up   == ReachUp(f, s.up, s.lo)
      down == ReachDown(f, s.down, s.hi)
  IN  [lo |-> s.lo, hi |-> s.hi, up |-> up, down |-> down,
       top    |-> Edge(f, "up", s.up, f.gap[s.lo - 1] - up, f.gap[s.lo - 1], s.lo - 1),
       bottom |-> Edge(f, "down", s.down, f.gap[s.hi] - down, f.gap[s.hi], s.hi + 1)]

\* What is left of the gap two adjacent blocks face each other over.
Shared(above, below) ==
  IF above.hi + 1 = below.lo /\ above.bottom # <<>> /\ below.top # <<>>
  THEN {Less(above.bottom[1].hidden + below.top[1].hidden, above.bottom[1].gap)}
  ELSE {}

\* `plan`: a block for each span; two ends of one gap report one remainder.
Blocks(f) ==
  LET spans == Spans(f)
      alone == [n \in DOMAIN spans |-> BlockOf(f, spans[n])]
      Count(edge, left) == IF left = {} THEN edge ELSE <<[edge[1] EXCEPT !.hidden = Max(left)]>>
  IN  [n \in DOMAIN alone |->
        [alone[n] EXCEPT
          !.top    = Count(@, IF n = 1 THEN {} ELSE Shared(alone[n - 1], alone[n])),
          !.bottom = Count(@, IF n = Len(alone) THEN {} ELSE Shared(alone[n], alone[n + 1]))]]

=============================================================================
