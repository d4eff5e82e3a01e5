----------------------------- MODULE MCReviewer -----------------------------
EXTENDS Reviewer

R(start, count) == [start |-> start, count |-> count]
H(f, c, o, n) == [file |-> f, class |-> c, old |-> o, new |-> n]

\* Two files with a line added to each, in one group: the second's is folded away.
TwoPaths == << <<"a">>, <<"b">> >>
TwoLengths == << [old |-> 0, new |-> 1], [old |-> 0, new |-> 1] >>
TwoHunks == << H(1, "x", R(0, 0), R(1, 1)), H(2, "x", R(0, 0), R(1, 1)) >>
OneGroup == << [effort |-> "skim", classes |-> {"x"}] >>

\* The new line of the first file uses what the second declares.
OneUse == (<<1, 1>> :> << <<2, 1>> >>)

\* A settled thread: the reader's own comment, and the answer to it.
At(f) == [file |-> f, side |-> "new", line |-> 1, end_line |-> 1, hunk |-> f]
OneThread == << [id |-> 8, at |-> At(1), resolved |-> TRUE, comments |-> <<8, 9>>, notes |-> {}, mine |-> {8}] >>

\* Bound: a selection, a float or a place to go back to is kept alone, with no box open,
\* no call out and no settled thread opened; help is read while no call is out,
\* and a box is opened with the diff in focus.
Apart ==
  /\ mode.kind = "help" => Ready
  /\ mode = Normal \/ Detail
  /\ Len(visual) + Len(peek) + Len(jumps)
       <= IF mode = Normal /\ Ready /\ pane.opened = {} THEN 1 ELSE 0
=============================================================================
