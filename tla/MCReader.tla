------------------------------ MODULE MCReader ------------------------------
EXTENDS Reader

R(start, count) == [start |-> start, count |-> count]
H(f, c, o, n) == [file |-> f, class |-> c, old |-> o, new |-> n]

\* A file of three hunks; a file of one, a directory further down; one of none.
TwoPaths == << <<"d", "e", "a">>, <<"d", "e", "g", "b">>, <<"x">> >>
TwoLengths == << [old |-> 10, new |-> 10], [old |-> 2, new |-> 2], [old |-> 1, new |-> 1] >>

\* A replacement, a deletion, an insertion; and a replacement.
FourHunks == << H(1, "a", R(2, 1), R(2, 1)), H(1, "b", R(4, 1), R(3, 0)),
                H(1, "c", R(8, 0), R(8, 1)), H(2, "a", R(2, 1), R(2, 1)) >>

ThreeGroups == << [effort |-> "skim", classes |-> {"a", "c"}], [effort |-> "noise", classes |-> {"b"}] >>

A(f, s, line, end, h) == [file |-> f, side |-> s, line |-> line, end_line |-> end, hunk |-> h]
TwoNotes == << [id |-> 1, at |-> A(1, "new", 6, 6, 2), reply |-> 0] , [id |-> 2, at |-> A(2, "old", 2, 2, 4), reply |-> 7] >>
OneThread == << [id |-> 7, at |-> A(2, "old", 2, 2, 4), resolved |-> TRUE, comments |-> <<"c1">>, notes |-> {}] >>
============================================================================
