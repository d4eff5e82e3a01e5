------------------------------ MODULE MCRebuild ------------------------------
(***************************************************************************)
(* Instances of Rebuild: one path goes through every pair of short texts   *)
(* and every way git may align them, beside a file with one simple edit;   *)
(* and every pair of special changes, two at a time.                       *)
(***************************************************************************)
EXTENDS RequestLines

CONSTANTS A, B, p, q

MCPath == {p, q}

\* Contents of at most three lines and what follows the last newline; a blank line and a line A are enough to
\* make equal lines repeat and to end with a newline or without.
MCTexts == {<<Blank>>} \cup {t \o e : t \in [1..1 -> {Blank, A}] \cup [1..2 -> {Blank, A}] \cup [1..3 -> {Blank, A}], e \in {<<Blank>>, <<A>>}}
            \cup {<<A>>}

File(content) == [mode |-> "file", content |-> content]
Pairs(S) == {[base |-> b, head |-> h] : b \in S, h \in S} \ {[base |-> b, head |-> b] : b \in S}

TextEdits == Pairs({File(t) : t \in MCTexts})
Simple == [base |-> File(<<B, Blank>>), head |-> File(<<A, Blank>>)]

\* Additions, deletions, mode flips, binary content, links, submodules.
SpecialEntries ==
    {Absent, File(<<Blank>>), File(<<A, Blank>>), File(<<A>>), [mode |-> "exec", content |-> <<A, Blank>>],
     File(<<Nul>>), File(<<A, Nul, Blank>>), [mode |-> "link", content |-> <<B>>],
     [mode |-> "gitlink", content |-> <<A>>], [mode |-> "gitlink", content |-> <<B>>]}
SpecialEdits == Pairs(SpecialEntries)

MCEntry == {File(t) : t \in MCTexts \cup {<<B, Blank>>}} \cup (SpecialEntries \ {Absent})
MCEdits ==
    {(p :> c) @@ (q :> Simple) : c \in TextEdits}
        \cup {(p :> c) @@ (q :> d) : c \in SpecialEdits, d \in SpecialEdits}
=============================================================================
