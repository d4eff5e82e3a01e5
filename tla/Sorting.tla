------------------------------- MODULE Sorting -------------------------------
(***************************************************************************)
(* What the code's sorts yield, by rank and not by a way of sorting: a     *)
(* member's place is how many come before it.                              *)
(***************************************************************************)
EXTENDS Naturals, FiniteSets

\* The members of a finite set in the order `before` (a set of pairs) puts them.
Ranked(S, before) ==
    [k \in 1..Cardinality(S) |->
        CHOOSE x \in S : Cardinality({y \in S : <<y, x>> \in before}) = k - 1]

\* Numbers rising.
InOrder(S) == Ranked(S, {p \in S \X S : p[1] < p[2]})

\* What a sequence holds at some places, in its order.
Taken(s, places) ==
    LET at == InOrder(places)
    IN  [k \in DOMAIN at |-> s[at[k]]]
=============================================================================
