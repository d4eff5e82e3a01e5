------------------------------- MODULE MCPlan -------------------------------
(* Instances of Plan for TLC. *)
EXTENDS Plan, TLC

\* Four classes, of 2, 2, 1 and 1 hunks.
Classes == 1..4
Hunks == <<{1, 2}, {3, 4}, {5}, {6}>>
ChangeOf(pairs, noise, moved) ==
    [n |-> 4, hunks |-> Hunks, all_generated |-> noise, rename_gated |-> moved,
     depends_on |-> [c \in Classes |-> {p[2] : p \in {q \in pairs : q[1] = c}}]]
Change0 == [n |-> 0, hunks |-> <<>>, all_generated |-> {}, rename_gated |-> {}, depends_on |-> <<>>]

\* Pairs of which each subset is a graph: two short cycles and two long ones.
Pairs == {<<1, 2>>, <<2, 1>>, <<2, 3>>, <<3, 4>>, <<4, 1>>, <<1, 4>>}
Graphs == {ChangeOf(pairs, {}, {}) : pairs \in SUBSET Pairs}
Tiers == {ChangeOf({<<1, 2>>, <<2, 3>>}, {4}, {}), ChangeOf({<<2, 1>>}, {3, 4}, {2}),
          ChangeOf({}, Classes, {}), ChangeOf({<<1, 2>>, <<2, 1>>}, {4}, {1, 3}), Change0}

\* An answer puts each class in one of three groups or in none, calls some
\* groups skimmable, and may name a class twice and one that is not there.
AnswerOf(home, skim, stray) ==
    [g \in 1..3 |-> [classes |-> SelectSeq(<<1, 2, 3, 4>>, LAMBDA c : home[c] = g) \o stray[g],
                     skim |-> g \in skim]]
Exact == <<<<>>, <<>>, <<>>>>
Stray == <<<<9>>, <<1, 1>>, <<2>>>>
Homes == {h \in [Classes -> 0..3] :
            h[1] # 3 /\ h[2] # 1 /\ Cardinality({c \in Classes : h[c] = 0}) < 2}
AllAnswers == {AnswerOf(h, {}, Exact) : h \in Homes} \cup {AnswerOf(h, {2}, Stray) : h \in Homes}
Others == {AnswerOf(<<2, 3, 3, 0>>, {2}, Stray), Garbage}

AllChanges == Graphs \cup Tiers
\* The next run finds the same change, or one of the same key in other tiers.
SameKey == [ch \in AllChanges |->
    IF ch \in Tiers THEN {t \in Tiers : CacheKey(t) = CacheKey(ch)} ELSE {ch}]

=============================================================================
