-------------------------------- MODULE Walk --------------------------------
(***************************************************************************)
(* What the walk over the focus groups promises (engine/src/ordering.rs):  *)
(* every group of 1..len is emitted once, a ready one whenever there is    *)
(* one, and an edge is given up only for a group emitted while none is.    *)
(* Which group is taken, and what a reader is told of a broken edge, is    *)
(* the business of module Plan, which implements this one.                 *)
(***************************************************************************)
EXTENDS Naturals, Sequences, FiniteSets

VARIABLES len,     \* how many groups are walked
          edges,   \* group -> the groups among them it depends on
          order,   \* those emitted so far
          broken   \* <<group, dependency>> for each edge given up

vars == <<len, edges, order, broken>>

Groups == 1..len
Emitted == {order[i] : i \in DOMAIN order}
Remaining == Groups \ Emitted
Ready == {g \in Remaining : edges[g] \cap Remaining = {}}

\* A set of groups holds a cycle exactly when some of them can never be freed.
Cyclic == \E stuck \in SUBSET Groups : stuck # {} /\ \A g \in stuck : edges[g] \cap stuck # {}

Graph == /\ len \in Nat /\ edges \in [Groups -> SUBSET Groups]
         /\ \A g \in Groups : g \notin edges[g]

Init == Graph /\ order = <<>> /\ broken = {}

\* A walk begins over another graph when the one before it is over.
Begin == Remaining = {} /\ Graph' /\ order' = <<>> /\ broken' = {}

Emit(g) ==
    /\ g \in Remaining /\ (Ready = {} \/ g \in Ready)
    /\ order' = Append(order, g)
    /\ broken' = broken \cup {<<g, d>> : d \in edges[g] \cap Remaining}
    /\ UNCHANGED <<len, edges>>

Next == Begin \/ \E g \in Groups : Emit(g)
Spec == Init /\ [][Next]_vars

-----------------------------------------------------------------------------
(* Properties *)

\* The graph, the groups emitted and the edges given up are of the walk's groups.
TypeOK == Graph /\ order \in Seq(Groups) /\ broken \subseteq Groups \X Groups

\* No group is emitted twice, and a walk that is over has emitted each.
Once ==
    /\ \A i, j \in DOMAIN order : order[i] = order[j] => i = j
    /\ Remaining = {} => Len(order) = len

\* A group comes after what it depends on, except along the edges given up; and
\* those are exactly the edges to what was not yet emitted.
Honoured ==
    \A i \in DOMAIN order : \A d \in edges[order[i]] :
        <<order[i], d>> \in broken <=> \A j \in 1..(i - 1) : order[j] # d

\* When an order that honours every edge exists, no edge is given up.
NothingBrokenNeedlessly == broken = {} \/ Cyclic
=============================================================================
