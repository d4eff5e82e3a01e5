------------------------------ MODULE Ordering ------------------------------
(***************************************************************************)
(* The ordering stage (engine/src/ordering.rs): what a group depends on,   *)
(* which group of the focus section is read next, and the classes inside a *)
(* group, foundation first.  The walk over the groups is a machine of its  *)
(* own in module Plan; here is what one step of it decides.                *)
(*                                                                         *)
(* `groups` is the assembled sequence of module Grouping and a group is    *)
(* named by its place in it; change.depends_on[c] is the set of classes    *)
(* whose definitions class c uses.                                         *)
(***************************************************************************)
EXTENDS Grouping

\* Generated content orders nothing: its classes belong to no group here.
GroupOf(groups, c) ==
    {g \in DOMAIN groups : groups[g].effort # "noise" /\ c \in Members(groups[g])}
Grouped(groups) == {g \in DOMAIN groups : groups[g].effort # "noise"}

\* The class edges contracted onto groups, edges inside one group left out.
GroupEdges(change, groups) ==
    [g \in DOMAIN groups |->
        IF g \notin Grouped(groups) THEN {}
        ELSE {d \in Grouped(groups) \ {g} :
                \E c \in Members(groups[g]), u \in Members(groups[d]) :
                    u \in change.depends_on[c]}]

\* The leading focus groups, without the back-fill that must stay last.
\* Mutant: the back-fill sorted with the rest.
FocusLen_all(groups, missing) ==
    Cardinality({g \in DOMAIN groups : \A d \in 1..g : groups[d].effort = "focus"})

FocusLen(groups, missing) ==
    LET leading == Cardinality({g \in DOMAIN groups :
                                    \A d \in 1..g : groups[d].effort = "focus"})
    IN  IF leading = Len(groups) /\ missing # {} THEN leading - 1 ELSE leading

(***************************************************************************)
(* Kahn's walk.  Of several candidates the one with most hunks goes first, *)
(* then the one that came first.                                           *)
(***************************************************************************)
Largest(pool, size) ==
    CHOOSE x \in pool : \A y \in pool : size[y] < size[x] \/ (size[y] = size[x] /\ x <= y)

\* Mutant: waiting for groups that are not walked.
ReadyIn_all(remaining, edges, emitted, len) == {g \in remaining : edges[g] \subseteq emitted}

ReadyIn(remaining, edges, emitted, len) ==
    {g \in remaining : \A d \in edges[g] : d > len \/ d \in emitted}

\* A set of nodes holds a cycle exactly when some of them can never be freed.
Cyclic(nodes, edges) ==
    \E stuck \in SUBSET nodes : stuck # {} /\ \A x \in stuck : edges[x] \cap stuck # {}

ClassesIn(groups, remaining) == UNION {Members(groups[g]) : g \in remaining}

\* What frees a deadlock: the owner of the first class nothing in play blocks,
\* or, when the classes are deadlocked as well, the largest group.
BreakCycle(change, groups, remaining, size) ==
    LET inside == ClassesIn(groups, remaining)
        free == {c \in inside : change.depends_on[c] \cap inside = {}}
        first == CHOOSE c \in free : \A d \in free : c <= d
    IN  IF Cyclic(inside, change.depends_on)
        THEN [pick |-> Largest(remaining, size), why |-> "mutual"]
        ELSE [pick |-> CHOOSE g \in remaining : first \in Members(groups[g]),
              why |-> "artefact"]

ReadyClasses(change, members, emitted) ==
    {c \in members \ emitted : change.depends_on[c] \cap members \subseteq emitted}

\* The same walk over the classes of one group; ties go to the earlier place.
NextClass(change, ids, emitted) ==
    LET members == ToSet(ids)
        ready == ReadyClasses(change, members, emitted)
        pool == IF ready = {} THEN members \ emitted ELSE ready
    IN  ids[Largest({i \in DOMAIN ids : ids[i] \in pool},
                    [i \in DOMAIN ids |-> Size(change, ids[i])])]

OrderClasses(change, ids) ==
    LET walk[k \in 0..Len(ids)] ==
            IF k = 0 THEN <<>>
            ELSE Append(walk[k - 1], NextClass(change, ids, ToSet(walk[k - 1])))
    IN  walk[Len(ids)]

(***************************************************************************)
(* What the reader is told about a group once the order is known.          *)
(***************************************************************************)
RoleOf(groups, edges, g) ==
    CASE groups[g].effort = "noise" -> "noise"
      [] groups[g].effort = "skim"  -> "mechanical"
      [] groups[g].effort = "focus" ->
            IF \E d \in DOMAIN groups : g \in edges[d] THEN "foundation"
            ELSE IF edges[g] # {} THEN "consumer" ELSE "none"

LooksLater(change, groups, rank, g, c) ==
    \E u \in change.depends_on[c] : \E d \in GroupOf(groups, u) : rank[d] > rank[g]

\* How many leading classes use nothing that is read later.
Pivot(change, groups, ids, rank, g) ==
    CHOOSE n \in 0..Len(ids) :
        /\ \A i \in 1..n : ~LooksLater(change, groups, rank, g, ids[i])
        /\ n = Len(ids) \/ LooksLater(change, groups, rank, g, ids[n + 1])
=============================================================================
