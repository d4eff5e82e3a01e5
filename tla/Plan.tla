-------------------------------- MODULE Plan --------------------------------
(***************************************************************************)
(* How a plan comes to be (engine/src/pipeline.rs, run_grouped_pipeline):  *)
(* the core stages find a change, its classes are grouped by a model whose *)
(* raw answer is cached under a key of what was offered, the answer is     *)
(* audited, gated and assembled, and the focus groups are sorted with what *)
(* they depend on first.                                                   *)
(*                                                                         *)
(* One process makes plans one after another.  The cache is shared: it may *)
(* be cleared, and another process may write its own answer under a key,   *)
(* between any two steps.  The walk over the groups is taken one group a   *)
(* step; everything between two calls to the outside is one action.        *)
(*                                                                         *)
(* Left out: cancelling the wait (a failed call, as the model sees it),    *)
(* progress notices, and the artefact the model reads, which is written    *)
(* before the call and read by nobody else.                                *)
(***************************************************************************)
EXTENDS Ordering

CONSTANTS Changes,      \* the changes a range may resolve to
          Answers,      \* what a model may answer
          Elsewhere,    \* the answers another process may cache
          Garbage,      \* an answer no parser accepts
          NoAnswer,     \* nothing cached
          Follows   \* change -> the changes the following run may find

\* Hunks of one shape are one class, and every class has some.
IsPartition(ch) ==
    /\ DOMAIN ch.hunks = ClassIds(ch)
    /\ \A c \in ClassIds(ch) :
        ch.hunks[c] # {} /\ IsFiniteSet(ch.hunks[c]) /\ ch.hunks[c] \subseteq Nat
    /\ \A c, d \in ClassIds(ch) : c # d => ch.hunks[c] \cap ch.hunks[d] = {}

\* A class depends on others that declare what it names, cycles and all.
IsClassGraph(ch) ==
    /\ DOMAIN ch.depends_on = ClassIds(ch)
    /\ \A c \in ClassIds(ch) : ch.depends_on[c] \subseteq ClassIds(ch) \ {c}

\* What was generated is not read: it declares nothing, and names nothing.
GeneratedIsSilent(ch) ==
    \A c \in ch.all_generated :
        ch.depends_on[c] = {} /\ \A d \in ClassIds(ch) : c \notin ch.depends_on[d]

IsChange(ch) ==
    /\ DOMAIN ch = {"n", "hunks", "all_generated", "rename_gated", "depends_on"}
    /\ ch.n \in Nat
    /\ ch.all_generated \subseteq ClassIds(ch) /\ ch.rename_gated \subseteq ClassIds(ch)
    /\ IsPartition(ch) /\ IsClassGraph(ch) /\ GeneratedIsSilent(ch)

\* An answer is a sequence of groups of ids, each skimmable or not.
IsAnswer(raw) ==
    /\ Len(raw) \in Nat /\ DOMAIN raw = 1..Len(raw)
    /\ \A g \in DOMAIN raw :
        /\ raw[g].skim \in BOOLEAN
        /\ Len(raw[g].classes) \in Nat /\ DOMAIN raw[g].classes = 1..Len(raw[g].classes)

ASSUME ChangesAreChanges == \A ch \in Changes : IsChange(ch)
ASSUME AnswersAreAnswers == \A raw \in Answers : IsAnswer(raw)
ASSUME NotAnswers == Garbage \notin Answers /\ NoAnswer \notin Answers \cup {Garbage}
ASSUME FollowsChanges == Follows \in [Changes -> SUBSET Changes]
ASSUME ElsewhereAnswers == Elsewhere \subseteq Answers \cup {Garbage}

\* The key names the offered classes and, through their digests, their hunks.
CacheKey(ch) == [c \in Offered(ch) |-> ch.hunks[c]]
Keys == {CacheKey(ch) : ch \in Changes}

VARIABLES cache,    \* key -> the raw answer pinned under it
          pinning,  \* FALSE under --no-cache
          stage,    \* where this process is
          change,   \* the change it is planning
          answer,   \* the model's raw answer
          missing,  \* the classes the audit had to add
          groups,   \* the groups as assembled
          reading,  \* the reading plan
          edges,    \* group -> the groups it depends on
          order,    \* the focus groups emitted so far
          broken,   \* <<from, to, why>> for each edge the walk gave up
          plan      \* the finished document's groups

vars == <<cache, pinning, stage, change, answer, missing, groups, reading, edges, order, broken, plan>>

Stages == {"idle", "ask", "parse", "sort", "done", "failed"}
Idle == stage \in {"idle", "done", "failed"}
Len0 == FocusLen(groups, missing)
Focus == 1..Len0
Remaining == Focus \ ToSet(order)
Sizes == [g \in DOMAIN groups |-> HunkCount(change, groups[g])]
Ready == ReadyIn(Remaining, edges, ToSet(order), Len0)

Init ==
    /\ pinning \in BOOLEAN
    /\ cache = [k \in Keys |-> NoAnswer]
    /\ stage = "idle" /\ change \in Changes /\ answer = NoAnswer
    /\ missing = {} /\ groups = <<>> /\ reading = <<>> /\ edges = <<>>
    /\ order = <<>> /\ broken = {} /\ plan = <<>>

\* What grouping hands to the sort, and what the sort sets up before it walks.
Group(ch, raw) ==
    LET audited == IF raw = NoAnswer THEN <<>> ELSE Audit(raw, Offered(ch))
        assembled == Assemble(ch, Gate(audited, ch.rename_gated))
    IN  /\ missing' = IF raw = NoAnswer THEN {} ELSE Missing(raw, Offered(ch))
        /\ groups' = assembled
        /\ reading' = ReadingPlan(ch, assembled)
        /\ edges' = GroupEdges(ch, assembled)
        /\ order' = <<>> /\ broken' = {} /\ plan' = <<>>
        /\ stage' = "sort"

Discard == missing' = {} /\ groups' = <<>> /\ reading' = <<>> /\ edges' = <<>>
           /\ order' = <<>> /\ broken' = {} /\ plan' = <<>>

\* A change nothing of which is offered needs no model.
StartUngrouped(ch) ==
    /\ Idle /\ Offered(ch) = {}
    /\ change' = ch /\ answer' = NoAnswer
    /\ Group(ch, NoAnswer)
    /\ UNCHANGED <<cache, pinning>>

StartCached(ch) ==
    /\ Idle /\ Offered(ch) # {} /\ pinning /\ cache[CacheKey(ch)] # NoAnswer
    /\ change' = ch /\ answer' = cache[CacheKey(ch)]
    /\ stage' = "parse" /\ Discard
    /\ UNCHANGED <<cache, pinning>>

StartAsking(ch) ==
    /\ Idle /\ Offered(ch) # {} /\ ~(pinning /\ cache[CacheKey(ch)] # NoAnswer)
    /\ change' = ch /\ answer' = NoAnswer
    /\ stage' = "ask" /\ Discard
    /\ UNCHANGED <<cache, pinning>>

\* git, the artefact or the cache cannot be read, or an invariant fails.
StartFails(ch) ==
    /\ Idle
    /\ change' = ch /\ answer' = NoAnswer
    /\ stage' = "failed" /\ Discard
    /\ UNCHANGED <<cache, pinning>>

\* The answer is pinned before anything looks at it.
Complete(raw) ==
    /\ stage = "ask"
    /\ answer' = raw /\ stage' = "parse"
    /\ cache' = IF pinning THEN [cache EXCEPT ![CacheKey(change)] = raw] ELSE cache
    /\ UNCHANGED <<pinning, change, missing, groups, reading, edges, order, broken, plan>>

\* The call or the write of the entry fails.
AskFails ==
    /\ stage = "ask" /\ stage' = "failed"
    /\ UNCHANGED <<cache, pinning, change, answer, missing, groups, reading, edges, order, broken, plan>>

ParseFails ==
    /\ stage = "parse" /\ answer = Garbage /\ stage' = "failed"
    /\ UNCHANGED <<cache, pinning, change, answer, missing, groups, reading, edges, order, broken, plan>>

Parse ==
    /\ stage = "parse" /\ answer # Garbage
    /\ Group(change, answer)
    /\ UNCHANGED <<cache, pinning, change, answer>>

Emit(g) ==
    /\ order' = Append(order, g)
    /\ UNCHANGED <<cache, pinning, stage, change, answer, missing, groups, reading, edges, plan>>

\* Mutant: the largest group left, ready or not.
EmitReady_largest ==
    /\ stage = "sort" /\ Ready # {}
    /\ Emit(Largest(Remaining, Sizes)) /\ UNCHANGED broken

EmitReady ==
    /\ stage = "sort" /\ Ready # {}
    /\ Emit(Largest(Ready, Sizes)) /\ UNCHANGED broken

\* Mutant: every edge to a focus group is given up.
GivenUp_each(g) == {d \in edges[g] : d <= Len0}
\* Mutant: edges out of the focus section are given up too.
GivenUp_out(g) == {d \in edges[g] : d \notin ToSet(order)}

GivenUp(g) == {d \in edges[g] : d <= Len0 /\ d \notin ToSet(order)}

\* Nothing is ready: emit one anyway and say why its edges are not honoured.
EmitStuck ==
    /\ stage = "sort" /\ Ready = {} /\ Remaining # {}
    /\ LET freed == BreakCycle(change, groups, Remaining, Sizes)
       IN  /\ Emit(freed.pick)
           /\ broken' = broken \cup {<<freed.pick, d, freed.why>> : d \in GivenUp(freed.pick)}

\* The order of every group, the sorted prefix first, and each group's place.
FinalOrder == order \o [i \in 1..(Len(groups) - Len0) |-> Len0 + i]
RankIn(final) == [g \in DOMAIN groups |-> CHOOSE r \in DOMAIN final : final[r] = g]

\* One group of the document: its classes in order, what it depends on and why an
\* edge to it was given up, and, if one was, its pivot.
Entry(g) ==
    LET ids == OrderClasses(change, groups[g].class_ids)
        Why(d) == IF \E b \in broken : b[1] = g /\ b[2] = d
                  THEN (CHOOSE b \in broken : b[1] = g /\ b[2] = d)[3] ELSE "none"
    IN  [id |-> g, effort |-> groups[g].effort, role |-> RoleOf(groups, edges, g),
         class_ids |-> ids, depends_on |-> {<<d, Why(d)>> : d \in edges[g]},
         pivot |-> IF \E b \in broken : b[1] = g
                   THEN {Pivot(change, groups, ids, RankIn(FinalOrder), g)} ELSE {}]

\* The steps of a reading plan that are about one group.
StepsOf(steps, g) == Taken(steps, {i \in DOMAIN steps : steps[i].group = g})

Finish ==
    /\ stage = "sort" /\ Remaining = {}
    /\ plan' = [r \in DOMAIN FinalOrder |-> Entry(FinalOrder[r])]
    /\ reading' = FlattenSeq([r \in DOMAIN FinalOrder |-> StepsOf(reading, FinalOrder[r])])
    /\ stage' = "done"
    /\ UNCHANGED <<cache, pinning, change, answer, missing, groups, edges, order, broken>>

\* The cache changes under a process at any time.  Nothing reads it between an
\* answer and the end of the sort, so changes are taken where they can be seen.
Visible == pinning /\ stage \notin {"parse", "sort"}

\* `dfr clean`.
Clean ==
    /\ Visible /\ \E k \in Keys : cache[k] # NoAnswer
    /\ cache' = [k \in Keys |-> NoAnswer]
    /\ UNCHANGED <<pinning, stage, change, answer, missing, groups, reading, edges, order, broken, plan>>

\* Another process asked before this one wrote, and writes after it.
PutElsewhere(raw) ==
    /\ Visible /\ cache' = [cache EXCEPT ![CacheKey(change)] = raw]
    /\ UNCHANGED <<pinning, stage, change, answer, missing, groups, reading, edges, order, broken, plan>>

Start(ch) == StartUngrouped(ch) \/ StartCached(ch) \/ StartAsking(ch) \/ StartFails(ch)
Work == AskFails \/ ParseFails \/ Parse \/ EmitReady \/ EmitStuck \/ Finish
Next == \/ \E ch \in Follows[change] : Start(ch)
        \/ \E raw \in Answers \cup {Garbage} : Complete(raw)
        \/ Work
        \/ Clean \/ \E raw \in Elsewhere : PutElsewhere(raw)

Spec == Init /\ [][Next]_vars

-----------------------------------------------------------------------------
(* Properties *)

\* Grouping hands over groups of the change's classes, none of them empty, one
\* at least of them when the model left classes out.
WellGrouped ==
    /\ groups \in Seq([effort : {"focus", "skim", "noise"}, class_ids : Seq(ClassIds(change))])
    /\ \A g \in DOMAIN groups : groups[g].class_ids # <<>>
    /\ missing # {} => groups # <<>>

\* Every variable keeps its type: among it that what grouping hands to the sort
\* is well formed, whatever the model answered.
TypeOK ==
    /\ DOMAIN cache = Keys
    /\ pinning \in BOOLEAN /\ stage \in Stages /\ change \in Changes
    /\ stage = "parse" => answer # NoAnswer
    /\ missing \subseteq Offered(change)
    /\ WellGrouped
    /\ edges \in [DOMAIN groups -> SUBSET DOMAIN groups]
    /\ order \in Seq(Focus)
    /\ broken \subseteq Focus \X Focus \X {"artefact", "mutual"}
    /\ DOMAIN plan = IF stage = "done" THEN DOMAIN groups ELSE {}

\* The hunks one step of the reading plan is about (plan/tiers.rs, reading_split):
\* the exemplar of a class is its first hunk.
Exemplars(g) ==
    {CHOOSE h \in change.hunks[c] : \A k \in change.hunks[c] : h <= k : c \in Members(g)}
StepHunks(s) ==
    LET g == groups[s.group]
    IN  CASE s.action = "exemplars" -> Exemplars(g)
          [] s.action = "skip"      -> HunksIn(change, g) \ Exemplars(g)
          [] OTHER                  -> HunksIn(change, g)

\* Whatever the model answers, each hunk of the change is the subject of exactly
\* one step of the reading plan, and the steps come in the order of the groups
\* (invariant 5 carried through audit, gate, assembly and sort).
EveryHunkHasAStep ==
    stage = "done" =>
        /\ \A c \in ClassIds(change) : \A h \in change.hunks[c] :
            Cardinality({i \in DOMAIN reading : h \in StepHunks(reading[i])}) = 1
        /\ \A i, j \in DOMAIN reading : i < j =>
            \E r, q \in DOMAIN plan :
                r <= q /\ plan[r].id = reading[i].group /\ plan[q].id = reading[j].group

\* Generated classes are folded and nothing else is; a class rewritten during a
\* move is read whatever the model said; what the model left out is read last,
\* where the reviewer's view and the stack look for it (plan/view.rs).
RightTier ==
    stage = "done" =>
        /\ \A r \in DOMAIN plan : \A c \in Members(plan[r]) :
            /\ IsNoise(change, c) <=> plan[r].effort = "noise"
            /\ c \in change.rename_gated => plan[r].effort # "skim"
        /\ missing # {} => Len(plan) > 0 /\ Members(plan[Len(plan)]) = missing

\* A focus group comes after the focus groups it depends on, except along the
\* edges that carry a verdict, and every edge that carries one points later; in a
\* group whose classes can be read in order, they are; and a group that was broken
\* out of a cycle turns from a foundation into a consumer at its pivot: the class
\* there uses one that is read later.
FoundationFirst ==
    stage = "done" =>
        /\ \A r \in 1..Len0 : \A e \in plan[r].depends_on :
            LET later == \E q \in (r + 1)..Len0 : plan[q].id = e[1]
            IN  later <=> e[2] # "none"
        /\ \A r \in DOMAIN plan :
            Cyclic(Members(plan[r]), change.depends_on) \/
            \A i, j \in DOMAIN plan[r].class_ids :
                plan[r].class_ids[j] \in change.depends_on[plan[r].class_ids[i]] => j < i
        /\ \A r \in DOMAIN plan : \A n \in plan[r].pivot :
            /\ n < Len(plan[r].class_ids)
            /\ \E u \in change.depends_on[plan[r].class_ids[n + 1]] :
                \E q \in (r + 1)..Len(plan) : u \in Members(plan[q])

\* The walk over the focus groups keeps the promises of module Walk: a group is
\* emitted once, a ready one if there is one, and nothing else gives up an edge.
Foundations == INSTANCE Walk WITH
    len <- Len0,
    edges <- [g \in Focus |-> edges[g] \cap Focus],
    broken <- {<<b[1], b[2]>> : b \in broken}
IsAWalk == Foundations!Spec

\* When an order that honours every edge exists, no edge is given up.
NothingBrokenNeedlessly == Foundations!NothingBrokenNeedlessly
=============================================================================
