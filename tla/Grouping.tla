------------------------------ MODULE Grouping ------------------------------
(***************************************************************************)
(* The grouping stage as pure functions (engine/src/grouping/): the audit  *)
(* of a model's answer, the relocation gate and the assembly into groups   *)
(* and a reading plan.                                                     *)
(*                                                                         *)
(* A change is a record of what the core stages found: its shape classes   *)
(* are 1..n, largest first, class c holding the hunks change.hunks[c].  An *)
(* answer is a sequence of groups of ids, each said to be skimmable or     *)
(* not; ids may repeat, be missing, or name no class.  Labels, prose and   *)
(* the order of hunks inside a class are left out.                         *)
(***************************************************************************)
EXTENDS Sorting, Sequences, SequencesExt

ClassIds(change) == 1..change.n
Size(change, c) == Cardinality(change.hunks[c])
IsNoise(change, c) == c \in change.all_generated

Members(g) == ToSet(g.class_ids)
HunksIn(change, g) == UNION {change.hunks[c] : c \in Members(g)}
HunkCount(change, g) == Cardinality(HunksIn(change, g))

\* The classes the model is given: those not made of generated files.
Offered(change) == {c \in ClassIds(change) : ~IsNoise(change, c)}

(***************************************************************************)
(* The audit.  Ids are walked group by group; the first mention of an      *)
(* offered class claims it, a later one is a duplicate, and an id that is  *)
(* no offered class is a hallucination.  Groups left empty are dropped and *)
(* what was never mentioned becomes a trailing group of its own.           *)
(***************************************************************************)
Mentions(answer, c) ==
    UNION {{<<g, i>> : i \in {j \in DOMAIN answer[g].classes : answer[g].classes[j] = c}} :
           g \in DOMAIN answer}

Earlier(p, q) == p[1] < q[1] \/ (p[1] = q[1] /\ p[2] < q[2])

Claims(answer, offered, g, i) ==
    LET c == answer[g].classes[i]
    IN  c \in offered /\ \A p \in Mentions(answer, c) : ~Earlier(p, <<g, i>>)

Kept(answer, offered, g) ==
    Taken(answer[g].classes, {i \in DOMAIN answer[g].classes : Claims(answer, offered, g, i)})

Missing(answer, offered) ==
    {c \in offered : \A g \in 1..Len(answer) : c \notin ToSet(answer[g].classes)}

Nonempty(groups) == Taken(groups, {g \in DOMAIN groups : groups[g].class_ids # <<>>})

Audit(answer, offered) ==
    LET missing == Missing(answer, offered)
        claimed == Nonempty([g \in 1..Len(answer) |->
            [skim |-> answer[g].skim, backfill |-> FALSE,
             class_ids |-> Kept(answer, offered, g)]])
    IN  IF missing = {} THEN claimed
        ELSE Append(claimed, [skim |-> FALSE, backfill |-> TRUE, class_ids |-> InOrder(missing)])

(***************************************************************************)
(* The relocation gate: a class that touches a rename below the similarity *)
(* threshold leaves every skim group for one focus group of such classes.  *)
(***************************************************************************)
Drawn(g, gated) ==
    IF g.skim THEN Taken(g.class_ids, {i \in DOMAIN g.class_ids : g.class_ids[i] \in gated})
    ELSE <<>>
Left(g, gated) ==
    [g EXCEPT !.class_ids =
        Taken(@, {i \in DOMAIN g.class_ids : ~(g.skim /\ g.class_ids[i] \in gated)})]

Gate(groups, gated) ==
    LET extracted == FlattenSeq([i \in DOMAIN groups |-> Drawn(groups[i], gated)])
        left == Nonempty([i \in DOMAIN groups |-> Left(groups[i], gated)])
    IN  IF extracted = <<>> THEN left
        ELSE Append(left, [skim |-> FALSE, backfill |-> FALSE, class_ids |-> extracted])

(***************************************************************************)
(* Assembly: focus groups as the model gave them, skim groups by falling   *)
(* size, one group of everything generated, then the back-fill.            *)
(***************************************************************************)
Bigger(change, groups, i, j) ==
    \/ HunkCount(change, groups[i]) > HunkCount(change, groups[j])
    \/ (HunkCount(change, groups[i]) = HunkCount(change, groups[j]) /\ i < j)

BySize(change, groups) ==
    LET all == DOMAIN groups
        at == Ranked(all, {p \in all \X all : Bigger(change, groups, p[1], p[2])})
    IN  [k \in all |-> groups[at[k]]]

\* The groups at some places, as groups of a tier.
Given(work, places, effort) ==
    LET chosen == Taken(work, places)
    IN  [i \in DOMAIN chosen |-> [effort |-> effort, class_ids |-> chosen[i].class_ids]]

Assemble(change, work) ==
    LET backfilled == {g \in DOMAIN work : work[g].backfill}
        skimmed == {g \in DOMAIN work \ backfilled : work[g].skim}
        focus == Given(work, DOMAIN work \ (backfilled \cup skimmed), "focus")
        skim == Given(work, skimmed, "skim")
        backfill == Given(work, backfilled, "focus")
        noise == ClassIds(change) \ Offered(change)
        folded == IF noise = {} THEN <<>>
                  ELSE <<[effort |-> "noise", class_ids |-> InOrder(noise)]>>
    IN  focus \o BySize(change, skim) \o folded \o backfill

\* Mutant: a remainder of one hunk is not worth a step.
StepsFor_two(change, g) ==
    CASE g.effort = "focus" -> <<"read">>
      [] g.effort = "skim"  -> IF HunkCount(change, g) > Len(g.class_ids) + 1
                               THEN <<"exemplars", "skip">> ELSE <<"exemplars">>
      [] g.effort = "noise" -> <<"fold">>

\* What a reader is asked to do with a group.
StepsFor(change, g) ==
    CASE g.effort = "focus" -> <<"read">>
      [] g.effort = "skim"  -> IF HunkCount(change, g) > Len(g.class_ids)
                               THEN <<"exemplars", "skip">> ELSE <<"exemplars">>
      [] g.effort = "noise" -> <<"fold">>

ReadingPlan(change, groups) ==
    FlattenSeq([i \in DOMAIN groups |->
        LET steps == StepsFor(change, groups[i])
        IN  [k \in DOMAIN steps |-> [group |-> i, action |-> steps[k]]]])
=============================================================================
