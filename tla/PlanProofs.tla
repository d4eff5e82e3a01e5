----------------------------- MODULE PlanProofs -----------------------------
(***************************************************************************)
(* That a plan is right whatever the model answers, for every set of       *)
(* changes and answers: every class of a change ends in one group of its   *)
(* tier, every hunk in one step of the reading plan, and the focus groups  *)
(* in an order that keeps the promises of module Walk.                     *)
(*                                                                         *)
(* The argument follows the pipeline.  A group is read as the places       *)
(* At(gs, g, i, c) its classes have, and Parts says that no class has two: *)
(* audit, gate and assembly each hand on parts that hold what they were    *)
(* given, up to WellPlaced, the invariant of a run that is sorting.  The   *)
(* walk is then a walk of module Walk, and what is proved of that one is   *)
(* read off the finished order.                                            *)
(***************************************************************************)
EXTENDS Plan, FiniteInduction, FiniteSetTheorems, SequenceTheorems, TLAPS

\* No group has more hunks than there are in the change.
LEMMA HunkCountBound ==
  ASSUME NEW ch \in Changes
  PROVE  /\ \E bound \in Nat :
              \A g : Members(g) \subseteq ClassIds(ch) => HunkCount(ch, g) \in 0..bound
         /\ \A g : Members(g) \subseteq ClassIds(ch) => IsFiniteSet(HunksIn(ch, g))
<1> DEFINE All == {ch.hunks[c] : c \in ClassIds(ch)}
<1>1. ch.n \in Nat /\ \A c \in ClassIds(ch) : IsFiniteSet(ch.hunks[c])
  BY ChangesAreChanges DEF IsChange, IsPartition
<1>2. IsFiniteSet(ClassIds(ch))
  BY <1>1, FS_Interval DEF ClassIds
<1>3. IsFiniteSet(All)
  <2> DEFINE f == [c \in ClassIds(ch) |-> ch.hunks[c]]
  <2>1. f \in Surjection(ClassIds(ch), All)
    BY DEF Surjection
  <2> HIDE DEF f, All
  <2> QED BY <2>1, <1>2, FS_Surjection
<1>4. IsFiniteSet(UNION All)
  <2>1. \A T \in All : IsFiniteSet(T)
    BY <1>1
  <2> HIDE DEF All
  <2> QED BY <2>1, <1>3, FS_UNION
<1> DEFINE bound == Cardinality(UNION All)
<1>5. bound \in Nat
  <2> HIDE DEF All
  <2> QED BY <1>4, FS_CardinalityType
<1>6. ASSUME NEW g, Members(g) \subseteq ClassIds(ch)
      PROVE  HunkCount(ch, g) \in 0..bound /\ IsFiniteSet(HunksIn(ch, g))
  <2>1. HunksIn(ch, g) \in SUBSET UNION All
    BY <1>6 DEF HunksIn
  <2>2. IsFiniteSet(HunksIn(ch, g)) /\ Cardinality(HunksIn(ch, g)) <= bound
    <3> HIDE DEF All
    <3> QED BY <2>1, <1>4, FS_Subset
  <2>3. Cardinality(HunksIn(ch, g)) \in Nat
    BY <2>2, FS_CardinalityType
  <2> QED
    BY <2>2, <2>3, <1>5 DEF HunkCount
<1> QED
  BY <1>5, <1>6

-----------------------------------------------------------------------------
(***************************************************************************)
(* Grouping puts each class in one place.                                  *)
(***************************************************************************)
\* A group holds a class at a place in it.
At(gs, g, i, c) ==
  g \in 1..Len(gs) /\ i \in 1..Len(gs[g].class_ids) /\ gs[g].class_ids[i] = c

\* Groups of classes of which no two places hold the same.
Parts(gs, C) ==
  /\ Len(gs) \in Nat /\ DOMAIN gs = 1..Len(gs)
  /\ \A g \in 1..Len(gs) : gs[g].class_ids \in Seq(C)
  /\ \A g, h, i, j, c : At(gs, g, i, c) /\ At(gs, h, j, c) => g = h /\ i = j
Held(gs) == UNION {Members(gs[g]) : g \in 1..Len(gs)}
NoneEmpty(gs) == \A g \in 1..Len(gs) : gs[g].class_ids # <<>>

\* The members of a group are what its places hold.
LEMMA MembersAre ==
  ASSUME NEW C, NEW g, g.class_ids \in Seq(C)
  PROVE  /\ Members(g) \subseteq C
         /\ \A c : c \in Members(g) <=> \E i \in 1..Len(g.class_ids) : g.class_ids[i] = c
         /\ Members(g) = {} <=> g.class_ids = <<>>
         /\ DOMAIN g.class_ids = 1..Len(g.class_ids) /\ Len(g.class_ids) \in Nat
<1> DEFINE ids == g.class_ids
<1>1. DOMAIN ids = 1..Len(ids) /\ Len(ids) \in Nat /\ \A i \in 1..Len(ids) : ids[i] \in C
  BY LenProperties, ElementOfSeq
<1>2. Members(g) = {ids[i] : i \in DOMAIN ids}
  BY DEF Members, ToSet
<1>3. ids = <<>> <=> Len(ids) = 0
  BY EmptySeq
<1> HIDE DEF ids
<1>4. Members(g) = {} <=> Len(ids) = 0
  <2>1. Len(ids) # 0 => 1 \in 1..Len(ids)
    BY <1>1
  <2>2. Len(ids) = 0 => 1..Len(ids) = {}
    BY <1>1
  <2> QED BY <2>1, <2>2, <1>1, <1>2
<1>5. Members(g) \subseteq C /\ \A c : c \in Members(g) <=> \E i \in 1..Len(ids) : ids[i] = c
  BY <1>1, <1>2
<1> QED BY <1>1, <1>3, <1>4, <1>5 DEF ids

\* What a list of groups holds is what some place in it holds.
LEMMA HeldSomewhere ==
  ASSUME NEW C, NEW gs, Parts(gs, C)
  PROVE  /\ Held(gs) \subseteq C
         /\ \A c : c \in Held(gs) <=> \E g, i : At(gs, g, i, c)
         /\ \A g, c : g \in 1..Len(gs) /\ c \in Members(gs[g]) <=> \E i : At(gs, g, i, c)
<1>1. ASSUME NEW g \in 1..Len(gs)
      PROVE  /\ Members(gs[g]) \subseteq C
             /\ \A c : c \in Members(gs[g]) <=> \E i : At(gs, g, i, c)
  <2>1. gs[g].class_ids \in Seq(C)
    BY DEF Parts
  <2>2. /\ Members(gs[g]) \subseteq C
        /\ \A c : c \in Members(gs[g])
             <=> \E i \in 1..Len(gs[g].class_ids) : gs[g].class_ids[i] = c
    BY <2>1, MembersAre
  <2> QED BY <2>2 DEF At
<1>2. \A g, i, c : At(gs, g, i, c) => g \in 1..Len(gs)
  BY DEF At
<1> QED BY <1>1, <1>2 DEF Held

\* Some of the groups, each once and in any order, are such groups too.
Regroups(at, s, t) ==
  /\ Len(t) \in Nat /\ DOMAIN t = 1..Len(t)
  /\ \A k \in 1..Len(t) : at[k] \in 1..Len(s) /\ t[k].class_ids = s[at[k]].class_ids
  /\ \A k, l \in 1..Len(t) : at[k] = at[l] => k = l

\* Some of the groups, whatever their order, still give no class two places.
LEMMA PartsOfParts ==
  ASSUME NEW C, NEW s, Parts(s, C), NEW t, NEW at, Regroups(at, s, t)
  PROVE  /\ Parts(t, C)
         /\ Held(t) = UNION {Members(s[at[k]]) : k \in 1..Len(t)}
<1> USE DEF Regroups
<1>1. Parts(t, C)
  <2>1. ASSUME NEW g \in 1..Len(t) PROVE t[g].class_ids \in Seq(C)
    BY DEF Parts
  <2>2. \A g, i, c : At(t, g, i, c) => g \in 1..Len(t) /\ At(s, at[g], i, c)
    BY DEF At
  <2>3. ASSUME NEW g, NEW h, NEW i, NEW j, NEW c, At(t, g, i, c), At(t, h, j, c)
        PROVE  g = h /\ i = j
    BY <2>2, <2>3 DEF Parts
  <2> QED BY <2>1, <2>3 DEF Parts
<1>2. \A k \in 1..Len(t) : Members(t[k]) = Members(s[at[k]])
  BY DEF Members
<1> QED
  BY <1>1, <1>2 DEF Held

\* Two such sequences with nothing in common, one after the other, are one.
LEMMA PartsTogether ==
  ASSUME NEW C, NEW V, NEW a \in Seq(V), NEW b \in Seq(V), Parts(a, C), Parts(b, C),
         Held(a) \cap Held(b) = {}
  PROVE  /\ a \o b \in Seq(V) /\ Parts(a \o b, C) /\ Held(a \o b) = Held(a) \cup Held(b)
         /\ Len(a \o b) = Len(a) + Len(b)
         /\ \A g \in 1..Len(a) : (a \o b)[g] = a[g]
         /\ \A g \in 1..Len(b) : (a \o b)[Len(a) + g] = b[g]
         /\ \A g \in 1..(Len(a) + Len(b)) :
               g \in 1..Len(a) \/ \E h \in 1..Len(b) : g = Len(a) + h
<1> DEFINE N == Len(a)
           M == Len(b)
           f == a \o b
<1>1. /\ f \in Seq(V) /\ Len(f) = N + M
      /\ \A k \in 1..(N + M) : f[k] = IF k <= N THEN a[k] ELSE b[k - N]
  BY ConcatProperties
<1>2. N \in Nat /\ M \in Nat /\ DOMAIN f = 1..(N + M)
  BY <1>1, LenProperties
<1> HIDE DEF f, N, M
<1>3. ASSUME NEW g \in 1..N PROVE g \in 1..(N + M) /\ f[g] = a[g]
  <2>1. g \in 1..(N + M) /\ g <= N
    BY <1>2
  <2> QED BY <2>1, <1>1
<1>4. ASSUME NEW g \in 1..M PROVE N + g \in 1..(N + M) /\ f[N + g] = b[g]
  <2>1. N + g \in 1..(N + M) /\ ~(N + g <= N) /\ (N + g) - N = g
    BY <1>2
  <2> QED BY <2>1, <1>1
<1>5. ASSUME NEW g \in 1..(N + M) PROVE g \in 1..N \/ \E h \in 1..M : g = N + h
  <2>1. g \in 1..N \/ (g - N \in 1..M /\ g = N + (g - N))
    BY <1>2
  <2> QED BY <2>1
<1>6. Held(f) = Held(a) \cup Held(b)
  <2>1. ASSUME NEW c, c \in Held(f) PROVE c \in Held(a) \cup Held(b)
    <3>1. PICK g \in 1..(N + M) : c \in Members(f[g])
      BY <2>1, <1>1 DEF Held
    <3> QED BY <3>1, <1>3, <1>4, <1>5 DEF Held, N, M
  <2>2. ASSUME NEW c, c \in Held(a) PROVE c \in Held(f)
    <3>1. PICK g \in 1..N : c \in Members(a[g])
      BY <2>2 DEF Held, N
    <3> QED BY <3>1, <1>1, <1>3 DEF Held
  <2>3. ASSUME NEW c, c \in Held(b) PROVE c \in Held(f)
    <3>1. PICK g \in 1..M : c \in Members(b[g])
      BY <2>3 DEF Held, M
    <3> QED BY <3>1, <1>1, <1>4 DEF Held
  <2> QED BY <2>1, <2>2, <2>3
<1>7. ASSUME NEW g \in 1..(N + M) PROVE f[g].class_ids \in Seq(C)
  <2>1. (\A x \in 1..N : a[x].class_ids \in Seq(C)) /\ (\A x \in 1..M : b[x].class_ids \in Seq(C))
    BY DEF Parts, N, M
  <2> QED BY <2>1, <1>3, <1>4, <1>5
<1>8. ASSUME NEW g, NEW h, NEW i, NEW j, NEW c, At(f, g, i, c), At(f, h, j, c)
      PROVE  g = h /\ i = j
  <2>1. \A x, k : At(f, x, k, c) =>
          \/ At(a, x, k, c) /\ x \in 1..N
          \/ \E y \in 1..M : x = N + y /\ At(b, y, k, c)
    <3>1. ASSUME NEW x, NEW k, At(f, x, k, c)
          PROVE  \/ At(a, x, k, c) /\ x \in 1..N
                 \/ \E y \in 1..M : x = N + y /\ At(b, y, k, c)
      <4>1. x \in 1..(N + M) /\ k \in 1..Len(f[x].class_ids) /\ f[x].class_ids[k] = c
        BY <3>1, <1>1 DEF At
      <4>2. CASE x \in 1..N
        BY <4>1, <4>2, <1>3 DEF At, N
      <4>3. CASE x \notin 1..N
        <5>1. PICK y \in 1..M : x = N + y
          BY <4>1, <4>3, <1>5
        <5>2. At(b, y, k, c)
          BY <5>1, <4>1, <1>4 DEF At, M
        <5> QED BY <5>1, <5>2
      <4> QED BY <4>2, <4>3
    <3> QED BY <3>1
  <2>2. \A x, y, k, l : ~(At(a, x, k, c) /\ At(b, y, l, c))
    <3>1. (\E x, k : At(a, x, k, c)) => c \in Held(a)
      BY HeldSomewhere
    <3>2. (\E y, l : At(b, y, l, c)) => c \in Held(b)
      BY HeldSomewhere
    <3> QED BY <3>1, <3>2
  <2>3. CASE At(a, g, i, c) /\ At(a, h, j, c)
    BY <2>3 DEF Parts
  <2>4. CASE ~At(a, g, i, c) /\ ~At(a, h, j, c)
    <3>1. PICK x \in 1..M : g = N + x /\ At(b, x, i, c)
      BY <2>4, <2>1, <1>8
    <3>2. PICK y \in 1..M : h = N + y /\ At(b, y, j, c)
      BY <2>4, <2>1, <1>8
    <3>3. x = y /\ i = j
      BY <3>1, <3>2 DEF Parts
    <3> QED BY <3>1, <3>2, <3>3
  <2> QED BY <2>1, <2>2, <2>3, <2>4, <1>8
<1>9. Parts(f, C)
  BY <1>1, <1>2, <1>7, <1>8 DEF Parts
<1> QED BY <1>1, <1>3, <1>4, <1>5, <1>6, <1>9 DEF f, N, M

-----------------------------------------------------------------------------
(* What an answer names *)

WorkGroup(C) == [skim : BOOLEAN, backfill : BOOLEAN, class_ids : Seq(C)]

\* A class is mentioned at a place of an answer.
Named(raw, g, i, c) ==
  g \in 1..Len(raw) /\ i \in 1..Len(raw[g].classes) /\ raw[g].classes[i] = c

\* A mention claims a class when it is the first of an offered one.
LEMMA ClaimsIsFirst ==
  ASSUME NEW raw, IsAnswer(raw), NEW offered, NEW g, NEW i, NEW c, Named(raw, g, i, c)
  PROVE  Claims(raw, offered, g, i) <=>
            /\ c \in offered
            /\ \A h, j : Named(raw, h, j, c) => ~(h < g \/ (h = g /\ j < i))
<1> DEFINE Here == Mentions(raw, c)
<1>1. \A h, j : <<h, j>> \in Here <=> Named(raw, h, j, c)
  BY DEF Mentions, Named, IsAnswer
<1>2. \A p \in Here : \E h, j : p = <<h, j>>
  BY DEF Mentions
<1>3. \A h, j : Earlier(<<h, j>>, <<g, i>>) <=> (h < g \/ (h = g /\ j < i))
  BY DEF Earlier
<1>4. Claims(raw, offered, g, i) <=> c \in offered /\ \A p \in Here : ~Earlier(p, <<g, i>>)
  BY DEF Claims, Named
<1> HIDE DEF Here
<1>5. (\A p \in Here : ~Earlier(p, <<g, i>>)) <=>
         \A h, j : Named(raw, h, j, c) => ~(h < g \/ (h = g /\ j < i))
  <2>1. ASSUME NEW p \in Here, Earlier(p, <<g, i>>),
               \A h, j : Named(raw, h, j, c) => ~(h < g \/ (h = g /\ j < i))
        PROVE  FALSE
    <3>1. PICK h, j : p = <<h, j>>
      BY <1>2
    <3>2. Named(raw, h, j, c)
      BY <3>1, <2>1, <1>1
    <3>3. h < g \/ (h = g /\ j < i)
      BY <3>1, <2>1, <1>3
    <3> QED BY <3>2, <3>3, <2>1
  <2>2. ASSUME \A p \in Here : ~Earlier(p, <<g, i>>), NEW h, NEW j, Named(raw, h, j, c),
               h < g \/ (h = g /\ j < i)
        PROVE  FALSE
    <3>1. <<h, j>> \in Here /\ Earlier(<<h, j>>, <<g, i>>)
      BY <2>2, <1>1, <1>3
    <3> QED BY <3>1, <2>2
  <2> QED BY <2>1, <2>2
<1> QED BY <1>4, <1>5

\* An offered class the model names is claimed where it is named first.
LEMMA ClaimedOnce ==
  ASSUME NEW raw, IsAnswer(raw), NEW offered, NEW c \in offered
  PROVE  /\ \A g, h, i, j : /\ Named(raw, g, i, c) /\ Claims(raw, offered, g, i)
                            /\ Named(raw, h, j, c) /\ Claims(raw, offered, h, j)
                            => g = h /\ i = j
         /\ (\E g, i : Named(raw, g, i, c)) =>
                \E g, i : Named(raw, g, i, c) /\ Claims(raw, offered, g, i)
<1>1. \A g, i : Named(raw, g, i, c) => g \in Nat /\ i \in Nat
  BY DEF Named, IsAnswer
<1>2. ASSUME NEW g, NEW h, NEW i, NEW j, Named(raw, g, i, c), Claims(raw, offered, g, i),
             Named(raw, h, j, c), Claims(raw, offered, h, j)
      PROVE  g = h /\ i = j
  <2>1. ~(h < g \/ (h = g /\ j < i)) /\ ~(g < h \/ (g = h /\ i < j))
    BY <1>2, ClaimsIsFirst
  <2> QED BY <2>1, <1>1, <1>2
<1>3. ASSUME NEW g0, NEW i0, Named(raw, g0, i0, c)
      PROVE  \E g, i : Named(raw, g, i, c) /\ Claims(raw, offered, g, i)
  <2> DEFINE Gs == {g \in Nat : \E i : Named(raw, g, i, c)}
  <2>1. PICK g \in Gs : \A h \in Gs : g <= h
    <3>1. Gs \subseteq Nat /\ g0 \in Gs
      BY <1>1, <1>3
    <3> HIDE DEF Gs
    <3> QED BY <3>1, LeastNat
  <2> DEFINE Is == {i \in Nat : Named(raw, g, i, c)}
  <2>2. PICK i \in Is : \A j \in Is : i <= j
    <3>1. Is \subseteq Nat /\ Is # {}
      BY <1>1, <2>1
    <3> HIDE DEF Is
    <3> QED BY <3>1, LeastNat
  <2>3. ASSUME NEW h, NEW j, Named(raw, h, j, c) PROVE ~(h < g \/ (h = g /\ j < i))
    <3>1. h \in Gs /\ h \in Nat /\ j \in Nat /\ g \in Nat /\ i \in Nat
      BY <2>3, <1>1, <2>1, <2>2
    <3>2. g <= h
      BY <3>1, <2>1
    <3>3. h = g => j \in Is
      BY <2>3, <3>1
    <3>4. h = g => i <= j
      BY <3>3, <2>2
    <3> HIDE DEF Gs, Is
    <3> QED BY <3>1, <3>2, <3>4
  <2> QED BY <2>2, <2>3, ClaimsIsFirst
<1> QED BY <1>2, <1>3

\* A class is missing when it was offered and no group names it.
LEMMA MissingIsUnnamed ==
  ASSUME NEW raw, IsAnswer(raw), NEW offered
  PROVE  \A c : c \in Missing(raw, offered) <=> c \in offered /\ ~\E g, i : Named(raw, g, i, c)
<1>1. ASSUME NEW c, NEW g \in 1..Len(raw)
      PROVE  c \in ToSet(raw[g].classes) <=> \E i : Named(raw, g, i, c)
  BY DEF ToSet, Named, IsAnswer
<1>2. \A g, i, c : Named(raw, g, i, c) => g \in 1..Len(raw)
  BY DEF Named
<1> QED BY <1>1, <1>2 DEF Missing

\* Each group is one of others, and each of those that holds something is there.
Keeps(t, K) ==
  /\ \A k \in 1..Len(t) : \E g \in 1..Len(K) : t[k] = K[g]
  /\ \A g \in 1..Len(K) : K[g].class_ids # <<>> => \E k \in 1..Len(t) : t[k] = K[g]

\* Dropping the groups left empty loses nothing.
LEMMA NonemptyParts ==
  ASSUME NEW C, NEW V, NEW K \in Seq(V), Parts(K, C)
  PROVE  /\ Nonempty(K) \in Seq(V) /\ Parts(Nonempty(K), C) /\ NoneEmpty(Nonempty(K))
         /\ Held(Nonempty(K)) = Held(K) /\ Keeps(Nonempty(K), K)
<1> DEFINE places == {g \in DOMAIN K : K[g].class_ids # <<>>}
           at == InOrder(places)
           t == Nonempty(K)
<1>1. Len(K) \in Nat /\ DOMAIN K = 1..Len(K) /\ \A g \in 1..Len(K) : K[g] \in V
  BY LenProperties, ElementOfSeq
<1>2. IsFiniteSet(places) /\ places \subseteq Nat
  <2>1. places \in SUBSET (1..Len(K))
    BY <1>1
  <2> HIDE DEF places
  <2> QED BY <2>1, <1>1, FinitePlaces
<1>3. t \in Seq(V) /\ Selects(at, K, places, t)
  <2>1. t = Taken(K, places)
    BY DEF Nonempty
  <2>2. \A i \in places : K[i] \in V
    BY <1>1
  <2> HIDE DEF t, places
  <2> QED BY <2>1, <2>2, <1>2, TakenSelects
<1>4. \A g : g \in places <=> g \in 1..Len(K) /\ K[g].class_ids # <<>>
  BY <1>1
<1> HIDE DEF at, t, places
<1>5. /\ Len(t) \in Nat /\ DOMAIN t = 1..Len(t)
      /\ \A k \in 1..Len(t) : at[k] \in places /\ t[k] = K[at[k]]
      /\ \A i \in places : \E k \in 1..Len(t) : at[k] = i
      /\ \A k, l \in 1..Len(t) : at[k] = at[l] => k = l
  BY <1>3 DEF Selects
<1>6. Parts(t, C) /\ Held(t) = UNION {Members(K[at[k]]) : k \in 1..Len(t)}
  <2>1. \A k \in 1..Len(t) : at[k] \in 1..Len(K) /\ t[k].class_ids = K[at[k]].class_ids
    BY <1>4, <1>5
  <2>2. Regroups(at, K, t)
    BY <2>1, <1>5 DEF Regroups
  <2> QED BY <2>2, PartsOfParts
<1>7. \A g \in 1..Len(K) : g \in places \/ Members(K[g]) = {}
  <2>1. \A g \in 1..Len(K) : K[g].class_ids \in Seq(C)
    BY DEF Parts
  <2> QED BY <2>1, <1>4, MembersAre
<1>8. Held(t) = Held(K)
  <2>1. ASSUME NEW c, c \in Held(t) PROVE c \in Held(K)
    <3>1. PICK k \in 1..Len(t) : c \in Members(K[at[k]])
      BY <2>1, <1>6
    <3> QED BY <3>1, <1>4, <1>5 DEF Held
  <2>2. ASSUME NEW c, c \in Held(K) PROVE c \in Held(t)
    <3>1. PICK g \in 1..Len(K) : c \in Members(K[g])
      BY <2>2 DEF Held
    <3>2. PICK k \in 1..Len(t) : at[k] = g
      BY <3>1, <1>5, <1>7
    <3> QED BY <3>1, <3>2, <1>6
  <2> QED BY <2>1, <2>2
<1>9. NoneEmpty(t)
  BY <1>4, <1>5 DEF NoneEmpty
<1>10. Keeps(t, K)
  BY <1>4, <1>5 DEF Keeps
<1> QED BY <1>3, <1>6, <1>8, <1>9, <1>10 DEF t

\* A group more, of classes no other holds.
LEMMA OnePartMore ==
  ASSUME NEW C, NEW V, NEW a \in Seq(V), NEW r \in V, Parts(a, C),
         r.class_ids \in Seq(C), Members(r) \cap Held(a) = {},
         \A i, j \in 1..Len(r.class_ids) : r.class_ids[i] = r.class_ids[j] => i = j
  PROVE  /\ Append(a, r) \in Seq(V) /\ Parts(Append(a, r), C)
         /\ Held(Append(a, r)) = Held(a) \cup Members(r)
         /\ Len(Append(a, r)) = Len(a) + 1
         /\ Append(a, r)[Len(a) + 1] = r
         /\ \A g \in 1..Len(a) : Append(a, r)[g] = a[g]
<1> DEFINE b == <<r>>
           f == Append(a, r)
<1>1. b \in Seq(V) /\ Len(b) = 1 /\ DOMAIN b = 1..1 /\ b[1] = r
  OBVIOUS
<1>2. f = a \o b
  BY AppendIsConcat
<1> HIDE DEF b, f
<1>3. Held(b) = Members(r)
  <2>1. \A g : g \in 1..1 <=> g = 1
    OBVIOUS
  <2> QED BY <2>1, <1>1 DEF Held
<1>4. Parts(b, C)
  <2>1. \A g, i, c : At(b, g, i, c) => g = 1 /\ i \in 1..Len(r.class_ids) /\ r.class_ids[i] = c
    BY <1>1 DEF At
  <2>2. \A g \in 1..Len(b) : b[g].class_ids \in Seq(C)
    BY <1>1
  <2> QED BY <2>1, <2>2, <1>1 DEF Parts
<1>5. Held(a) \cap Held(b) = {}
  BY <1>3
<1>6. /\ f \in Seq(V) /\ Parts(f, C)
      /\ Held(f) = Held(a) \cup Held(b)
      /\ Len(f) = Len(a) + Len(b)
      /\ \A g \in 1..Len(a) : f[g] = a[g]
      /\ \A g \in 1..Len(b) : f[Len(a) + g] = b[g]
  <2>1. /\ a \o b \in Seq(V) /\ Parts(a \o b, C) /\ Held(a \o b) = Held(a) \cup Held(b)
        /\ Len(a \o b) = Len(a) + Len(b)
        /\ \A g \in 1..Len(a) : (a \o b)[g] = a[g]
        /\ \A g \in 1..Len(b) : (a \o b)[Len(a) + g] = b[g]
    BY <1>1, <1>4, <1>5, PartsTogether
  <2> QED BY <2>1, <1>2
<1>7. 1 \in 1..Len(b)
  BY <1>1
<1> QED BY <1>1, <1>3, <1>6, <1>7 DEF f

-----------------------------------------------------------------------------
(* The audit *)

\* A function on 1..n is a sequence.
LEMMA ASequence ==
  ASSUME NEW n \in Nat, NEW V, NEW s, s = [k \in 1..n |-> s[k]], \A k \in 1..n : s[k] \in V
  PROVE  s \in Seq(V) /\ Len(s) = n /\ DOMAIN s = 1..n
<1>1. [k \in 1..n |-> s[k]] \in [1..n -> V]
  OBVIOUS
<1>2. s \in [1..n -> V]
  BY <1>1, Zenon
<1> QED BY <1>2

\* A finite set of numbers in order is a sequence of its members, each once.
LEMMA InOrderIsASeq ==
  ASSUME NEW S, S \subseteq Nat, IsFiniteSet(S), NEW C, S \subseteq C
  PROVE  /\ InOrder(S) \in Seq(C)
         /\ ToSet(InOrder(S)) = S
         /\ \A i, j \in 1..Len(InOrder(S)) : InOrder(S)[i] = InOrder(S)[j] => i = j
<1> DEFINE t == InOrder(S)
           m == Cardinality(S)
<1>1. Rises(t, S)
  BY InOrderRises
<1>2. m \in Nat /\ DOMAIN t = 1..m
  BY <1>1 DEF Rises
<1>3. t = [k \in 1..m |-> t[k]]
  BY RankedIsAFunction DEF InOrder
<1> HIDE DEF t, m
<1>4. \A k \in 1..m : t[k] \in S
  BY <1>1, <1>2 DEF Rises
<1>5. t \in Seq(C) /\ Len(t) = m
  <2>1. \A k \in 1..m : t[k] \in C
    BY <1>4
  <2> QED BY <2>1, <1>2, <1>3, ASequence
<1>6. ToSet(t) = S
  BY <1>1, <1>2, <1>4 DEF Rises, ToSet
<1>7. \A i, j \in 1..m : t[i] = t[j] => i = j
  BY <1>1, <1>2, RisesOnce
<1> QED BY <1>5, <1>6, <1>7 DEF t

\* The back-fill, if there is one, holds what was left out.
Backfilled(W, M) ==
  /\ \A g \in 1..Len(W) : W[g].backfill => ~W[g].skim /\ Members(W[g]) = M
  /\ M # {} => \E g \in 1..Len(W) : W[g].backfill

Claimed(raw, offered) ==
  [g \in 1..Len(raw) |-> [skim |-> raw[g].skim, backfill |-> FALSE,
                          class_ids |-> Kept(raw, offered, g)]]

\* What the audit keeps of an answer holds each class the answer names, once.
LEMMA KeptParts ==
  ASSUME NEW C, NEW offered, offered \subseteq C, NEW raw, IsAnswer(raw)
  PROVE  /\ Claimed(raw, offered) \in Seq(WorkGroup(C)) /\ Parts(Claimed(raw, offered), C)
         /\ Held(Claimed(raw, offered)) = offered \ Missing(raw, offered)
         /\ \A g \in 1..Len(Claimed(raw, offered)) : ~Claimed(raw, offered)[g].backfill
<1> DEFINE K == Claimed(raw, offered)
           N == Len(raw)
           Places(g) == {i \in DOMAIN raw[g].classes : Claims(raw, offered, g, i)}
           at == [g \in 1..N |-> InOrder(Places(g))]
<1>1. N \in Nat /\ DOMAIN raw = 1..N
  BY DEF IsAnswer
<1>2. ASSUME NEW g \in 1..N
      PROVE  /\ Kept(raw, offered, g) \in Seq(C)
             /\ Selects(at[g], raw[g].classes, Places(g), Kept(raw, offered, g))
             /\ \A i \in Places(g) : Named(raw, g, i, raw[g].classes[i])
                                     /\ Claims(raw, offered, g, i)
                                     /\ raw[g].classes[i] \in offered
  <2>1. Len(raw[g].classes) \in Nat /\ DOMAIN raw[g].classes = 1..Len(raw[g].classes)
    BY <1>1 DEF IsAnswer
  <2>2. Places(g) \in SUBSET (1..Len(raw[g].classes))
    BY <2>1
  <2>3. IsFiniteSet(Places(g)) /\ Places(g) \subseteq Nat
    <3> HIDE DEF Places
    <3> QED BY <2>1, <2>2, FinitePlaces
  <2>4. \A i \in Places(g) : Claims(raw, offered, g, i) /\ raw[g].classes[i] \in offered
    BY DEF Claims
  <2>5. \A i \in Places(g) : Named(raw, g, i, raw[g].classes[i])
    BY <2>2, <1>1 DEF Named
  <2>6. at[g] = InOrder(Places(g)) /\ Kept(raw, offered, g) = Taken(raw[g].classes, Places(g))
    BY DEF Kept
  <2>7. \A i \in Places(g) : raw[g].classes[i] \in C
    BY <2>4
  <2> HIDE DEF Places, at
  <2>8. /\ Taken(raw[g].classes, Places(g)) \in Seq(C)
        /\ Selects(InOrder(Places(g)), raw[g].classes, Places(g), Taken(raw[g].classes, Places(g)))
    BY <2>3, <2>7, TakenSelects
  <2> QED BY <2>4, <2>5, <2>6, <2>8
<1> HIDE DEF Places, at, N
<1>3. /\ DOMAIN K = 1..N
      /\ \A g \in 1..N : /\ K[g] = [skim |-> raw[g].skim, backfill |-> FALSE,
                                    class_ids |-> Kept(raw, offered, g)]
                         /\ K[g].class_ids = Kept(raw, offered, g)
                         /\ ~K[g].backfill /\ K[g] \in WorkGroup(C)
  <2>1. \A g \in 1..N : raw[g].skim \in BOOLEAN
    BY <1>1 DEF IsAnswer
  <2> QED BY <2>1, <1>2 DEF N, WorkGroup, Claimed
<1>4. K \in Seq(WorkGroup(C)) /\ Len(K) = N
  <2>1. K = [g \in 1..N |-> K[g]]
    BY DEF N, Claimed
  <2> HIDE DEF K
  <2> QED BY <2>1, <1>1, <1>3, ASequence
<1> HIDE DEF K
<1>5. ASSUME NEW g, NEW i, NEW c, At(K, g, i, c)
      PROVE  /\ g \in 1..N /\ i \in 1..Len(Kept(raw, offered, g)) /\ c \in offered
             /\ Named(raw, g, at[g][i], c) /\ Claims(raw, offered, g, at[g][i])
  <2>1. g \in 1..N /\ i \in 1..Len(Kept(raw, offered, g)) /\ Kept(raw, offered, g)[i] = c
    BY <1>3, <1>4, <1>5 DEF At
  <2>2. at[g][i] \in Places(g) /\ c = raw[g].classes[at[g][i]]
    BY <2>1, <1>2 DEF Selects
  <2> QED BY <2>1, <2>2, <1>2
<1>6. Parts(K, C)
  <2>1. ASSUME NEW g, NEW h, NEW i, NEW j, NEW c, At(K, g, i, c), At(K, h, j, c)
        PROVE  g = h /\ i = j
    <3>1. c \in offered
      BY <2>1, <1>5
    <3>2. g = h /\ at[g][i] = at[h][j]
      BY <2>1, <3>1, <1>5, ClaimedOnce
    <3>3. Selects(at[g], raw[g].classes, Places(g), Kept(raw, offered, g))
          /\ i \in 1..Len(Kept(raw, offered, g)) /\ j \in 1..Len(Kept(raw, offered, g))
      BY <2>1, <3>2, <1>2, <1>5
    <3> QED BY <3>2, <3>3 DEF Selects
  <2> QED BY <2>1, <1>1, <1>2, <1>3, <1>4 DEF Parts
<1>7. Held(K) = offered \ Missing(raw, offered)
  <2>1. ASSUME NEW c, c \in Held(K) PROVE c \in offered \ Missing(raw, offered)
    <3>1. PICK g, i : At(K, g, i, c)
      BY <2>1, <1>6, HeldSomewhere
    <3> QED BY <3>1, <1>5, MissingIsUnnamed
  <2>2. ASSUME NEW c \in offered, c \notin Missing(raw, offered) PROVE c \in Held(K)
    <3>1. \E g, i : Named(raw, g, i, c)
      BY <2>2, MissingIsUnnamed
    <3>2. PICK g, i : Named(raw, g, i, c) /\ Claims(raw, offered, g, i)
      BY <3>1, ClaimedOnce
    <3>3. g \in 1..N /\ i \in Places(g) /\ raw[g].classes[i] = c
      BY <3>2, <1>1 DEF Named, Places, IsAnswer, N
    <3>4. PICK k \in 1..Len(Kept(raw, offered, g)) : at[g][k] = i
      BY <3>3, <1>2 DEF Selects
    <3>5. Kept(raw, offered, g)[k] = c
      BY <3>3, <3>4, <1>2 DEF Selects
    <3>6. At(K, g, k, c)
      BY <3>3, <3>4, <3>5, <1>3, <1>4 DEF At
    <3> QED BY <3>6, <1>6, HeldSomewhere
  <2> QED BY <2>1, <2>2
<1> QED BY <1>3, <1>4, <1>6, <1>7 DEF K

\* The audit puts each offered class in one group, and in the back-fill those
\* the model left out.
LEMMA AuditPlacesEach ==
  ASSUME NEW C, NEW offered, offered \subseteq C, offered \subseteq Nat, IsFiniteSet(offered),
         NEW raw, IsAnswer(raw)
  PROVE  /\ Audit(raw, offered) \in Seq(WorkGroup(C)) /\ Parts(Audit(raw, offered), C)
         /\ Held(Audit(raw, offered)) = offered /\ NoneEmpty(Audit(raw, offered))
         /\ Backfilled(Audit(raw, offered), Missing(raw, offered))
<1> DEFINE M == Missing(raw, offered)
           K == Claimed(raw, offered)
           claimed == Nonempty(K)
           r == [skim |-> FALSE, backfill |-> TRUE, class_ids |-> InOrder(M)]
           W == Audit(raw, offered)
<1>1. W = IF M = {} THEN claimed ELSE Append(claimed, r)
  BY DEF Audit, Claimed
<1>2. /\ K \in Seq(WorkGroup(C)) /\ Parts(K, C) /\ Held(K) = offered \ M
      /\ \A g \in 1..Len(K) : ~K[g].backfill
  BY KeptParts
<1> HIDE DEF K
<1>3. /\ claimed \in Seq(WorkGroup(C)) /\ Parts(claimed, C) /\ NoneEmpty(claimed)
      /\ Held(claimed) = offered \ M
      /\ \A k \in 1..Len(claimed) : ~claimed[k].backfill
  <2>1. /\ claimed \in Seq(WorkGroup(C)) /\ Parts(claimed, C) /\ NoneEmpty(claimed)
        /\ Held(claimed) = Held(K) /\ Keeps(claimed, K)
    BY <1>2, NonemptyParts
  <2> HIDE DEF claimed
  <2> QED BY <2>1, <1>2 DEF Keeps
<1>4. M \in SUBSET offered
  BY DEF Missing
<1>5. IsFiniteSet(M) /\ M \subseteq Nat /\ M \subseteq C
  <2> HIDE DEF M
  <2> QED BY <1>4, FS_Subset
<1> HIDE DEF claimed, W, M
<1>6. CASE M = {}
  BY <1>1, <1>3, <1>6 DEF Backfilled, W, M
<1>7. CASE M # {}
  <2>1. /\ InOrder(M) \in Seq(C) /\ ToSet(InOrder(M)) = M
        /\ \A i, j \in 1..Len(InOrder(M)) : InOrder(M)[i] = InOrder(M)[j] => i = j
    BY <1>5, InOrderIsASeq
  <2>2. /\ r \in WorkGroup(C) /\ r.class_ids = InOrder(M) /\ r.backfill /\ ~r.skim
    BY <2>1 DEF WorkGroup
  <2>3. Members(r) = M
    BY <2>1 DEF Members
  <2> HIDE DEF r
  <2>4. Members(r) \cap Held(claimed) = {}
    BY <2>3, <1>3
  <2>5. /\ Append(claimed, r) \in Seq(WorkGroup(C)) /\ Parts(Append(claimed, r), C)
        /\ Held(Append(claimed, r)) = Held(claimed) \cup Members(r)
        /\ Len(Append(claimed, r)) = Len(claimed) + 1
        /\ Append(claimed, r)[Len(claimed) + 1] = r
        /\ \A g \in 1..Len(claimed) : Append(claimed, r)[g] = claimed[g]
    BY <2>1, <2>2, <2>4, <1>3, OnePartMore
  <2>6. W = Append(claimed, r)
    BY <1>1, <1>7
  <2>7. Len(claimed) \in Nat
    BY <1>3 DEF Parts
  <2>8. \A g \in 1..Len(W) : g \in 1..Len(claimed) \/ g = Len(claimed) + 1
    BY <2>5, <2>6, <2>7
  <2>9. Len(claimed) + 1 \in 1..Len(W)
    BY <2>5, <2>6, <2>7
  <2>10. NoneEmpty(W)
    <3>1. r.class_ids # <<>>
      BY <2>1, <2>2, <2>3, <1>7, MembersAre
    <3> QED BY <3>1, <2>5, <2>6, <2>8, <1>3 DEF NoneEmpty
  <2>11. Backfilled(W, M)
    BY <2>2, <2>3, <2>5, <2>6, <2>8, <2>9, <1>3 DEF Backfilled
  <2>12. Held(W) = offered
    BY <2>3, <2>5, <2>6, <1>3, <1>4
  <2> QED BY <2>5, <2>6, <2>10, <2>11, <2>12 DEF W, M
<1> QED BY <1>6, <1>7

-----------------------------------------------------------------------------
(* The relocation gate *)

\* Whether the gate draws a class out of a group.
Out(g, gated, c) == g.skim /\ c \in gated

\* What the gate leaves of each group.
Remains(W, gated) == [i \in DOMAIN W |-> Left(W[i], gated)]

\* A group of the audit, field by field.
LEMMA AWorkGroup ==
  ASSUME NEW C, NEW a \in BOOLEAN, NEW b \in BOOLEAN, NEW ids \in Seq(C)
  PROVE  [skim |-> a, backfill |-> b, class_ids |-> ids] \in WorkGroup(C)
  BY DEF WorkGroup

\* What the gate leaves in the groups it was given gives no class two places.
LEMMA RemainsParts ==
  ASSUME NEW C, NEW W \in Seq(WorkGroup(C)), Parts(W, C), NEW gated
  PROVE  /\ Remains(W, gated) \in Seq(WorkGroup(C)) /\ Parts(Remains(W, gated), C)
         /\ Len(Remains(W, gated)) = Len(W)
         /\ \A g \in 1..Len(W) :
               /\ Remains(W, gated)[g].skim = W[g].skim
               /\ Remains(W, gated)[g].backfill = W[g].backfill
               /\ \A c : c \in Members(Remains(W, gated)[g])
                     <=> c \in Members(W[g]) /\ ~Out(W[g], gated, c)
<1> DEFINE N == Len(W)
           L == Remains(W, gated)
           ids == [g \in 1..N |-> W[g].class_ids]
           Places(g) == {i \in DOMAIN ids[g] : ~(W[g].skim /\ ids[g][i] \in gated)}
           at == [g \in 1..N |-> InOrder(Places(g))]
<1>1. N \in Nat /\ DOMAIN W = 1..N /\ \A g \in 1..N : W[g] \in WorkGroup(C)
  BY LenProperties, ElementOfSeq
<1>2. ASSUME NEW g \in 1..N
      PROVE  /\ W[g] = [skim |-> W[g].skim, backfill |-> W[g].backfill, class_ids |-> ids[g]]
             /\ ids[g] \in Seq(C) /\ ids[g] = W[g].class_ids
             /\ W[g].skim \in BOOLEAN /\ W[g].backfill \in BOOLEAN
  BY <1>1 DEF WorkGroup
<1>3. ASSUME NEW g \in 1..N
      PROVE  /\ L[g] = [skim |-> W[g].skim, backfill |-> W[g].backfill,
                        class_ids |-> Taken(ids[g], Places(g))]
             /\ Taken(ids[g], Places(g)) \in Seq(C)
             /\ Selects(at[g], ids[g], Places(g), Taken(ids[g], Places(g)))
             /\ \A i : i \in Places(g) <=> i \in 1..Len(ids[g]) /\ ~Out(W[g], gated, ids[g][i])
             /\ L[g] \in WorkGroup(C) /\ L[g].class_ids = Taken(ids[g], Places(g))
             /\ L[g].skim = W[g].skim /\ L[g].backfill = W[g].backfill
  <2>1. Len(ids[g]) \in Nat /\ DOMAIN ids[g] = 1..Len(ids[g])
        /\ \A i \in 1..Len(ids[g]) : ids[g][i] \in C
    <3> HIDE DEF ids
    <3> QED BY <1>2, LenProperties, ElementOfSeq
  <2>2. L[g] = [W[g] EXCEPT !.class_ids = Taken(ids[g], Places(g))]
    BY <1>1, <1>2 DEF Remains, Left
  <2>3. Places(g) \in SUBSET (1..Len(ids[g]))
    BY <2>1
  <2>4. \A i : i \in Places(g) <=> i \in 1..Len(ids[g]) /\ ~Out(W[g], gated, ids[g][i])
    BY <2>1 DEF Out
  <2>5. at[g] = InOrder(Places(g))
    OBVIOUS
  <2> HIDE DEF Places, ids, at, L
  <2>6. IsFiniteSet(Places(g)) /\ Places(g) \subseteq Nat
    BY <2>1, <2>3, FinitePlaces
  <2>7. \A i \in Places(g) : ids[g][i] \in C
    BY <2>1, <2>3
  <2>8. Taken(ids[g], Places(g)) \in Seq(C)
        /\ Selects(InOrder(Places(g)), ids[g], Places(g), Taken(ids[g], Places(g)))
    BY <2>6, <2>7, TakenSelects
  <2>9. L[g] = [skim |-> W[g].skim, backfill |-> W[g].backfill,
                class_ids |-> Taken(ids[g], Places(g))]
    BY <2>2, <1>2
  <2>10. L[g] \in WorkGroup(C)
    <3>1. PICK a, b, t : a = W[g].skim /\ b = W[g].backfill /\ t = Taken(ids[g], Places(g))
      OBVIOUS
    <3>2. a \in BOOLEAN /\ b \in BOOLEAN /\ t \in Seq(C)
      BY <3>1, <2>8, <1>2, Zenon
    <3>3. [skim |-> a, backfill |-> b, class_ids |-> t] \in WorkGroup(C)
      BY <3>2, AWorkGroup, Zenon
    <3> QED BY <3>1, <3>3, <2>9, Zenon
  <2>11. L[g].class_ids = Taken(ids[g], Places(g)) /\ L[g].skim = W[g].skim
         /\ L[g].backfill = W[g].backfill
    BY <2>9
  <2> QED BY <2>4, <2>5, <2>8, <2>9, <2>10, <2>11
<1>4. L = [g \in 1..N |-> L[g]]
  BY <1>1 DEF Remains
<1> HIDE DEF Places, at, ids, L, N
<1>5. L \in Seq(WorkGroup(C)) /\ Len(L) = N /\ DOMAIN L = 1..N
  <2>1. \A g \in 1..N : L[g] \in WorkGroup(C)
    BY <1>3
  <2> QED BY <2>1, <1>1, <1>4, ASequence
<1>6. ASSUME NEW g, NEW i, NEW c, At(L, g, i, c)
      PROVE  /\ g \in 1..N /\ i \in 1..Len(Taken(ids[g], Places(g)))
             /\ At(W, g, at[g][i], c) /\ ~Out(W[g], gated, c)
  <2>1. g \in 1..N /\ i \in 1..Len(Taken(ids[g], Places(g))) /\ Taken(ids[g], Places(g))[i] = c
    BY <1>3, <1>5, <1>6 DEF At
  <2>2. at[g][i] \in Places(g) /\ ids[g][at[g][i]] = c
    BY <2>1, <1>3 DEF Selects
  <2>3. at[g][i] \in 1..Len(ids[g]) /\ ~Out(W[g], gated, c)
    BY <2>1, <2>2, <1>3
  <2> QED BY <2>1, <2>2, <2>3, <1>2 DEF At, N
<1>7. Parts(L, C)
  <2>1. ASSUME NEW g, NEW h, NEW i, NEW j, NEW c, At(L, g, i, c), At(L, h, j, c)
        PROVE  g = h /\ i = j
    <3>1. g = h /\ at[g][i] = at[h][j]
      BY <2>1, <1>6 DEF Parts
    <3>2. Selects(at[g], ids[g], Places(g), Taken(ids[g], Places(g)))
          /\ i \in 1..Len(Taken(ids[g], Places(g))) /\ j \in 1..Len(Taken(ids[g], Places(g)))
      BY <2>1, <3>1, <1>3, <1>6
    <3> QED BY <3>1, <3>2 DEF Selects
  <2>2. \A g \in 1..N : L[g].class_ids \in Seq(C)
    BY <1>3
  <2> QED BY <2>1, <2>2, <1>1, <1>5 DEF Parts
<1>8. ASSUME NEW g \in 1..N, NEW c
      PROVE  c \in Members(L[g]) <=> c \in Members(W[g]) /\ ~Out(W[g], gated, c)
  <2>1. c \in Members(L[g]) <=> \E i : At(L, g, i, c)
    BY <1>5, <1>7, HeldSomewhere
  <2>2. c \in Members(W[g]) <=> \E i : At(W, g, i, c)
    BY HeldSomewhere DEF N
  <2>3. ASSUME NEW i, At(W, g, i, c), ~Out(W[g], gated, c) PROVE \E k : At(L, g, k, c)
    <3>1. i \in 1..Len(ids[g]) /\ ids[g][i] = c
      BY <2>3, <1>2 DEF At
    <3>2. i \in Places(g)
      BY <2>3, <3>1, <1>3
    <3>3. PICK k \in 1..Len(Taken(ids[g], Places(g))) : at[g][k] = i
      BY <3>2, <1>3 DEF Selects
    <3>4. Taken(ids[g], Places(g))[k] = c
      BY <3>1, <3>3, <1>3 DEF Selects
    <3>5. At(L, g, k, c)
      BY <3>3, <3>4, <1>3, <1>5 DEF At
    <3> QED BY <3>5
  <2> QED BY <2>1, <2>2, <2>3, <1>6
<1>9. \A g \in 1..N : L[g].skim = W[g].skim /\ L[g].backfill = W[g].backfill
  BY <1>3
<1> QED BY <1>5, <1>7, <1>8, <1>9 DEF L, N

Extracted(W, gated) == FlattenSeq([i \in DOMAIN W |-> Drawn(W[i], gated)])

\* What the gate draws out of skim groups: each gated class of theirs, once.
LEMMA ExtractedOnce ==
  ASSUME NEW C, NEW W \in Seq(WorkGroup(C)), Parts(W, C), NEW gated
  PROVE  /\ Extracted(W, gated) \in Seq(C)
         /\ \A c : c \in ToSet(Extracted(W, gated)) <=>
               \E g \in 1..Len(W) : c \in Members(W[g]) /\ Out(W[g], gated, c)
         /\ \A k, l \in 1..Len(Extracted(W, gated)) :
               Extracted(W, gated)[k] = Extracted(W, gated)[l] => k = l
<1> DEFINE N == Len(W)
           D == [i \in DOMAIN W |-> Drawn(W[i], gated)]
           F == Extracted(W, gated)
           ids == [g \in 1..N |-> W[g].class_ids]
           Places(g) == {i \in DOMAIN ids[g] : ids[g][i] \in gated}
           at == [g \in 1..N |-> InOrder(Places(g))]
<1>1. N \in Nat /\ DOMAIN W = 1..N /\ \A g \in 1..N : W[g] \in WorkGroup(C)
  BY LenProperties, ElementOfSeq
<1>2. ASSUME NEW g \in 1..N
      PROVE  /\ ids[g] \in Seq(C) /\ ids[g] = W[g].class_ids
             /\ Len(ids[g]) \in Nat /\ DOMAIN ids[g] = 1..Len(ids[g])
             /\ \A i \in 1..Len(ids[g]) : ids[g][i] \in C
  <2>1. ids[g] \in Seq(C) /\ ids[g] = W[g].class_ids
    BY <1>1 DEF WorkGroup
  <2> HIDE DEF ids
  <2> QED BY <2>1, LenProperties, ElementOfSeq
<1>3. ASSUME NEW g \in 1..N
      PROVE  /\ Taken(ids[g], Places(g)) \in Seq(C)
             /\ Selects(at[g], ids[g], Places(g), Taken(ids[g], Places(g)))
             /\ \A i : i \in Places(g) <=> i \in 1..Len(ids[g]) /\ ids[g][i] \in gated
             /\ W[g].skim => D[g] = Taken(ids[g], Places(g))
             /\ ~W[g].skim => D[g] = <<>>
  <2>1. Places(g) \in SUBSET (1..Len(ids[g]))
    BY <1>2
  <2>2. \A i : i \in Places(g) <=> i \in 1..Len(ids[g]) /\ ids[g][i] \in gated
    BY <1>2
  <2>3. at[g] = InOrder(Places(g))
    OBVIOUS
  <2>4. D[g] = IF W[g].skim THEN Taken(ids[g], Places(g)) ELSE <<>>
    BY <1>1, <1>2 DEF Drawn
  <2> HIDE DEF Places, ids, at, D
  <2>5. IsFiniteSet(Places(g)) /\ Places(g) \subseteq Nat
    BY <2>1, <1>2, FinitePlaces
  <2>6. \A i \in Places(g) : ids[g][i] \in C
    BY <2>1, <1>2
  <2>7. Taken(ids[g], Places(g)) \in Seq(C)
        /\ Selects(InOrder(Places(g)), ids[g], Places(g), Taken(ids[g], Places(g)))
    BY <2>5, <2>6, TakenSelects
  <2> QED BY <2>2, <2>3, <2>4, <2>7
<1>4. D = [g \in 1..N |-> D[g]] /\ F = FlattenSeq(D)
  BY <1>1 DEF Extracted
<1> HIDE DEF Places, at, ids, D, F, N
<1>5. D \in Seq(Seq(C)) /\ Len(D) = N
  <2>1. <<>> \in Seq(C)
    BY EmptySeq
  <2>2. \A g \in 1..N : D[g] \in Seq(C)
    BY <2>1, <1>3
  <2> QED BY <2>2, <1>1, <1>4, ASequence
<1>6. F \in Seq(C) /\ \E row, col : EndToEnd(F, row, col, D, N)
  BY <1>4, <1>5, FlattenLays
<1>7. Len(F) \in Nat /\ DOMAIN F = 1..Len(F)
  BY <1>6, LenProperties
<1>8. PICK row, col : EndToEnd(F, row, col, D, N)
  BY <1>6
<1>9. ASSUME NEW g \in 1..N, NEW j \in 1..Len(D[g])
      PROVE  /\ W[g].skim /\ D[g] = Taken(ids[g], Places(g))
             /\ At(W, g, at[g][j], D[g][j]) /\ Out(W[g], gated, D[g][j])
  <2>1. W[g].skim
    <3>1. Len(<<>>) = 0
      BY EmptySeq
    <3> QED BY <3>1, <1>3, <1>9
  <2>2. D[g] = Taken(ids[g], Places(g))
    BY <2>1, <1>3
  <2>3. at[g][j] \in Places(g) /\ D[g][j] = ids[g][at[g][j]]
    BY <2>2, <1>3, <1>9 DEF Selects
  <2>4. at[g][j] \in 1..Len(ids[g]) /\ D[g][j] \in gated
    BY <2>3, <1>3
  <2> QED BY <2>1, <2>2, <2>3, <2>4, <1>2 DEF At, Out, N
<1>10. ASSUME NEW k \in 1..Len(F)
       PROVE  /\ row[k] \in 1..N /\ col[k] \in 1..Len(D[row[k]]) /\ F[k] = D[row[k]][col[k]]
              /\ At(W, row[k], at[row[k]][col[k]], F[k]) /\ Out(W[row[k]], gated, F[k])
  <2>1. row[k] \in 1..N /\ col[k] \in 1..Len(D[row[k]]) /\ F[k] = D[row[k]][col[k]]
    BY <1>8 DEF EndToEnd
  <2> QED BY <2>1, <1>9
<1>11. ASSUME NEW k \in 1..Len(F), NEW l \in 1..Len(F), F[k] = F[l] PROVE k = l
  <2>1. row[k] = row[l] /\ at[row[k]][col[k]] = at[row[l]][col[l]]
    BY <1>10, <1>11 DEF Parts
  <2>2. D[row[k]] = Taken(ids[row[k]], Places(row[k]))
        /\ Selects(at[row[k]], ids[row[k]], Places(row[k]), Taken(ids[row[k]], Places(row[k])))
    BY <1>3, <1>9, <1>10
  <2>3. col[k] = col[l]
    <3>1. PICK g : g = row[k]
      OBVIOUS
    <3>2. PICK t : t = Taken(ids[g], Places(g))
      OBVIOUS
    <3>3. col[k] \in 1..Len(t) /\ col[l] \in 1..Len(t) /\ at[g][col[k]] = at[g][col[l]]
      BY <3>1, <3>2, <2>1, <2>2, <1>10
    <3>4. Selects(at[g], ids[g], Places(g), t)
      BY <3>1, <3>2, <2>2
    <3> QED BY <3>3, <3>4 DEF Selects
  <2>4. row[k] \in Int /\ col[k] \in Int /\ k \in Int /\ l \in Int
    <3>1. col[k] \in 1..Len(Taken(ids[row[k]], Places(row[k])))
          /\ Len(Taken(ids[row[k]], Places(row[k]))) \in Nat
      BY <2>2, <1>10 DEF Selects
    <3> QED BY <3>1, <1>1, <1>7, <1>10
  <2>5. ~(k < l) /\ ~(l < k)
    BY <2>1, <2>3, <2>4, <1>8 DEF EndToEnd
  <2> QED BY <2>4, <2>5
<1>12. ASSUME NEW c
       PROVE  c \in ToSet(F) <=> \E g \in 1..N : c \in Members(W[g]) /\ Out(W[g], gated, c)
  <2>1. c \in ToSet(F) <=> \E k \in 1..Len(F) : F[k] = c
    BY <1>7 DEF ToSet
  <2>2. \A g \in 1..N : c \in Members(W[g]) <=> \E i : At(W, g, i, c)
    BY HeldSomewhere DEF N
  <2>3. ASSUME NEW k \in 1..Len(F), F[k] = c
        PROVE  \E g \in 1..N : c \in Members(W[g]) /\ Out(W[g], gated, c)
    BY <2>2, <2>3, <1>10
  <2>4. ASSUME NEW g \in 1..N, NEW i, At(W, g, i, c), Out(W[g], gated, c)
        PROVE  \E k \in 1..Len(F) : F[k] = c
    <3>1. W[g].skim /\ i \in 1..Len(ids[g]) /\ ids[g][i] = c /\ c \in gated
      BY <2>4, <1>2 DEF At, Out
    <3>2. i \in Places(g) /\ D[g] = Taken(ids[g], Places(g))
      BY <3>1, <1>3
    <3>5. PICK t : t = Taken(ids[g], Places(g))
      OBVIOUS
    <3>6. Selects(at[g], ids[g], Places(g), t) /\ D[g] = t
      BY <3>2, <3>5, <1>3
    <3>7. PICK j \in 1..Len(t) : at[g][j] = i
      BY <3>2, <3>6 DEF Selects
    <3>8. t[j] = c
      BY <3>1, <3>6, <3>7 DEF Selects
    <3>3. j \in 1..Len(D[g]) /\ at[g][j] = i /\ D[g][j] = c
      BY <3>6, <3>7, <3>8
    <3>4. PICK k \in 1..Len(F) : row[k] = g /\ col[k] = j
      BY <3>3, <1>8 DEF EndToEnd
    <3> QED BY <3>3, <3>4, <1>10
  <2> QED BY <2>1, <2>2, <2>3, <2>4
<1> QED BY <1>6, <1>11, <1>12 DEF F, N

\* The gate loses no class, and leaves no skim group one that it draws out.
LEMMA GatePlacesEach ==
  ASSUME NEW C, NEW W \in Seq(WorkGroup(C)), Parts(W, C), NoneEmpty(W), NEW M,
         Backfilled(W, M), NEW gated
  PROVE  /\ Gate(W, gated) \in Seq(WorkGroup(C)) /\ Parts(Gate(W, gated), C)
         /\ Held(Gate(W, gated)) = Held(W) /\ NoneEmpty(Gate(W, gated))
         /\ Backfilled(Gate(W, gated), M)
         /\ \A g \in 1..Len(Gate(W, gated)) :
               Gate(W, gated)[g].skim => Members(Gate(W, gated)[g]) \cap gated = {}
<1> DEFINE L == Remains(W, gated)
           F == Extracted(W, gated)
           left == Nonempty(L)
           r == [skim |-> FALSE, backfill |-> FALSE, class_ids |-> F]
           G == Gate(W, gated)
<1>1. G = IF F = <<>> THEN left ELSE Append(left, r)
  BY DEF Gate, Extracted, Remains
<1>2. /\ L \in Seq(WorkGroup(C)) /\ Parts(L, C) /\ Len(L) = Len(W)
      /\ \A g \in 1..Len(W) :
            /\ L[g].skim = W[g].skim /\ L[g].backfill = W[g].backfill
            /\ \A c : c \in Members(L[g]) <=> c \in Members(W[g]) /\ ~Out(W[g], gated, c)
  BY RemainsParts
<1>3. /\ F \in Seq(C)
      /\ \A c : c \in ToSet(F) <=>
            \E g \in 1..Len(W) : c \in Members(W[g]) /\ Out(W[g], gated, c)
      /\ \A k, l \in 1..Len(F) : F[k] = F[l] => k = l
  BY ExtractedOnce
<1> HIDE DEF L, F
<1>4. /\ left \in Seq(WorkGroup(C)) /\ Parts(left, C) /\ NoneEmpty(left)
      /\ Held(left) = Held(L)
      /\ \A k \in 1..Len(left) : \E g \in 1..Len(L) : left[k] = L[g]
      /\ \A g \in 1..Len(L) : L[g].class_ids # <<>> => \E k \in 1..Len(left) : left[k] = L[g]
  <2>1. /\ left \in Seq(WorkGroup(C)) /\ Parts(left, C) /\ NoneEmpty(left)
        /\ Held(left) = Held(L) /\ Keeps(left, L)
    BY <1>2, NonemptyParts
  <2> HIDE DEF left
  <2> QED BY <2>1 DEF Keeps
<1> HIDE DEF left, G
<1>12. \A c : c \in Held(left) <=>
          \E g \in 1..Len(W) : c \in Members(W[g]) /\ ~Out(W[g], gated, c)
  <2>1. \A c : c \in Held(left) <=> \E g \in 1..Len(W) : c \in Members(L[g])
    <3>1. \A c : c \in Held(L) <=> \E g \in 1..Len(W) : c \in Members(L[g])
      BY <1>2 DEF Held
    <3> QED BY <3>1, <1>4
  <2> QED BY <2>1, <1>2
<1>5. Held(left) \subseteq Held(W)
  <2>1. \A c : c \in Held(W) <=> \E g \in 1..Len(W) : c \in Members(W[g])
    BY DEF Held
  <2> QED BY <2>1, <1>12
<1>6. Backfilled(left, M)
  <2>1. ASSUME NEW k \in 1..Len(left), left[k].backfill
        PROVE  ~left[k].skim /\ Members(left[k]) = M
    <3>1. PICK g \in 1..Len(W) : left[k] = L[g]
      BY <1>2, <1>4
    <3>2. ~W[g].skim /\ Members(W[g]) = M
      BY <2>1, <3>1, <1>2 DEF Backfilled
    <3> QED BY <3>1, <3>2, <1>2 DEF Out
  <2>2. ASSUME M # {} PROVE \E k \in 1..Len(left) : left[k].backfill
    <3>1. PICK g \in 1..Len(W) : W[g].backfill
      BY <2>2 DEF Backfilled
    <3>2. ~W[g].skim /\ Members(W[g]) = M
      BY <3>1 DEF Backfilled
    <3>3. Members(L[g]) = M
      BY <3>2, <1>2 DEF Out
    <3>4. L[g].class_ids \in Seq(C)
      BY <1>2 DEF Parts
    <3>5. L[g].class_ids # <<>>
      BY <2>2, <3>3, <3>4, MembersAre
    <3> QED BY <3>1, <3>5, <1>2, <1>4
  <2> QED BY <2>1, <2>2 DEF Backfilled
<1>7. ASSUME NEW k \in 1..Len(left), left[k].skim PROVE Members(left[k]) \cap gated = {}
  <2>1. PICK g \in 1..Len(W) : left[k] = L[g]
    BY <1>2, <1>4
  <2> QED BY <2>1, <1>2, <1>7 DEF Out
<1>8. ToSet(F) \cap Held(left) = {}
  <2>1. ASSUME NEW c, c \in ToSet(F), c \in Held(left) PROVE FALSE
    <3>1. PICK g \in 1..Len(W) : c \in Members(W[g]) /\ Out(W[g], gated, c)
      BY <2>1, <1>3
    <3>2. PICK h \in 1..Len(W) : c \in Members(W[h]) /\ ~Out(W[h], gated, c)
      BY <2>1, <1>12
    <3>3. g = h
      <4>1. PICK i : At(W, g, i, c)
        BY <3>1, HeldSomewhere
      <4>2. PICK j : At(W, h, j, c)
        BY <3>2, HeldSomewhere
      <4> QED BY <4>1, <4>2 DEF Parts
    <3> QED BY <3>1, <3>2, <3>3
  <2> QED BY <2>1
<1>9. Held(left) \cup ToSet(F) = Held(W)
  <2>1. ASSUME NEW c, c \in Held(W) PROVE c \in Held(left) \cup ToSet(F)
    <3>1. PICK g \in 1..Len(W) : c \in Members(W[g])
      BY <2>1 DEF Held
    <3>2. Out(W[g], gated, c) \/ c \in Members(L[g])
      BY <3>1, <1>2
    <3> QED BY <3>1, <3>2, <1>2, <1>3, <1>4 DEF Held
  <2>2. ToSet(F) \subseteq Held(W)
    BY <1>3 DEF Held
  <2> QED BY <2>1, <2>2, <1>5
<1>10. CASE F = <<>>
  <2>1. ToSet(F) = {}
    BY <1>10 DEF ToSet
  <2>2. G = left
    BY <1>1, <1>10
  <2> QED BY <2>1, <2>2, <1>4, <1>6, <1>7, <1>9 DEF G
<1>11. CASE F # <<>>
  <2>1. r \in WorkGroup(C) /\ r.class_ids = F /\ ~r.backfill /\ ~r.skim
    BY <1>3 DEF WorkGroup
  <2>2. Members(r) = ToSet(F)
    BY DEF Members
  <2> HIDE DEF r
  <2>3. /\ Append(left, r) \in Seq(WorkGroup(C)) /\ Parts(Append(left, r), C)
        /\ Held(Append(left, r)) = Held(left) \cup Members(r)
        /\ Len(Append(left, r)) = Len(left) + 1
        /\ Append(left, r)[Len(left) + 1] = r
        /\ \A g \in 1..Len(left) : Append(left, r)[g] = left[g]
    <3>1. Members(r) \cap Held(left) = {}
      BY <2>2, <1>8
    <3>2. /\ r.class_ids \in Seq(C)
          /\ \A i, j \in 1..Len(r.class_ids) : r.class_ids[i] = r.class_ids[j] => i = j
      BY <2>1, <1>3
    <3> QED BY <2>1, <3>1, <3>2, <1>4, OnePartMore
  <2>4. G = Append(left, r)
    BY <1>1, <1>11
  <2>5. Len(left) \in Nat
    BY <1>4 DEF Parts
  <2>6. \A g \in 1..Len(G) : (g \in 1..Len(left) /\ G[g] = left[g]) \/ G[g] = r
    BY <2>3, <2>4, <2>5
  <2>7. \A g \in 1..Len(left) : g \in 1..Len(G) /\ G[g] = left[g]
    BY <2>3, <2>4, <2>5
  <2>8. NoneEmpty(G)
    BY <2>1, <2>6, <1>4, <1>11 DEF NoneEmpty
  <2>9. Backfilled(G, M)
    BY <2>1, <2>6, <2>7, <1>6 DEF Backfilled
  <2>10. \A g \in 1..Len(G) : G[g].skim => Members(G[g]) \cap gated = {}
    BY <2>1, <2>6, <1>7
  <2>11. Held(G) = Held(W)
    BY <2>2, <2>3, <2>4, <1>9
  <2> QED BY <2>3, <2>4, <2>8, <2>9, <2>10, <2>11 DEF G
<1> QED BY <1>10, <1>11

-----------------------------------------------------------------------------
(* Tiers *)

GroupSet(C) == [effort : {"focus", "skim", "noise"}, class_ids : Seq(C)]

\* The groups of a tier are those at some places of what the gate leaves.
GivenFrom(t, W, places, effort) ==
  /\ \A k \in 1..Len(t) : \E g \in places :
        t[k].effort = effort /\ t[k].class_ids = W[g].class_ids
  /\ \A g \in places : \E k \in 1..Len(t) : t[k].class_ids = W[g].class_ids

\* The groups given to a tier are those at the places chosen, and hold what those hold.
LEMMA GivenParts ==
  ASSUME NEW C, NEW W, Parts(W, C), NEW places \in SUBSET (1..Len(W)),
         NEW effort \in {"focus", "skim", "noise"}
  PROVE  /\ Given(W, places, effort) \in Seq(GroupSet(C)) /\ Parts(Given(W, places, effort), C)
         /\ Held(Given(W, places, effort)) = UNION {Members(W[g]) : g \in places}
         /\ GivenFrom(Given(W, places, effort), W, places, effort)
<1> DEFINE chosen == Taken(W, places)
           at == InOrder(places)
           t == Given(W, places, effort)
           m == Len(chosen)
<1>1. Len(W) \in Nat /\ \A g \in places : W[g].class_ids \in Seq(C)
  BY DEF Parts
<1>2. IsFiniteSet(places) /\ places \subseteq Nat
  BY <1>1, FinitePlaces
<1>3. Selects(at, W, places, chosen)
  <2> DEFINE V == {W[g] : g \in places}
  <2>1. \A g \in places : W[g] \in V
    OBVIOUS
  <2> HIDE DEF V
  <2> QED BY <2>1, <1>2, TakenSelects
<1>4. t = [k \in DOMAIN chosen |-> [effort |-> effort, class_ids |-> chosen[k].class_ids]]
  BY DEF Given
<1> HIDE DEF chosen, at, t
<1>5. /\ m \in Nat /\ DOMAIN chosen = 1..m
      /\ \A k \in 1..m : at[k] \in places /\ chosen[k] = W[at[k]]
      /\ \A g \in places : \E k \in 1..m : at[k] = g
      /\ \A k, l \in 1..m : at[k] = at[l] => k = l
  BY <1>3 DEF Selects
<1>6. ASSUME NEW k \in 1..m
      PROVE  /\ t[k] = [effort |-> effort, class_ids |-> W[at[k]].class_ids]
             /\ t[k].effort = effort /\ t[k].class_ids = W[at[k]].class_ids
             /\ t[k] \in GroupSet(C)
  BY <1>1, <1>4, <1>5 DEF GroupSet
<1>7. t \in Seq(GroupSet(C)) /\ Len(t) = m /\ DOMAIN t = 1..m
  <2>1. t = [k \in 1..m |-> t[k]]
    BY <1>4, <1>5
  <2> HIDE DEF m
  <2> QED BY <2>1, <1>5, <1>6, ASequence
<1> HIDE DEF m
<1>8. Regroups(at, W, t)
  BY <1>5, <1>6, <1>7 DEF Regroups
<1>9. Parts(t, C) /\ Held(t) = UNION {Members(W[at[k]]) : k \in 1..Len(t)}
  BY <1>8, PartsOfParts
<1>10. Held(t) = UNION {Members(W[g]) : g \in places}
  <2>1. ASSUME NEW c, c \in Held(t) PROVE \E g \in places : c \in Members(W[g])
    <3>1. PICK k \in 1..m : c \in Members(W[at[k]])
      BY <2>1, <1>7, <1>9
    <3> QED BY <3>1, <1>5
  <2>2. ASSUME NEW g \in places, NEW c \in Members(W[g]) PROVE c \in Held(t)
    <3>1. PICK k \in 1..m : at[k] = g
      BY <1>5
    <3> QED BY <3>1, <1>7, <1>9
  <2> QED BY <2>1, <2>2
<1>11. GivenFrom(t, W, places, effort)
  <2>1. ASSUME NEW k \in 1..m
        PROVE  \E g \in places : t[k].effort = effort /\ t[k].class_ids = W[g].class_ids
    BY <1>5, <1>6
  <2>2. ASSUME NEW g \in places PROVE \E k \in 1..m : t[k].class_ids = W[g].class_ids
    <3>1. PICK k \in 1..m : at[k] = g
      BY <1>5
    <3> QED BY <3>1, <1>6
  <2> QED BY <2>1, <2>2, <1>7 DEF GivenFrom
<1> QED BY <1>7, <1>9, <1>10, <1>11 DEF t

\* Sorting the groups of a tier by size keeps them.
LEMMA BySizeParts ==
  ASSUME NEW ch \in Changes, NEW V, NEW t \in Seq(V), Parts(t, ClassIds(ch))
  PROVE  /\ BySize(ch, t) \in Seq(V) /\ Parts(BySize(ch, t), ClassIds(ch))
         /\ Held(BySize(ch, t)) = Held(t)
         /\ \A k \in 1..Len(BySize(ch, t)) : \E g \in 1..Len(t) : BySize(ch, t)[k] = t[g]
<1> DEFINE C == ClassIds(ch)
           n == Len(t)
           before == {p \in (DOMAIN t) \X (DOMAIN t) : Bigger(ch, t, p[1], p[2])}
           at == Ranked(DOMAIN t, before)
           b == BySize(ch, t)
<1>1. n \in Nat /\ DOMAIN t = 1..n /\ \A g \in 1..n : t[g] \in V
  BY LenProperties, ElementOfSeq
<1>2. \A g \in 1..n : HunkCount(ch, t[g]) \in Int
  <2>1. PICK bound \in Nat :
          \A g : Members(g) \subseteq ClassIds(ch) => HunkCount(ch, g) \in 0..bound
    BY HunkCountBound
  <2>2. \A g \in 1..n : Members(t[g]) \subseteq ClassIds(ch)
    <3>1. \A g \in 1..n : t[g].class_ids \in Seq(C)
      BY DEF Parts
    <3> QED BY <3>1, MembersAre
  <2>3. \A g \in 1..n : HunkCount(ch, t[g]) \in 0..bound
    BY <2>1, <2>2
  <2> QED BY <2>3
<1>3. \A i, j \in 1..n : <<i, j>> \in before <=>
         \/ HunkCount(ch, t[i]) > HunkCount(ch, t[j])
         \/ (HunkCount(ch, t[i]) = HunkCount(ch, t[j]) /\ i < j)
  BY <1>1 DEF Bigger
<1> HIDE DEF before
<1>4. Orders(before, 1..n)
  BY <1>1, <1>2, <1>3 DEF Orders
<1>5. IsFiniteSet(1..n) /\ Cardinality(1..n) = n
  <2>1. 1 \in Int /\ n \in Int /\ (IF 1 > n THEN 0 ELSE n - 1 + 1) = n
    BY <1>1
  <2> QED BY <2>1, FS_Interval
<1>6. Names(at, 1..n, before)
  <2>1. Names(Ranked(1..n, before), 1..n, before)
    <3> HIDE DEF n
    <3> QED BY <1>4, <1>5, RankedNamesEach
  <2> QED BY <2>1, <1>1
<1>7. b = [k \in DOMAIN t |-> t[at[k]]]
  BY DEF BySize, before
<1> HIDE DEF at, b, n
<1>8. /\ DOMAIN at = 1..n /\ \A k \in 1..n : at[k] \in 1..n
      /\ \A g \in 1..n : \E k \in 1..n : at[k] = g
  BY <1>5, <1>6 DEF Names
<1>9. \A k, l \in 1..n : at[k] = at[l] => k = l
  <2>1. \A k, l \in 1..n : k < l => <<at[k], at[l]>> \in before
    BY <1>6, <1>8 DEF Names
  <2>2. \A g \in 1..n : <<g, g>> \notin before
    BY <1>4 DEF Orders
  <2>3. \A k, l \in 1..n : k < l => at[k] # at[l]
    BY <2>1, <2>2, <1>8
  <2> QED BY <2>3, <1>1
<1>10. b \in Seq(V) /\ Len(b) = n /\ DOMAIN b = 1..n
  <2>1. b = [k \in 1..n |-> b[k]] /\ \A k \in 1..n : b[k] \in V
    BY <1>1, <1>7, <1>8
  <2> QED BY <2>1, <1>1, ASequence
<1>11. \A k \in 1..n : b[k] = t[at[k]]
  BY <1>1, <1>7
<1>12. Regroups(at, t, b)
  BY <1>1, <1>8, <1>9, <1>10, <1>11 DEF Regroups, n
<1>13. Parts(b, C) /\ Held(b) = UNION {Members(t[at[k]]) : k \in 1..Len(b)}
  <2> HIDE DEF C
  <2>1. Parts(t, C)
    BY DEF C
  <2> QED BY <2>1, <1>12, PartsOfParts
<1>14. Held(b) = Held(t)
  BY <1>8, <1>10, <1>13 DEF Held, n
<1> QED BY <1>8, <1>10, <1>11, <1>13, <1>14 DEF b, n

-----------------------------------------------------------------------------
(* Assembly *)

\* A group of the tier its classes belong to.
Fits(ch, r) ==
  /\ r.class_ids # <<>>
  /\ \A c \in Members(r) : /\ IsNoise(ch, c) <=> r.effort = "noise"
                           /\ c \in ch.rename_gated => r.effort # "skim"
AllFit(ch, G) == \A g \in 1..Len(G) : Fits(ch, G[g])

WellPlaced(ch, G, M) ==
  /\ G \in Seq(GroupSet(ClassIds(ch))) /\ Parts(G, ClassIds(ch)) /\ Held(G) = ClassIds(ch)
  /\ AllFit(ch, G)
  /\ M # {} => Len(G) # 0 /\ Members(G[Len(G)]) = M

\* Two tiers that fit and share no class, one after the other, fit.
LEMMA TiersTogether ==
  ASSUME NEW ch, NEW C, NEW a \in Seq(GroupSet(C)), NEW b \in Seq(GroupSet(C)),
         Parts(a, C), Parts(b, C), Held(a) \cap Held(b) = {}, AllFit(ch, a), AllFit(ch, b)
  PROVE  /\ a \o b \in Seq(GroupSet(C)) /\ Parts(a \o b, C) /\ AllFit(ch, a \o b)
         /\ Held(a \o b) = Held(a) \cup Held(b)
<1>1. /\ a \o b \in Seq(GroupSet(C)) /\ Parts(a \o b, C) /\ Held(a \o b) = Held(a) \cup Held(b)
      /\ Len(a \o b) = Len(a) + Len(b)
      /\ \A g \in 1..Len(a) : (a \o b)[g] = a[g]
      /\ \A g \in 1..Len(b) : (a \o b)[Len(a) + g] = b[g]
      /\ \A g \in 1..(Len(a) + Len(b)) :
            g \in 1..Len(a) \/ \E h \in 1..Len(b) : g = Len(a) + h
  BY PartsTogether
<1>2. AllFit(ch, a \o b)
  <2>1. ASSUME NEW g \in 1..(Len(a) + Len(b)) PROVE Fits(ch, (a \o b)[g])
    <3>1. CASE g \in 1..Len(a)
      BY <3>1, <1>1 DEF AllFit
    <3>2. CASE \E h \in 1..Len(b) : g = Len(a) + h
      BY <3>2, <1>1 DEF AllFit
    <3> QED BY <3>1, <3>2, <1>1
  <2> QED BY <2>1, <1>1 DEF AllFit
<1> QED BY <1>1, <1>2

\* Assembly puts every class of the change in one group of its tier, and what
\* was left out last.
LEMMA AssemblePlacesEach ==
  ASSUME NEW ch \in Changes, NEW M, NEW W, Parts(W, ClassIds(ch)), NoneEmpty(W),
         Held(W) = Offered(ch), Backfilled(W, M),
         \A g \in 1..Len(W) : W[g].skim => Members(W[g]) \cap ch.rename_gated = {}
  PROVE  WellPlaced(ch, Assemble(ch, W), M)
<1> DEFINE C == ClassIds(ch)
           B == {g \in DOMAIN W : W[g].backfill}
           S == {g \in DOMAIN W \ B : W[g].skim}
           R == DOMAIN W \ (B \cup S)
           focus == Given(W, R, "focus")
           skim == Given(W, S, "skim")
           backfill == Given(W, B, "focus")
           sorted == BySize(ch, skim)
           noise == C \ Offered(ch)
           last == [effort |-> "noise", class_ids |-> InOrder(noise)]
           folded == IF noise = {} THEN <<>> ELSE <<last>>
           G == Assemble(ch, W)
           V == GroupSet(C)
           Of(P) == UNION {Members(W[g]) : g \in P}
<1>1. Len(W) \in Nat /\ DOMAIN W = 1..Len(W) /\ \A g \in 1..Len(W) : W[g].class_ids \in Seq(C)
  BY DEF Parts
<1>2. /\ B \in SUBSET (1..Len(W)) /\ S \in SUBSET (1..Len(W)) /\ R \in SUBSET (1..Len(W))
      /\ B \cap S = {} /\ B \cap R = {} /\ S \cap R = {} /\ B \cup S \cup R = 1..Len(W)
  BY <1>1
<1>3. /\ \A g \in B : W[g].backfill
      /\ \A g \in S : W[g].skim
  OBVIOUS
<1>4. G = focus \o sorted \o folded \o backfill
  BY DEF Assemble
<1> HIDE DEF B, S, R, G
<1>5. ASSUME NEW g \in 1..Len(W), NEW h \in 1..Len(W), NEW c, c \in Members(W[g]), c \in Members(W[h])
      PROVE  g = h
  <2>1. PICK i : At(W, g, i, c)
    BY <1>5, HeldSomewhere
  <2>2. PICK j : At(W, h, j, c)
    BY <1>5, HeldSomewhere
  <2> QED BY <2>1, <2>2 DEF Parts
<1>6. ASSUME NEW P \in SUBSET (1..Len(W)), NEW Q \in SUBSET (1..Len(W)), P \cap Q = {}
      PROVE  Of(P) \cap Of(Q) = {}
  BY <1>5, <1>6
<1>7. Of(B) \cup Of(S) \cup Of(R) = Offered(ch)
  <2>1. \A c : c \in Held(W) <=> \E g \in 1..Len(W) : c \in Members(W[g])
    BY DEF Held
  <2>2. \A c : c \in Of(B) \cup Of(S) \cup Of(R) <=> \E g \in B \cup S \cup R : c \in Members(W[g])
    OBVIOUS
  <2> QED BY <2>1, <2>2, <1>2
<1>8. /\ Of(R) \cap Of(S) = {} /\ Of(B) \cap Of(R) = {} /\ Of(B) \cap Of(S) = {}
  <2> HIDE DEF Of
  <2> QED BY <1>2, <1>6
<1>9. /\ focus \in Seq(V) /\ Parts(focus, C) /\ Held(focus) = Of(R) /\ GivenFrom(focus, W, R, "focus")
      /\ skim \in Seq(V) /\ Parts(skim, C) /\ Held(skim) = Of(S) /\ GivenFrom(skim, W, S, "skim")
      /\ backfill \in Seq(V) /\ Parts(backfill, C) /\ Held(backfill) = Of(B)
      /\ GivenFrom(backfill, W, B, "focus")
  <2> HIDE DEF C
  <2>1. Parts(W, C)
    BY DEF C
  <2>2. /\ focus \in Seq(V) /\ Parts(focus, C) /\ Held(focus) = Of(R)
        /\ GivenFrom(focus, W, R, "focus")
    BY <2>1, <1>2, GivenParts
  <2>3. /\ skim \in Seq(V) /\ Parts(skim, C) /\ Held(skim) = Of(S) /\ GivenFrom(skim, W, S, "skim")
    BY <2>1, <1>2, GivenParts
  <2>4. /\ backfill \in Seq(V) /\ Parts(backfill, C) /\ Held(backfill) = Of(B)
        /\ GivenFrom(backfill, W, B, "focus")
    BY <2>1, <1>2, GivenParts
  <2> QED BY <2>2, <2>3, <2>4
<1> HIDE DEF focus, skim, backfill
<1>10. /\ sorted \in Seq(V) /\ Parts(sorted, C) /\ Held(sorted) = Of(S)
       /\ \A k \in 1..Len(sorted) : \E g \in 1..Len(skim) : sorted[k] = skim[g]
  BY <1>9, BySizeParts
<1> HIDE DEF sorted
<1>11. \A c : c \in Offered(ch) <=> c \in C /\ ~IsNoise(ch, c)
  BY DEF Offered
<1>12. /\ \A g \in 1..Len(W) : Members(W[g]) \subseteq Offered(ch) /\ W[g].class_ids # <<>>
  BY DEF Held, NoneEmpty
<1>13. ASSUME NEW t, NEW P \in SUBSET (1..Len(W)), NEW e \in {"focus", "skim"}, GivenFrom(t, W, P, e),
              e = "skim" => P = S
       PROVE  AllFit(ch, t)
  <2>1. ASSUME NEW k \in 1..Len(t) PROVE Fits(ch, t[k])
    <3>1. PICK g \in P : t[k].effort = e /\ t[k].class_ids = W[g].class_ids
      BY <1>13 DEF GivenFrom
    <3>2. g \in 1..Len(W) /\ Members(t[k]) = Members(W[g])
      BY <3>1 DEF Members
    <3>3. t[k].effort # "noise"
      BY <3>1
    <3>4. t[k].class_ids # <<>>
      BY <3>1, <3>2, <1>12
    <3>5. ASSUME NEW c \in Members(t[k]) PROVE ~IsNoise(ch, c)
      BY <3>2, <1>11, <1>12
    <3>6. ASSUME NEW c \in Members(t[k]), c \in ch.rename_gated PROVE t[k].effort # "skim"
      <4>1. SUFFICES ASSUME e = "skim" PROVE FALSE
        BY <3>1
      <4>2. W[g].skim
        BY <4>1, <3>1, <1>3, <1>13
      <4> QED BY <4>2, <3>2, <3>6
    <3> QED BY <3>3, <3>4, <3>5, <3>6 DEF Fits
  <2> QED BY <2>1 DEF AllFit
<1>14. AllFit(ch, focus) /\ AllFit(ch, skim) /\ AllFit(ch, backfill)
  <2>1. AllFit(ch, focus)
    BY <1>2, <1>9, <1>13
  <2>2. AllFit(ch, skim)
    BY <1>2, <1>9, <1>13
  <2>3. AllFit(ch, backfill)
    BY <1>2, <1>9, <1>13
  <2> QED BY <2>1, <2>2, <2>3
<1>15. AllFit(ch, sorted)
  BY <1>10, <1>14 DEF AllFit
<1>16. folded \in Seq(V) /\ Parts(folded, C) /\ Held(folded) = noise /\ AllFit(ch, folded)
  <2>1. CASE noise = {}
    <3> DEFINE e == <<>>
    <3>1. e \in Seq(V) /\ Len(e) = 0 /\ DOMAIN e = 1..0
      OBVIOUS
    <3>2. folded = e
      BY <2>1
    <3> HIDE DEF e, folded, noise
    <3>3. Parts(e, C)
      BY <3>1 DEF Parts, At
    <3>4. Held(e) = {} /\ AllFit(ch, e)
      BY <3>1 DEF Held, AllFit
    <3> QED BY <2>1, <3>1, <3>2, <3>3, <3>4
  <2>2. CASE noise # {}
    <3> DEFINE e == <<>>
    <3>1. noise \subseteq Nat /\ IsFiniteSet(noise) /\ noise \subseteq C
      <4>1. ch.n \in Nat
        BY ChangesAreChanges DEF IsChange, IsPartition
      <4>2. noise \in SUBSET (1..ch.n)
        BY DEF ClassIds
      <4> HIDE DEF noise
      <4> QED BY <4>1, <4>2, FinitePlaces DEF ClassIds
    <3> HIDE DEF noise
    <3>2. /\ InOrder(noise) \in Seq(C) /\ ToSet(InOrder(noise)) = noise
          /\ \A i, j \in 1..Len(InOrder(noise)) : InOrder(noise)[i] = InOrder(noise)[j] => i = j
      BY <3>1, InOrderIsASeq
    <3>3. last \in V /\ last.class_ids = InOrder(noise) /\ last.effort = "noise"
          /\ Members(last) = noise
      BY <3>2 DEF GroupSet, Members
    <3> HIDE DEF last
    <3>4. e \in Seq(V) /\ Len(e) = 0 /\ DOMAIN e = 1..0
      OBVIOUS
    <3>5. folded = Append(e, last)
      BY <2>2
    <3> HIDE DEF e, folded
    <3>6. Parts(e, C) /\ Held(e) = {}
      BY <3>4 DEF Parts, At, Held
    <3>7. /\ Append(e, last) \in Seq(V) /\ Parts(Append(e, last), C)
          /\ Held(Append(e, last)) = Held(e) \cup Members(last)
          /\ Len(Append(e, last)) = Len(e) + 1
          /\ Append(e, last)[Len(e) + 1] = last
      <4>1. Members(last) \cap Held(e) = {}
        BY <3>6
      <4>2. /\ last.class_ids \in Seq(C)
            /\ \A i, j \in 1..Len(last.class_ids) : last.class_ids[i] = last.class_ids[j] => i = j
        BY <3>2, <3>3
      <4>3. last \in V /\ e \in Seq(V) /\ Parts(e, C)
        BY <3>3, <3>4, <3>6
      <4> HIDE DEF C, V
      <4> QED BY <4>1, <4>2, <4>3, OnePartMore
    <3>8. Fits(ch, last)
      <4>1. last.class_ids # <<>>
        BY <2>2, <3>2, <3>3, MembersAre
      <4>2. \A c \in Members(last) : IsNoise(ch, c)
        BY <3>3, <1>11 DEF noise
      <4> QED BY <4>1, <4>2, <3>3 DEF Fits
    <3>9. AllFit(ch, folded)
      <4>1. Len(folded) = 1 /\ folded[1] = last
        BY <3>4, <3>5, <3>7
      <4>2. \A g : g \in 1..1 <=> g = 1
        OBVIOUS
      <4> QED BY <4>1, <4>2, <3>8 DEF AllFit
    <3> QED BY <3>3, <3>5, <3>6, <3>7, <3>9
  <2> QED BY <2>1, <2>2
<1> HIDE DEF folded
<1>17. noise \cap (Of(B) \cup Of(S) \cup Of(R)) = {} /\ noise \cup Offered(ch) = C
  BY <1>7, <1>11
<1> HIDE DEF noise, Of
<1> DEFINE two == focus \o sorted
           three == two \o folded
<1>18. two \in Seq(V) /\ Parts(two, C) /\ AllFit(ch, two) /\ Held(two) = Of(R) \cup Of(S)
  <2>1. Held(focus) \cap Held(sorted) = {}
    BY <1>8, <1>9, <1>10
  <2>2. /\ focus \o sorted \in Seq(V) /\ Parts(focus \o sorted, C) /\ AllFit(ch, focus \o sorted)
        /\ Held(focus \o sorted) = Held(focus) \cup Held(sorted)
    BY <2>1, <1>9, <1>10, <1>14, <1>15, TiersTogether
  <2> QED BY <2>2, <1>9, <1>10
<1> HIDE DEF two
<1>19. /\ three \in Seq(V) /\ Parts(three, C) /\ AllFit(ch, three)
       /\ Held(three) = Of(R) \cup Of(S) \cup noise
  <2>1. Held(two) \cap Held(folded) = {}
    BY <1>16, <1>17, <1>18
  <2>2. /\ two \o folded \in Seq(V) /\ Parts(two \o folded, C) /\ AllFit(ch, two \o folded)
        /\ Held(two \o folded) = Held(two) \cup Held(folded)
    BY <2>1, <1>14, <1>16, <1>18, TiersTogether
  <2> QED BY <2>2, <1>16, <1>18
<1>20. G = three \o backfill
  BY <1>4 DEF two
<1> HIDE DEF three
<1>21. Held(three) \cap Held(backfill) = {}
  BY <1>8, <1>9, <1>17, <1>19
<1>22. G \in Seq(V) /\ Parts(G, C) /\ AllFit(ch, G) /\ Held(G) = C
  <2>1. /\ three \o backfill \in Seq(V) /\ Parts(three \o backfill, C)
        /\ AllFit(ch, three \o backfill)
        /\ Held(three \o backfill) = Held(three) \cup Held(backfill)
    BY <1>9, <1>14, <1>19, <1>21, TiersTogether
  <2> QED BY <2>1, <1>7, <1>9, <1>17, <1>19, <1>20
<1>23. ASSUME M # {} PROVE Len(G) # 0 /\ Members(G[Len(G)]) = M
  <2>1. PICK g \in B : TRUE
    BY <1>23, <1>1 DEF Backfilled, B
  <2>2. PICK k \in 1..Len(backfill) : backfill[k].class_ids = W[g].class_ids
    BY <1>9 DEF GivenFrom
  <2>3. Len(backfill) \in Nat /\ Len(backfill) # 0 /\ Len(three) \in Nat
    <3>1. Len(backfill) \in Nat /\ Len(three) \in Nat
      BY <1>9, <1>19 DEF Parts
    <3> QED BY <3>1, <2>2
  <2> DEFINE n == Len(backfill)
  <2>4. Len(G) = Len(three) + n /\ G[Len(three) + n] = backfill[n]
    <3>1. /\ Len(three \o backfill) = Len(three) + Len(backfill)
          /\ \A i \in 1..Len(backfill) : (three \o backfill)[Len(three) + i] = backfill[i]
      BY <1>9, <1>19, <1>21, PartsTogether
    <3>2. Len(backfill) \in 1..Len(backfill)
      BY <2>3
    <3> QED BY <3>1, <3>2, <1>20
  <2>5. PICK h \in B : backfill[n].class_ids = W[h].class_ids
    <3>1. n \in 1..Len(backfill)
      BY <2>3
    <3> HIDE DEF n
    <3> QED BY <3>1, <1>9 DEF GivenFrom
  <2>6. Members(W[h]) = M
    BY <1>2, <1>3 DEF Backfilled
  <2> QED BY <2>3, <2>4, <2>5, <2>6 DEF Members
<1> QED BY <1>22, <1>23 DEF WellPlaced, G

-----------------------------------------------------------------------------
(* The invariant *)

\* The classes offered are finitely many of the change's.
LEMMA OfferedIsFinite ==
  ASSUME NEW ch \in Changes
  PROVE  /\ Offered(ch) \subseteq ClassIds(ch) /\ Offered(ch) \subseteq Nat
         /\ IsFiniteSet(Offered(ch))
<1>1. ch.n \in Nat
  BY ChangesAreChanges DEF IsChange, IsPartition
<1>2. Offered(ch) \in SUBSET (1..ch.n)
  BY DEF Offered, ClassIds
<1> QED BY <1>1, <1>2, FinitePlaces DEF ClassIds

\* What grouping hands over is well placed, whatever the model answered.
LEMMA AnyAnswerIsWellPlaced ==
  ASSUME NEW ch \in Changes, NEW raw \in Answers
  PROVE  WellPlaced(ch, Assemble(ch, Gate(Audit(raw, Offered(ch)), ch.rename_gated)),
                    Missing(raw, Offered(ch)))
<1> DEFINE C == ClassIds(ch)
           M == Missing(raw, Offered(ch))
           A == Audit(raw, Offered(ch))
           gated == ch.rename_gated
           W == Gate(A, gated)
<1>1. A \in Seq(WorkGroup(C)) /\ Parts(A, C) /\ Held(A) = Offered(ch) /\ NoneEmpty(A)
      /\ Backfilled(A, M)
  BY OfferedIsFinite, AnswersAreAnswers, AuditPlacesEach
<1> HIDE DEF A, M
<1>2. /\ W \in Seq(WorkGroup(C)) /\ Parts(W, C) /\ Held(W) = Held(A) /\ NoneEmpty(W)
      /\ Backfilled(W, M)
      /\ \A g \in 1..Len(W) : W[g].skim => Members(W[g]) \cap gated = {}
  <2> HIDE DEF C, gated
  <2> QED BY <1>1, GatePlacesEach
<1> HIDE DEF W
<1>3. WellPlaced(ch, Assemble(ch, W), M)
  BY <1>1, <1>2, AssemblePlacesEach
<1> QED BY <1>3 DEF W, A, M

\* A change nothing of which is offered is well placed without an answer.
LEMMA NothingOfferedIsWellPlaced ==
  ASSUME NEW ch \in Changes, Offered(ch) = {}
  PROVE  WellPlaced(ch, Assemble(ch, Gate(<<>>, ch.rename_gated)), {})
<1> DEFINE C == ClassIds(ch)
           A == <<>>
           gated == ch.rename_gated
           W == Gate(A, gated)
           M == {}
<1>1. A \in Seq(WorkGroup(C)) /\ Len(A) = 0 /\ DOMAIN A = 1..0
  OBVIOUS
<1> HIDE DEF A
<1>2. Parts(A, C) /\ Held(A) = {} /\ NoneEmpty(A) /\ Backfilled(A, M)
  BY <1>1 DEF Parts, At, Held, NoneEmpty, Backfilled
<1> HIDE DEF M
<1>3. /\ W \in Seq(WorkGroup(C)) /\ Parts(W, C) /\ Held(W) = Held(A) /\ NoneEmpty(W)
      /\ Backfilled(W, M)
      /\ \A g \in 1..Len(W) : W[g].skim => Members(W[g]) \cap gated = {}
  <2> HIDE DEF C, gated
  <2> QED BY <1>1, <1>2, GatePlacesEach
<1> HIDE DEF W
<1>4. WellPlaced(ch, Assemble(ch, W), M)
  BY <1>2, <1>3, AssemblePlacesEach
<1> QED BY <1>4 DEF W, A, M

-----------------------------------------------------------------------------
\* The machine's own invariant: only what an answer is reaches the audit; there
\* is something to walk only while sorting and after, and it is well placed; and
\* the document of a run that is done is that of an order of all of its groups.
Empty == groups = <<>> /\ missing = {} /\ order = <<>> /\ broken = {} /\ plan = <<>>
         /\ edges = <<>>
Planned ==
    /\ plan = [r \in DOMAIN FinalOrder |-> Entry(FinalOrder[r])]
    /\ reading = FlattenSeq([r \in DOMAIN FinalOrder |->
                                StepsOf(ReadingPlan(change, groups), FinalOrder[r])])
PlanInv ==
    /\ change \in Changes /\ stage \in Stages /\ pinning \in BOOLEAN
    /\ cache \in [Keys -> Answers \cup {Garbage, NoAnswer}]
    /\ answer \in Answers \cup {Garbage, NoAnswer}
    /\ stage = "parse" => answer # NoAnswer
    /\ stage \notin {"sort", "done"} => Empty
    /\ stage \in {"sort", "done"} =>
        /\ WellPlaced(change, groups, missing) /\ missing \subseteq Offered(change)
        /\ edges = GroupEdges(change, groups)
    /\ stage = "sort" => reading = ReadingPlan(change, groups) /\ plan = <<>>
    /\ stage = "done" => Remaining = {} /\ Planned

\* The invariant holds before the first run.
LEMMA PlanInit == Init => PlanInv
<1> SUFFICES ASSUME Init PROVE PlanInv
  OBVIOUS
<1>1. cache \in [Keys -> Answers \cup {Garbage, NoAnswer}]
  BY DEF Init
<1> QED BY <1>1 DEF Init, PlanInv, Empty, Stages

\* What grouping sets up for the sort.
LEMMA GroupingSorts ==
  ASSUME NEW ch \in Changes, NEW raw, Group(ch, raw), change' = ch,
         raw \in Answers \/ (raw = NoAnswer /\ Offered(ch) = {})
  PROVE  /\ WellPlaced(change, groups, missing)' /\ (missing \subseteq Offered(change))'
         /\ edges' = GroupEdges(change', groups') /\ reading' = ReadingPlan(change', groups')
         /\ plan' = <<>> /\ stage' = "sort"
<1>1. CASE raw \in Answers
  <2>1. raw # NoAnswer
    BY <1>1, NotAnswers
  <2>2. /\ missing' = Missing(raw, Offered(ch))
        /\ groups' = Assemble(ch, Gate(Audit(raw, Offered(ch)), ch.rename_gated))
    BY <2>1 DEF Group
  <2>3. WellPlaced(ch, groups', missing')
    BY <1>1, <2>2, AnyAnswerIsWellPlaced
  <2>4. missing' \subseteq Offered(ch)
    BY <2>2 DEF Missing
  <2> QED BY <2>3, <2>4 DEF Group
<1>2. CASE raw = NoAnswer /\ Offered(ch) = {}
  <2>1. missing' = {} /\ groups' = Assemble(ch, Gate(<<>>, ch.rename_gated))
    BY <1>2 DEF Group
  <2>2. WellPlaced(ch, groups', missing')
    BY <1>2, <2>1, NothingOfferedIsWellPlaced
  <2> QED BY <2>1, <2>2 DEF Group
<1> QED BY <1>1, <1>2

\* Every step of a run, and every change of the cache beside it, keeps the invariant.
LEMMA PlanNext == PlanInv /\ [Next]_vars => PlanInv'
<1> SUFFICES ASSUME PlanInv, [Next]_vars PROVE PlanInv'
  OBVIOUS
<1> USE DEF Stages
<1> DEFINE Raw == Answers \cup {Garbage, NoAnswer}
<1>0. /\ change \in Changes /\ stage \in Stages /\ pinning \in BOOLEAN
      /\ cache \in [Keys -> Raw] /\ answer \in Raw
  BY DEF PlanInv
<1>k. ASSUME NEW ch \in Changes PROVE CacheKey(ch) \in Keys
  BY DEF Keys
<1>1. ASSUME NEW ch \in Follows[change], Start(ch) PROVE PlanInv'
  <2>1. ch \in Changes
    BY FollowsChanges, <1>1, <1>0
  <2>2. CASE StartUngrouped(ch)
    <3>1. change' = ch /\ Offered(ch) = {} /\ Group(ch, NoAnswer) /\ answer' = NoAnswer
          /\ cache' = cache /\ pinning' = pinning
      BY <2>2 DEF StartUngrouped
    <3>2. /\ WellPlaced(change, groups, missing)' /\ (missing \subseteq Offered(change))'
          /\ edges' = GroupEdges(change', groups') /\ reading' = ReadingPlan(change', groups')
          /\ plan' = <<>> /\ stage' = "sort"
      BY <2>1, <3>1, GroupingSorts
    <3> QED BY <2>1, <3>1, <3>2, <1>0 DEF PlanInv
  <2>3. CASE StartCached(ch)
    <3>1. answer' \in Raw /\ answer' # NoAnswer
      BY <2>1, <2>3, <1>0, <1>k DEF StartCached
    <3> QED BY <2>1, <2>3, <3>1, <1>0 DEF StartCached, Discard, PlanInv, Empty
  <2>4. CASE StartAsking(ch) \/ StartFails(ch)
    BY <2>1, <2>4, <1>0 DEF StartAsking, StartFails, Discard, PlanInv, Empty
  <2> QED
    BY <1>1, <2>2, <2>3, <2>4 DEF Start
<1>2. ASSUME NEW raw \in Answers \cup {Garbage}, Complete(raw) PROVE PlanInv'
  <2>1. raw \in Raw /\ raw # NoAnswer
    BY NotAnswers
  <2>2. cache' \in [Keys -> Raw]
    BY <1>2, <2>1, <1>0 DEF Complete
  <2> QED BY <1>2, <2>1, <2>2, <1>0 DEF Complete, PlanInv, Empty
<1>3. CASE AskFails \/ ParseFails
  BY <1>3, <1>0 DEF AskFails, ParseFails, PlanInv, Empty
<1>4. CASE Parse
  <2>1. answer \in Answers /\ change' = change /\ Group(change, answer)
        /\ answer' = answer /\ cache' = cache /\ pinning' = pinning
    BY <1>4, <1>0 DEF Parse, PlanInv
  <2>2. /\ WellPlaced(change, groups, missing)' /\ (missing \subseteq Offered(change))'
        /\ edges' = GroupEdges(change', groups') /\ reading' = ReadingPlan(change', groups')
        /\ plan' = <<>> /\ stage' = "sort"
    BY <2>1, <1>0, GroupingSorts
  <2> QED BY <2>1, <2>2, <1>0 DEF PlanInv
<1>5. CASE EmitReady \/ EmitStuck
  BY <1>5, <1>0 DEF EmitReady, EmitStuck, Emit, PlanInv
<1>6. CASE Finish
  <2>1. /\ stage = "sort" /\ Remaining = {} /\ stage' = "done"
        /\ plan' = [r \in DOMAIN FinalOrder |-> Entry(FinalOrder[r])]
        /\ reading' = FlattenSeq([r \in DOMAIN FinalOrder |-> StepsOf(reading, FinalOrder[r])])
        /\ UNCHANGED <<cache, pinning, change, answer, missing, groups, edges, order, broken>>
    BY <1>6 DEF Finish
  <2>2. reading = ReadingPlan(change, groups)
    BY <2>1 DEF PlanInv
  <2>3. FinalOrder' = FinalOrder /\ Remaining' = Remaining
    BY <2>1 DEF FinalOrder, Len0, Remaining, Focus
  <2>4. \A g : Entry(g)' = Entry(g)
    BY <2>1, <2>3 DEF Entry, RankIn
  <2>5. Planned'
    BY <2>1, <2>2, <2>3, <2>4 DEF Planned
  <2> QED BY <2>1, <2>3, <2>5, <1>0 DEF PlanInv
<1>7. ASSUME UNCHANGED <<pinning, stage, change, answer, missing, groups, reading, edges, order, broken, plan>>,
             cache' \in [Keys -> Raw]
      PROVE  PlanInv'
  <2>1. FinalOrder' = FinalOrder /\ Remaining' = Remaining /\ (Empty' <=> Empty)
    BY <1>7 DEF FinalOrder, Len0, Remaining, Focus, Empty
  <2>2. \A g : Entry(g)' = Entry(g)
    BY <1>7, <2>1 DEF Entry, RankIn
  <2>3. Planned => Planned'
    BY <1>7, <2>1, <2>2 DEF Planned
  <2> QED BY <1>7, <2>1, <2>3, <1>0 DEF PlanInv
<1>8. CASE Clean
  BY <1>7, <1>8, <1>0 DEF Clean
<1>9. ASSUME NEW raw \in Elsewhere, PutElsewhere(raw) PROVE PlanInv'
  BY <1>7, <1>9, <1>0, ElsewhereAnswers DEF PutElsewhere
<1>10. CASE UNCHANGED vars
  BY <1>7, <1>10, <1>0 DEF vars
<1> QED
  BY <1>1, <1>2, <1>3, <1>4, <1>5, <1>6, <1>8, <1>9, <1>10 DEF Next, Work

-----------------------------------------------------------------------------
(* The walk over the focus groups *)

\* Of a set of places whose sizes have a bound, one is the largest, first of its size.
LEMMA LargestInPool ==
  ASSUME NEW pool, pool \subseteq Nat, pool # {}, NEW size, NEW bound \in Nat,
         \A x \in pool : size[x] \in 0..bound
  PROVE  Largest(pool, size) \in pool
<1> DEFINE Gaps == {bound - size[x] : x \in pool}
<1>0. \A x \in pool : /\ size[x] \in Nat /\ size[x] <= bound
                      /\ bound - size[x] \in Nat
  OBVIOUS
<1>1. Gaps \subseteq Nat /\ Gaps # {}
  BY <1>0
<1>2. PICK gap \in Gaps : \A other \in Gaps : gap <= other
  <2> HIDE DEF Gaps
  <2> QED BY <1>1, LeastNat
<1>3. PICK big \in pool : \A y \in pool : size[y] <= size[big]
  <2>1. PICK big \in pool : gap = bound - size[big]
    OBVIOUS
  <2>2. ASSUME NEW y \in pool PROVE size[y] <= size[big]
    <3>1. bound - size[big] <= bound - size[y]
      BY <1>2, <2>1
    <3> QED
      BY <3>1, <1>0
  <2> QED
    BY <2>2
<1> DEFINE Bigs == {x \in pool : size[x] = size[big]}
<1>4. PICK first \in Bigs : \A y \in Bigs : first <= y
  <2>1. Bigs \subseteq Nat /\ Bigs # {}
    OBVIOUS
  <2> HIDE DEF Bigs
  <2> QED BY <2>1, LeastNat
<1>5. \A y \in pool : size[y] < size[first] \/ (size[y] = size[first] /\ first <= y)
  BY <1>3, <1>4
<1> QED
  BY <1>4, <1>5 DEF Largest

\* Groups that are well placed are well formed.
LEMMA WellPlacedIsWellGrouped == ASSUME PlanInv PROVE WellGrouped
<1>1. CASE Empty
  <2>1. Len(groups) = 0 /\ DOMAIN groups = 1..0 /\ groups \in Seq(GroupSet(ClassIds(change)))
    BY <1>1 DEF Empty
  <2> QED BY <1>1, <2>1 DEF WellGrouped, GroupSet, Empty
<1>2. CASE WellPlaced(change, groups, missing)
  <2>1. /\ groups \in Seq(GroupSet(ClassIds(change))) /\ AllFit(change, groups)
        /\ missing # {} => Len(groups) # 0
    BY <1>2 DEF WellPlaced
  <2>2. DOMAIN groups = 1..Len(groups) /\ \A g \in DOMAIN groups : groups[g].class_ids # <<>>
    BY <2>1 DEF AllFit, Fits
  <2>3. missing # {} => groups # <<>>
    BY <2>1
  <2> QED BY <2>1, <2>2, <2>3 DEF WellGrouped, GroupSet
<1> QED BY <1>1, <1>2 DEF PlanInv, Stages

\* The focus section is a prefix of the groups.
LEMMA FocusIsAPrefix ==
  ASSUME WellGrouped
  PROVE  Len0 \in Nat /\ Focus \subseteq DOMAIN groups /\ DOMAIN groups = 1..Len(groups)
<1> DEFINE Leading == {g \in DOMAIN groups : \A d \in 1..g : groups[d].effort = "focus"}
<1>1. DOMAIN groups = 1..Len(groups) /\ Len(groups) \in Nat
  BY DEF WellGrouped
<1>2. Leading \in SUBSET (1..Len(groups))
  BY <1>1
<1>3. IsFiniteSet(1..Len(groups)) /\ Cardinality(1..Len(groups)) = Len(groups)
  <2>1. 1 \in Int /\ Len(groups) \in Int
    BY <1>1
  <2>2. /\ IsFiniteSet(1..Len(groups))
        /\ Cardinality(1..Len(groups)) = IF 1 > Len(groups) THEN 0 ELSE Len(groups) - 1 + 1
    BY <2>1, FS_Interval
  <2> QED
    BY <2>2, <1>1
<1>4. Cardinality(Leading) \in Nat /\ Cardinality(Leading) <= Len(groups)
  <2> HIDE DEF Leading
  <2>1. IsFiniteSet(Leading) /\ Cardinality(Leading) <= Cardinality(1..Len(groups))
    BY <1>2, <1>3, FS_Subset
  <2> QED
    BY <2>1, <1>3, FS_CardinalityType
<1>5. Len0 = IF Cardinality(Leading) = Len(groups) /\ missing # {}
             THEN Cardinality(Leading) - 1 ELSE Cardinality(Leading)
  BY DEF Len0, FocusLen
<1>6. missing # {} => Len(groups) # 0
  BY DEF WellGrouped
<1>7. Len0 \in Nat /\ Len0 <= Len(groups)
  <2> HIDE DEF Leading
  <2> QED BY <1>1, <1>4, <1>5, <1>6
<1> QED
  BY <1>1, <1>7 DEF Focus

\* A group holds some classes, all of them the change's.
LEMMA GroupType ==
  ASSUME WellGrouped, NEW g \in DOMAIN groups
  PROVE  Members(groups[g]) # {} /\ Members(groups[g]) \subseteq ClassIds(change)
<1> DEFINE ids == groups[g].class_ids
           Groupings == [effort : {"focus", "skim", "noise"}, class_ids : Seq(ClassIds(change))]
<1>1. groups[g] \in Groupings
  <2>1. groups \in Seq(Groupings)
    BY DEF WellGrouped
  <2> HIDE DEF Groupings
  <2> QED BY <2>1
<1>2. ids \in Seq(ClassIds(change)) /\ ids # <<>>
  BY <1>1 DEF WellGrouped
<1>3. Members(groups[g]) = {ids[i] : i \in DOMAIN ids}
  BY DEF Members, ToSet
<1> HIDE DEF ids
<1>4. /\ DOMAIN ids = 1..Len(ids) /\ Len(ids) \in Nat /\ Len(ids) # 0
      /\ \A i \in DOMAIN ids : ids[i] \in ClassIds(change)
  BY <1>2
<1>5. 1 \in DOMAIN ids
  BY <1>4
<1> QED
  BY <1>3, <1>4, <1>5

\* With nothing grouped there is nothing to walk.
LEMMA NothingToWalk ==
  ASSUME Empty
  PROVE  Len0 = 0 /\ Focus = {} /\ Remaining = {} /\ Foundations!Remaining = {}
<1>1. {g \in DOMAIN groups : \A d \in 1..g : groups[d].effort = "focus"} = {}
  BY DEF Empty
<1>2. Len0 = 0
  BY <1>1, FS_EmptySet DEF Len0, FocusLen, Empty
<1> QED
  BY <1>2 DEF Focus, Remaining, Foundations!Remaining, Foundations!Groups

\* The groups left to walk are those the abstract walk has left.
LEMMA SameRemaining == Foundations!Remaining = Remaining /\ Foundations!Groups = Focus
  BY DEF Foundations!Remaining, Foundations!Groups, Foundations!Emitted, Remaining, Focus, ToSet

\* The edges between focus groups are a graph of module Walk.
LEMMA EdgesAreAGraph ==
  ASSUME PlanInv, WellGrouped
  PROVE  Foundations!Graph
<1>1. CASE Empty
  BY <1>1, NothingToWalk DEF Foundations!Graph, Foundations!Groups
<1>2. CASE edges = GroupEdges(change, groups)
  BY <1>2, FocusIsAPrefix DEF Foundations!Graph, Foundations!Groups, Focus, GroupEdges
<1> QED
  BY <1>1, <1>2 DEF PlanInv, Stages

\* A group's size is that of a group of the change's classes.
LEMMA SizesAreBounded ==
  ASSUME PlanInv, WellGrouped
  PROVE  \E bound \in Nat : \A g \in DOMAIN groups : Sizes[g] \in 0..bound
<1>1. PICK bound \in Nat :
        \A g : Members(g) \subseteq ClassIds(change) => HunkCount(change, g) \in 0..bound
  BY HunkCountBound DEF PlanInv
<1>2. \A g \in DOMAIN groups : Members(groups[g]) \subseteq ClassIds(change)
  BY GroupType
<1> QED
  BY <1>1, <1>2 DEF Sizes

\* The largest of some groups that are left is one of them.
LEMMA LargestIsLeft ==
  ASSUME PlanInv, WellGrouped, NEW pool, pool \subseteq Remaining, pool # {}
  PROVE  Largest(pool, Sizes) \in pool
<1>1. pool \subseteq Nat /\ pool \subseteq DOMAIN groups
  BY FocusIsAPrefix DEF Remaining, Focus
<1>2. PICK bound \in Nat : \A g \in DOMAIN groups : Sizes[g] \in 0..bound
  BY SizesAreBounded
<1>3. \A x \in pool : Sizes[x] \in 0..bound
  BY <1>1, <1>2
<1> QED
  BY <1>1, <1>3, LargestInPool

\* Breaking a deadlock frees a group that is left.
LEMMA BreakCyclePicksALeftGroup ==
  ASSUME PlanInv, WellGrouped, Remaining # {}
  PROVE  BreakCycle(change, groups, Remaining, Sizes).pick \in Remaining
<1> DEFINE inside == ClassesIn(groups, Remaining)
           free == {c \in inside : change.depends_on[c] \cap inside = {}}
           first == CHOOSE c \in free : \A d \in free : c <= d
<1>1. CASE Cyclic(inside, change.depends_on)
  BY <1>1, LargestIsLeft DEF BreakCycle
<1>2. CASE ~Cyclic(inside, change.depends_on)
  <2>1. inside # {} /\ inside \subseteq Nat
    <3>1. \A g \in Remaining : /\ Members(groups[g]) # {}
                              /\ Members(groups[g]) \subseteq ClassIds(change)
      BY FocusIsAPrefix, GroupType DEF Remaining
    <3>2. ClassIds(change) \subseteq Nat
      BY ChangesAreChanges DEF PlanInv, IsChange, IsPartition, ClassIds
    <3> QED
      BY <3>1, <3>2 DEF ClassesIn
  <2>2. free # {} /\ free \subseteq Nat
    <3>1. ~(\A c \in inside : change.depends_on[c] \cap inside # {})
      <4>1. inside \in SUBSET inside
        OBVIOUS
      <4> HIDE DEF inside
      <4> QED BY <4>1, <1>2, <2>1 DEF Cyclic
    <3> HIDE DEF inside
    <3> QED BY <3>1, <2>1
  <2>3. first \in free
    <3>1. \E c \in free : \A d \in free : c <= d
      <4> HIDE DEF free
      <4> QED BY <2>2, LeastNat
    <3> QED
      BY <3>1
  <2>4. \E g \in Remaining : first \in Members(groups[g])
    <3>1. first \in inside
      BY <2>3
    <3> HIDE DEF first
    <3> QED BY <3>1 DEF ClassesIn
  <2>5. BreakCycle(change, groups, Remaining, Sizes).pick
          = CHOOSE g \in Remaining : first \in Members(groups[g])
    BY <1>2 DEF BreakCycle
  <2> QED
    <3> HIDE DEF first
    <3> QED BY <2>4, <2>5
<1> QED
  BY <1>1, <1>2

\* A run that starts, or whose answer is parsed, begins a walk: none is under way.
LEMMA Beginning ==
  ASSUME PlanInv, Foundations!Graph', order' = <<>>, broken' = {}, stage # "sort"
  PROVE  Foundations!Begin
<1>1. Remaining = {}
  BY NothingToWalk DEF PlanInv, Stages
<1> QED
  BY <1>1, SameRemaining DEF Foundations!Begin

\* What a group still waits for is the same in both walks.
LEMMA SameWaiting ==
  ASSUME PlanInv, WellGrouped, NEW g \in Remaining
  PROVE  /\ g \in Focus
         /\ [f \in Focus |-> edges[f] \cap Focus][g] \cap Foundations!Remaining
              = GivenUp(g)
         /\ \A d \in edges[g] : d \in Nat
<1>1. edges = GroupEdges(change, groups)
  BY NothingToWalk DEF PlanInv, Stages
<1>2. g \in Focus /\ g \in DOMAIN groups
  BY FocusIsAPrefix DEF Remaining
<1>3. edges[g] \subseteq DOMAIN groups
  BY <1>1, <1>2 DEF GroupEdges, Grouped
<1>4. \A d \in edges[g] : d \in Nat /\ (d \in Focus <=> d <= Len0)
  BY <1>3, FocusIsAPrefix DEF Focus
<1> QED
  BY <1>2, <1>4, SameRemaining DEF Remaining, GivenUp

\* A group is ready in one walk when it is in the other.
LEMMA SameReady ==
  ASSUME PlanInv, WellGrouped
  PROVE  Foundations!Ready = Ready
<1>1. \A g \in Remaining :
        (\A d \in edges[g] : d > Len0 \/ d \in ToSet(order))
          <=> GivenUp(g) = {}
  BY SameWaiting, FocusIsAPrefix DEF GivenUp
<1> QED
  BY <1>1, SameWaiting, SameRemaining DEF Foundations!Ready, Ready, ReadyIn

\* A group emitted by the walk is one of those left, ready if one is.
LEMMA EmittingReady ==
  ASSUME PlanInv, WellGrouped, EmitReady
  PROVE  \E g \in Foundations!Groups : Foundations!Emit(g)
<1> DEFINE g == Largest(Ready, Sizes)
<1>1. Ready \subseteq Remaining /\ Ready # {}
  BY DEF Ready, ReadyIn, EmitReady
<1>2. g \in Ready /\ g \in Remaining /\ g \in Focus
  BY <1>1, LargestIsLeft DEF Remaining
<1>3. order' = Append(order, g) /\ broken' = broken
  BY DEF EmitReady, Emit
<1>4. Len0' = Len0 /\ edges' = edges /\ Focus' = Focus
  BY DEF EmitReady, Emit, Len0, Focus
<1> HIDE DEF g
<1>5. [f \in Focus |-> edges[f] \cap Focus][g] \cap Foundations!Remaining = {}
  BY <1>2, SameReady, SameRemaining DEF Foundations!Ready
<1>6. Foundations!Emit(g)
  BY <1>2, <1>3, <1>4, <1>5, SameReady, SameRemaining DEF Foundations!Emit
<1>7. g \in Foundations!Groups
  BY <1>2, SameRemaining
<1> QED
  BY <1>6, <1>7 DEF Foundations!Emit

\* A group emitted to break a deadlock is one the abstract walk may emit.
LEMMA EmittingStuck ==
  ASSUME PlanInv, WellGrouped, EmitStuck
  PROVE  \E g \in Foundations!Groups : Foundations!Emit(g)
<1> DEFINE freed == BreakCycle(change, groups, Remaining, Sizes)
           g == freed.pick
           why == freed.why
           Waiting == GivenUp(g)
<1>1. Ready = {} /\ g \in Remaining /\ g \in Focus
  BY BreakCyclePicksALeftGroup DEF EmitStuck, Remaining
<1>2. order' = Append(order, g) /\ broken' = broken \cup {<<g, d, why>> : d \in Waiting}
  BY DEF EmitStuck, Emit
<1>3. Len0' = Len0 /\ edges' = edges /\ Focus' = Focus
  BY DEF EmitStuck, Emit, Len0, Focus
<1> HIDE DEF g, why
<1>4. Waiting = [f \in Focus |-> edges[f] \cap Focus][g] \cap Foundations!Remaining
  BY <1>1, SameWaiting
<1> HIDE DEF Waiting
<1>5. {<<b[1], b[2]>> : b \in broken'}
        = {<<b[1], b[2]>> : b \in broken} \cup {<<g, d>> : d \in Waiting}
  <2> DEFINE New == {<<g, d, why>> : d \in Waiting}
  <2>1. {<<b[1], b[2]>> : b \in New} = {<<g, d>> : d \in Waiting}
    <3>1. \A d : <<g, d, why>>[1] = g /\ <<g, d, why>>[2] = d
      OBVIOUS
    <3>2. \A b \in New : \E d \in Waiting : b[1] = g /\ b[2] = d
      BY <3>1
    <3>3. \A d \in Waiting : \E b \in New : b[1] = g /\ b[2] = d
      BY <3>1
    <3> HIDE DEF New
    <3> QED
      BY <3>2, <3>3
  <2>2. broken' = broken \cup New
    BY <1>2
  <2> HIDE DEF New
  <2> QED
    BY <2>1, <2>2
<1>6. Foundations!Emit(g)
  BY <1>1, <1>2, <1>3, <1>4, <1>5, SameReady, SameRemaining DEF Foundations!Emit
<1>7. g \in Foundations!Groups
  BY <1>1, SameRemaining
<1> QED
  BY <1>6, <1>7 DEF Foundations!Emit

\* Every step of a plan is a step of the walk, or none.
LEMMA PlanStep ==
  ASSUME PlanInv, WellGrouped, Foundations!Graph', [Next]_vars
  PROVE  [Foundations!Next]_(Foundations!vars)
<1> USE DEF Foundations!Next
<1>1. ASSUME NEW ch, Start(ch) PROVE Foundations!Begin
  <2>1. order' = <<>> /\ broken' = {} /\ stage # "sort"
    BY <1>1 DEF Start, StartUngrouped, StartCached, StartAsking, StartFails, Group, Discard, Idle
  <2> QED
    BY <2>1, Beginning
<1>2. CASE Parse
  BY <1>2, Beginning DEF Parse, Group
<1>3. CASE EmitReady \/ EmitStuck
  BY <1>3, EmittingReady, EmittingStuck
<1>4. ASSUME UNCHANGED <<missing, groups, edges, order, broken>>
      PROVE  UNCHANGED Foundations!vars
  BY <1>4 DEF Foundations!vars, Len0, Focus
<1>5. CASE AskFails \/ ParseFails \/ Finish \/ Clean \/ UNCHANGED vars
           \/ (\E raw : Complete(raw)) \/ (\E raw : PutElsewhere(raw))
  BY <1>4, <1>5 DEF AskFails, ParseFails, Finish, Clean, vars, Complete, PutElsewhere
<1> QED
  BY <1>1, <1>2, <1>3, <1>5 DEF Next, Work

\* A plan orders its focus groups as module Walk promises, for every set of
\* changes and answers, wherever grouping hands over what it is asked to.
THEOREM APlanIsAWalk == Spec => IsAWalk
<1>1. Init => PlanInv /\ order = <<>> /\ broken = {}
  BY PlanInit DEF Init
<1>2. PlanInv => Foundations!Graph
  BY EdgesAreAGraph, WellPlacedIsWellGrouped
<1>3. PlanInv /\ [Next]_vars => PlanInv'
  BY PlanNext
<1>4. Foundations!Graph /\ order = <<>> /\ broken = {} => Foundations!Init
  BY DEF Foundations!Init
<1>5. PlanInv /\ Foundations!Graph' /\ [Next]_vars
        => [Foundations!Next]_(Foundations!vars)
  BY PlanStep, WellPlacedIsWellGrouped
<1> QED
  BY <1>1, <1>2, <1>3, <1>4, <1>5, PTL DEF Spec, IsAWalk, Foundations!Spec

-----------------------------------------------------------------------------
(* What every walk keeps, whatever the graph *)

\* The state of a walk over n groups: edges E, those emitted o, the edges given up B.
\* That a later group adds no edge of an earlier one needs the edges given up to be of
\* emitted ones.
Circular(n, E) == \E stuck \in SUBSET (1..n) : stuck # {} /\ \A g \in stuck : E[g] \cap stuck # {}
WalkKept(n, E, o, B) ==
  /\ n \in Nat /\ E \in [1..n -> SUBSET (1..n)] /\ o \in Seq(1..n)
  /\ \A i, j \in DOMAIN o : o[i] = o[j] => i = j
  /\ \A b \in B : \E i \in DOMAIN o : b[1] = o[i]
  /\ \A i \in DOMAIN o : \A d \in E[o[i]] :
       <<o[i], d>> \in B <=> \A j \in 1..(i - 1) : o[j] # d
  /\ B = {} \/ Circular(n, E)

LEMMA ABeginningIsKept ==
  ASSUME NEW n \in Nat, NEW E \in [1..n -> SUBSET (1..n)]
  PROVE  WalkKept(n, E, <<>>, {})
  BY DEF WalkKept

\* One more group: a ready one if there is one.
LEMMA OneMoreIsKept ==
  ASSUME NEW n, NEW E, NEW o, NEW B, WalkKept(n, E, o, B),
         NEW left, left = {x \in 1..n : \A i \in DOMAIN o : o[i] # x},
         NEW g \in left, E[g] \cap left # {} => \A x \in left : E[x] \cap left # {}
  PROVE  WalkKept(n, E, Append(o, g), B \cup {<<g, d>> : d \in E[g] \cap left})
<1> DEFINE m == Len(o)
           q == Append(o, g)
           C == B \cup {<<g, d>> : d \in E[g] \cap left}
<1>1. n \in Nat /\ E \in [1..n -> SUBSET (1..n)] /\ o \in Seq(1..n) /\ g \in 1..n
  BY DEF WalkKept
<1>2. m \in Nat /\ DOMAIN o = 1..m /\ \A i \in 1..m : o[i] # g
  BY <1>1
<1>3. /\ q \in Seq(1..n) /\ DOMAIN q = 1..(m + 1) /\ q[m + 1] = g
      /\ \A i \in 1..m : q[i] = o[i]
  BY <1>1, <1>2
<1> HIDE DEF q, m
<1>4. \A i, j \in DOMAIN q : q[i] = q[j] => i = j
  BY <1>2, <1>3 DEF WalkKept
<1>5. \A b \in C : \E i \in DOMAIN q : b[1] = q[i]
  <2> SUFFICES ASSUME NEW b \in C PROVE \E i \in DOMAIN q : b[1] = q[i]
    OBVIOUS
  <2>1. CASE b \in B
    <3>1. PICK i \in 1..m : b[1] = o[i]
      BY <2>1, <1>2 DEF WalkKept
    <3> QED BY <3>1, <1>2, <1>3
  <2>2. CASE b \notin B
    <3>1. b[1] = g
      BY <2>2
    <3> QED BY <3>1, <1>2, <1>3
  <2> QED BY <2>1, <2>2
<1>6. ASSUME NEW i \in DOMAIN q, NEW d \in E[q[i]]
      PROVE  <<q[i], d>> \in C <=> \A j \in 1..(i - 1) : q[j] # d
  <2>1. CASE i \in 1..m
    <3>1. <<q[i], d>> \in C <=> <<o[i], d>> \in B
      BY <2>1, <1>2, <1>3
    <3>2. \A j \in 1..(i - 1) : q[j] = o[j]
      BY <2>1, <1>2, <1>3
    <3>3. d \in E[o[i]] /\ i \in DOMAIN o
      BY <2>1, <1>2, <1>3, <1>6
    <3>4. <<o[i], d>> \in B <=> \A j \in 1..(i - 1) : o[j] # d
      BY <3>3 DEF WalkKept
    <3> QED BY <3>1, <3>2, <3>4
  <2>2. CASE i = m + 1
    <3>1. <<g, d>> \notin B
      <4>1. <<g, d>>[1] = g
        OBVIOUS
      <4> QED BY <4>1, <1>2 DEF WalkKept
    <3>2. <<g, d>> \in C <=> d \in left
      BY <3>1, <2>2, <1>3, <1>6
    <3>3. d \in 1..n
      BY <2>2, <1>1, <1>3, <1>6
    <3>4. d \in left <=> \A j \in 1..m : o[j] # d
      BY <3>3, <1>2
    <3>5. (i - 1) = m /\ q[i] = g
      BY <2>2, <1>2, <1>3
    <3>6. (\A j \in 1..m : o[j] # d) <=> (\A j \in 1..m : q[j] # d)
      BY <1>3
    <3> QED BY <3>2, <3>4, <3>5, <3>6
  <2> QED BY <2>1, <2>2, <1>2, <1>3
<1>7. C = {} \/ Circular(n, E)
  <2>1. CASE E[g] \cap left = {}
    <3>1. C = B
      BY <2>1
    <3> QED BY <3>1 DEF WalkKept
  <2>2. CASE E[g] \cap left # {}
    <3>1. left \in SUBSET (1..n) /\ left # {} /\ \A x \in left : E[x] \cap left # {}
      BY <2>2
    <3> HIDE DEF C
    <3> QED BY <3>1 DEF Circular
  <2> QED BY <2>1, <2>2
<1>8. WalkKept(n, E, q, C)
  <2> HIDE DEF C
  <2> QED BY <1>1, <1>3, <1>4, <1>5, <1>6, <1>7 DEF WalkKept
<1> QED
  BY <1>8 DEF q

\* An injective sequence that leaves none of 1..n out has n elements.
LEMMA OverIsComplete ==
  ASSUME NEW n, NEW E, NEW o, NEW B, WalkKept(n, E, o, B),
         \A x \in 1..n : \E i \in DOMAIN o : o[i] = x
  PROVE  Len(o) = n
<1>1. o \in Seq(1..n) /\ Len(o) \in Nat /\ DOMAIN o = 1..Len(o) /\ n \in Nat
  BY DEF WalkKept
<1>2. o \in Bijection(1..Len(o), 1..n)
  <2>1. o \in [1..Len(o) -> 1..n]
    BY <1>1
  <2> QED
    BY <2>1, <1>1 DEF WalkKept, Bijection, Injection, Surjection, IsInjective
<1>3. /\ IsFiniteSet(1..Len(o)) /\ Cardinality(1..Len(o)) = Len(o)
      /\ Cardinality(1..n) = n
  <2>1. 1 \in Int /\ Len(o) \in Int /\ n \in Int
    BY <1>1
  <2>2. /\ IsFiniteSet(1..Len(o))
        /\ Cardinality(1..Len(o)) = IF 1 > Len(o) THEN 0 ELSE Len(o) - 1 + 1
        /\ Cardinality(1..n) = IF 1 > n THEN 0 ELSE n - 1 + 1
    BY <2>1, FS_Interval
  <2> QED
    BY <2>2, <1>1
<1>4. Cardinality(1..n) = Cardinality(1..Len(o))
  BY <1>2, <1>3, FS_Bijection DEF ExistsBijection
<1> QED
  BY <1>3, <1>4

\* The walk of the plan in hand: its edges between focus groups, and those given up.
FocusEdges == [g \in Focus |-> edges[g] \cap Focus]
GivenUpEdges == {<<b[1], b[2]>> : b \in broken}
WalkInv == WalkKept(Len0, FocusEdges, order, GivenUpEdges)

LEMMA WalkInvHolds == Foundations!Spec => []WalkInv
<1>1. Foundations!Init => WalkInv
  BY ABeginningIsKept DEF Foundations!Init, Foundations!Graph, Foundations!Groups, WalkInv,
     FocusEdges, GivenUpEdges
<1>2. ASSUME WalkInv, [Foundations!Next]_(Foundations!vars) PROVE WalkInv'
  <2>1. CASE Foundations!Begin
    <3>1. /\ Len0' \in Nat /\ FocusEdges' \in [1..Len0' -> SUBSET (1..Len0')]
          /\ order' = <<>> /\ GivenUpEdges' = {}
      BY <2>1 DEF Foundations!Begin, Foundations!Graph, Foundations!Groups, FocusEdges,
         GivenUpEdges
    <3> QED BY <3>1, ABeginningIsKept DEF WalkInv
  <2>2. ASSUME NEW g \in Foundations!Groups, Foundations!Emit(g) PROVE WalkInv'
    <3> DEFINE left == {x \in 1..Len0 : \A i \in DOMAIN order : order[i] # x}
    <3>1. /\ Len0' = Len0 /\ FocusEdges' = FocusEdges /\ order' = Append(order, g)
          /\ g \in Foundations!Remaining
          /\ Foundations!Ready = {} \/ g \in Foundations!Ready
          /\ GivenUpEdges' = GivenUpEdges
               \cup {<<g, d>> : d \in FocusEdges[g] \cap Foundations!Remaining}
      BY <2>2 DEF Foundations!Emit, FocusEdges, GivenUpEdges
    <3>2. Foundations!Remaining = left
      BY DEF Foundations!Remaining, Foundations!Groups, Foundations!Emitted
    <3>3. Foundations!Ready = {x \in left : FocusEdges[x] \cap left = {}}
      BY <3>2 DEF Foundations!Ready, FocusEdges
    <3>4. g \in left /\ (FocusEdges[g] \cap left # {} => \A x \in left : FocusEdges[x] \cap left # {})
      BY <3>1, <3>2, <3>3
    <3> HIDE DEF left
    <3>5. left = {x \in 1..Len0 : \A i \in DOMAIN order : order[i] # x}
      BY DEF left
    <3>6. WalkKept(Len0, FocusEdges, order, GivenUpEdges)
      BY <1>2 DEF WalkInv
    <3>7. WalkKept(Len0, FocusEdges, Append(order, g),
                   GivenUpEdges \cup {<<g, d>> : d \in FocusEdges[g] \cap left})
      BY <3>4, <3>5, <3>6, OneMoreIsKept
    <3> QED BY <3>1, <3>2, <3>7 DEF WalkInv
  <2>3. CASE UNCHANGED Foundations!vars
    <3>1. /\ Len0' = Len0 /\ FocusEdges' = FocusEdges /\ order' = order
          /\ GivenUpEdges' = GivenUpEdges
      BY <2>3 DEF Foundations!vars, FocusEdges, GivenUpEdges
    <3> QED BY <3>1, <1>2 DEF WalkInv
  <2> QED
    BY <2>1, <2>2, <2>3, <1>2 DEF Foundations!Next
<1> QED
  BY <1>1, <1>2, PTL DEF Foundations!Spec

\* Every walk over focus groups emits each once, whatever depends on whatever.
THEOREM EachOnce == Foundations!Spec => []Foundations!Once
<1>1. ASSUME WalkInv PROVE Foundations!Once
  <2>1. \A i, j \in DOMAIN order : order[i] = order[j] => i = j
    BY <1>1 DEF WalkInv, WalkKept
  <2>2. ASSUME Foundations!Remaining = {} PROVE Len(order) = Len0
    <3>1. \A x \in 1..Len0 : \E i \in DOMAIN order : order[i] = x
      BY <2>2 DEF Foundations!Remaining, Foundations!Groups, Foundations!Emitted
    <3> QED BY <3>1, <1>1, OverIsComplete DEF WalkInv
  <2> QED BY <2>1, <2>2 DEF Foundations!Once
<1> QED
  BY <1>1, WalkInvHolds, PTL

\* What a group depends on was emitted before it, or the edge is on record.
THEOREM DependenciesHonoured == Foundations!Spec => []Foundations!Honoured
<1>1. WalkInv => Foundations!Honoured
  BY DEF WalkInv, WalkKept, Foundations!Honoured, FocusEdges, GivenUpEdges
<1> QED
  BY <1>1, WalkInvHolds, PTL

\* Over groups without a cycle no edge is ever given up.
THEOREM NoNeedlessBreak == Foundations!Spec => []Foundations!NothingBrokenNeedlessly
<1>1. WalkInv => Foundations!NothingBrokenNeedlessly
  BY DEF WalkInv, WalkKept, Circular, Foundations!NothingBrokenNeedlessly, Foundations!Cyclic,
     Foundations!Groups, FocusEdges, GivenUpEdges
<1> QED
  BY <1>1, WalkInvHolds, PTL

\* A plan whose focus groups can be read in an order gives up no edge.
THEOREM NoEdgeGivenUpNeedlessly == Spec => []NothingBrokenNeedlessly
  BY APlanIsAWalk, NoNeedlessBreak, PTL DEF IsAWalk, NothingBrokenNeedlessly

-----------------------------------------------------------------------------
(* The finished order, and the types *)

\* The walk so far is of focus groups, and what was given up are edges, each with
\* a verdict.
Walked == /\ order \in Seq(Focus)
          /\ broken \subseteq Focus \X Focus \X {"artefact", "mutual"}
          /\ \A b \in broken : b[2] \in edges[b[1]]

\* Every step keeps the walk to focus groups and to edges with a verdict.
LEMMA WalkedNext == ASSUME PlanInv, Walked, [Next]_vars PROVE Walked'
<1>1. ASSUME order' = <<>>, broken' = {} PROVE Walked'
  <2>1. order' \in Seq(Focus') /\ broken' \subseteq Focus' \X Focus' \X {"artefact", "mutual"}
    BY <1>1
  <2> QED BY <2>1, <1>1 DEF Walked
<1>2. ASSUME NEW ch, Start(ch) PROVE Walked'
  BY <1>1, <1>2 DEF Start, StartUngrouped, StartCached, StartAsking, StartFails, Group, Discard
<1>3. CASE Parse
  BY <1>1, <1>3 DEF Parse, Group
<1>4. CASE EmitReady
  <2> DEFINE g == Largest(Ready, Sizes)
  <2>1. Ready \subseteq Remaining /\ Ready # {}
    BY <1>4 DEF Ready, ReadyIn, EmitReady
  <2>2. g \in Focus
    BY <2>1, LargestIsLeft, WellPlacedIsWellGrouped DEF Remaining
  <2>3. order' = Append(order, g) /\ broken' = broken /\ Focus' = Focus /\ edges' = edges
    BY <1>4 DEF EmitReady, Emit, Len0, Focus
  <2> HIDE DEF g
  <2>4. Append(order, g) \in Seq(Focus)
    <3>1. order \in Seq(Focus)
      BY DEF Walked
    <3> HIDE DEF Focus
    <3> QED BY <2>2, <3>1
  <2> QED BY <2>3, <2>4 DEF Walked
<1>5. CASE EmitStuck
  <2> DEFINE freed == BreakCycle(change, groups, Remaining, Sizes)
             g == freed.pick
             why == freed.why
             more == {<<g, d, why>> : d \in GivenUp(g)}
  <2>1. g \in Remaining /\ g \in Focus
    BY <1>5, BreakCyclePicksALeftGroup, WellPlacedIsWellGrouped DEF EmitStuck, Remaining
  <2>2. order' = Append(order, g) /\ broken' = broken \cup more /\ Focus' = Focus
        /\ edges' = edges
    BY <1>5 DEF EmitStuck, Emit, Len0, Focus
  <2>3. why \in {"artefact", "mutual"}
    BY DEF BreakCycle
  <2> HIDE DEF g, why, freed
  <2>4. GivenUp(g) \subseteq Focus
    <3>1. \A d \in edges[g] : d \in Nat
      BY <2>1, SameWaiting, WellPlacedIsWellGrouped
    <3>2. [f \in Focus |-> edges[f] \cap Focus][g] \cap Foundations!Remaining = GivenUp(g)
      BY <2>1, SameWaiting, WellPlacedIsWellGrouped
    <3> QED BY <3>2, SameRemaining DEF Remaining
  <2>5. more \subseteq Focus \X Focus \X {"artefact", "mutual"}
    BY <2>1, <2>3, <2>4
  <2>6. Append(order, g) \in Seq(Focus)
    <3>1. order \in Seq(Focus)
      BY DEF Walked
    <3> HIDE DEF Focus
    <3> QED BY <2>1, <3>1
  <2>7. \A b \in more : b[2] \in edges[b[1]]
    <3>1. \A d \in GivenUp(g) : d \in edges[g]
      BY DEF GivenUp
    <3>2. \A d : <<g, d, why>>[1] = g /\ <<g, d, why>>[2] = d
      OBVIOUS
    <3> QED BY <3>1, <3>2
  <2> HIDE DEF more
  <2> QED BY <2>2, <2>5, <2>6, <2>7 DEF Walked
<1>6. ASSUME UNCHANGED <<missing, groups, edges, order, broken>> PROVE Walked'
  BY <1>6 DEF Walked, Focus, Len0
<1>7. CASE AskFails \/ ParseFails \/ Finish \/ Clean \/ UNCHANGED vars
           \/ (\E raw : Complete(raw)) \/ (\E raw : PutElsewhere(raw))
  BY <1>6, <1>7 DEF AskFails, ParseFails, Finish, Clean, vars, Complete, PutElsewhere
<1> QED
  BY <1>2, <1>3, <1>4, <1>5, <1>7 DEF Next, Work

-----------------------------------------------------------------------------
\* What is known of every state: the machine's invariant and what the walk promises.
Known == PlanInv /\ Walked /\ Foundations!Once /\ Foundations!Honoured

\* The invariant, and what module Walk promises, of every state of every run.
LEMMA EveryStateIsKnown == Spec => []Known
<1>1. Init => PlanInv /\ Walked
  <2>1. Init => order = <<>> /\ broken = {}
    BY DEF Init
  <2> QED BY <2>1, PlanInit DEF Walked
<1>2. PlanInv /\ Walked /\ [Next]_vars => (PlanInv /\ Walked)'
  BY PlanNext, WalkedNext
<1>3. Spec => [](PlanInv /\ Walked)
  BY <1>1, <1>2, PTL DEF Spec
<1>4. Spec => []Foundations!Once /\ []Foundations!Honoured
  BY APlanIsAWalk, EachOnce, DependenciesHonoured, PTL DEF IsAWalk
<1> QED
  BY <1>3, <1>4, PTL DEF Known

-----------------------------------------------------------------------------
\* A finished order names each group once: the focus groups as walked, then the
\* others where they are.
Permutes(final, n, len) ==
    /\ DOMAIN final = 1..n
    /\ \A r \in 1..n : final[r] \in 1..n
    /\ \A r, q \in 1..n : final[r] = final[q] => r = q
    /\ \A g \in 1..n : \E r \in 1..n : final[r] = g
    /\ \A r \in 1..len : final[r] = order[r] /\ final[r] \in 1..len
    /\ \A r \in (len + 1)..n : final[r] = r

\* The order of a run that is done is a finished one.
LEMMA FinalOrderPermutes ==
  ASSUME Known, stage = "done"
  PROVE  /\ Permutes(FinalOrder, Len(groups), Len0) /\ Len(order) = Len0
         /\ Len(groups) \in Nat /\ Len0 \in 0..Len(groups) /\ DOMAIN groups = 1..Len(groups)
         /\ DOMAIN order = 1..Len0
<1> DEFINE n == Len(groups)
           rest == [i \in 1..(n - Len0) |-> Len0 + i]
<1>1. WellGrouped
  BY WellPlacedIsWellGrouped DEF Known
<1>2. n \in Nat /\ Len0 \in Nat /\ Focus \subseteq 1..n /\ DOMAIN groups = 1..n
  <2>1. Len0 \in Nat /\ Focus \subseteq DOMAIN groups /\ DOMAIN groups = 1..Len(groups)
    BY <1>1, FocusIsAPrefix
  <2> QED BY <1>1, <2>1 DEF WellGrouped
<1>3. Len0 <= n
  <2>1. Len0 = 0 \/ Len0 \in Focus
    BY <1>2 DEF Focus
  <2> QED BY <2>1, <1>2
<1>4. Remaining = {}
  BY DEF Known, PlanInv
<1>5. /\ order \in Seq(Focus) /\ Len(order) = Len0
      /\ \A i, j \in DOMAIN order : order[i] = order[j] => i = j
  BY <1>4, SameRemaining DEF Known, Walked, Foundations!Once
<1>6. DOMAIN order = 1..Len0 /\ \A r \in 1..Len0 : order[r] \in 1..Len0
  <2>1. DOMAIN order = 1..Len(order) /\ \A r \in 1..Len(order) : order[r] \in Focus
    <3> HIDE DEF Focus
    <3> QED BY <1>5
  <2> QED BY <2>1, <1>5 DEF Focus
<1>7. \A g \in 1..Len0 : \E r \in 1..Len0 : order[r] = g
  <2>1. \A g \in Focus : g \in ToSet(order)
    BY <1>4 DEF Remaining
  <2> QED BY <2>1, <1>6 DEF Focus, ToSet
<1>8. rest \in Seq(Nat) /\ Len(rest) = n - Len0
  <2>1. n - Len0 \in Nat
    BY <1>2, <1>3
  <2> QED BY <2>1, <1>2
<1>9. \A i \in 1..(n - Len0) : rest[i] = Len0 + i
  OBVIOUS
<1>10. FinalOrder = order \o rest
  BY DEF FinalOrder
<1>11. order \in Seq(Nat)
  <2>1. Focus \subseteq Nat
    BY DEF Focus
  <2>2. \A r \in 1..Len0 : order[r] \in Nat
    BY <1>6
  <2> HIDE DEF Focus
  <2>3. order \in [1..Len0 -> Nat]
    BY <1>5, <1>6, <2>2
  <2> QED BY <2>3, <1>2
<1> HIDE DEF rest
<1>12. /\ DOMAIN FinalOrder = 1..n
       /\ \A r \in 1..Len0 : FinalOrder[r] = order[r]
       /\ \A r \in (Len0 + 1)..n : FinalOrder[r] = r
  <2>1. /\ Len(order \o rest) = Len(order) + Len(rest)
        /\ DOMAIN (order \o rest) = 1..(Len(order) + Len(rest))
        /\ \A r \in 1..(Len(order) + Len(rest)) :
              (order \o rest)[r] = IF r <= Len(order) THEN order[r] ELSE rest[r - Len(order)]
    BY <1>8, <1>11
  <2>2. DOMAIN FinalOrder = 1..n
    BY <2>1, <1>2, <1>3, <1>5, <1>8, <1>10
  <2>3. ASSUME NEW r \in 1..Len0 PROVE FinalOrder[r] = order[r]
    BY <2>1, <1>2, <1>3, <1>5, <1>8, <1>10
  <2>4. ASSUME NEW r \in (Len0 + 1)..n PROVE FinalOrder[r] = r
    <3>1. r \in 1..n /\ ~(r <= Len0) /\ r - Len0 \in 1..(n - Len0) /\ Len0 + (r - Len0) = r
      BY <1>2, <1>3
    <3>2. Len(order) + Len(rest) = n
      BY <1>2, <1>3, <1>5, <1>8
    <3>3. FinalOrder[r] = rest[r - Len0]
      BY <3>1, <3>2, <2>1, <1>5, <1>10
    <3> QED BY <3>1, <3>3, <1>9
  <2> QED BY <2>2, <2>3, <2>4
<1> DEFINE final == FinalOrder
<1> HIDE DEF final
<1>13. /\ DOMAIN final = 1..n /\ \A r \in 1..Len0 : final[r] = order[r] /\ final[r] \in 1..Len0
       /\ \A r \in (Len0 + 1)..n : final[r] = r
  BY <1>6, <1>12 DEF final
<1>14. \A r \in 1..n : r \in 1..Len0 \/ r \in (Len0 + 1)..n
  BY <1>2, <1>3
<1>15. \A r \in 1..n : final[r] \in 1..n
  <2>1. \A r \in 1..Len0 : r \in 1..n
    BY <1>2, <1>3
  <2> QED BY <2>1, <1>13, <1>14
<1>16. ASSUME NEW r \in 1..n, NEW q \in 1..n, final[r] = final[q] PROVE r = q
  <2>1. CASE r \in 1..Len0 /\ q \in 1..Len0
    BY <2>1, <1>5, <1>6, <1>13, <1>16
  <2>2. CASE r \in (Len0 + 1)..n /\ q \in (Len0 + 1)..n
    BY <2>2, <1>13, <1>16
  <2>3. ASSUME NEW a \in 1..Len0, NEW b \in (Len0 + 1)..n PROVE final[a] # final[b]
    <3>1. final[a] \in 1..Len0 /\ final[b] = b
      BY <1>13
    <3> QED BY <3>1, <1>2
  <2> QED BY <2>1, <2>2, <2>3, <1>14, <1>16
<1>17. ASSUME NEW g \in 1..n PROVE \E r \in 1..n : final[r] = g
  <2>1. CASE g \in 1..Len0
    <3>1. PICK r \in 1..Len0 : order[r] = g
      BY <2>1, <1>7
    <3>2. r \in 1..n
      BY <1>2, <1>3
    <3> QED BY <3>1, <3>2, <1>13
  <2>2. CASE g \in (Len0 + 1)..n
    BY <2>2, <1>13
  <2> QED BY <2>1, <2>2, <1>14
<1>18. Permutes(final, n, Len0)
  BY <1>13, <1>15, <1>16, <1>17 DEF Permutes
<1> QED
  BY <1>2, <1>3, <1>5, <1>6, <1>18 DEF final

\* Every variable of a run keeps its type, whatever a model answers and whatever
\* another process caches.
THEOREM PlanKeepsTypes == Spec => []TypeOK
<1>1. ASSUME Known PROVE TypeOK
  <2>0. DOMAIN cache = Keys /\ pinning \in BOOLEAN /\ stage \in Stages /\ change \in Changes
        /\ (stage = "parse" => answer # NoAnswer)
    BY <1>1 DEF Known, PlanInv
  <2>1. WellGrouped /\ order \in Seq(Focus)
        /\ broken \subseteq Focus \X Focus \X {"artefact", "mutual"}
    BY <1>1, WellPlacedIsWellGrouped DEF Known, Walked
  <2>2. CASE stage \in {"sort", "done"}
    <3>1. missing \subseteq Offered(change) /\ edges = GroupEdges(change, groups)
      BY <2>2, <1>1 DEF Known, PlanInv
    <3>2. edges \in [DOMAIN groups -> SUBSET DOMAIN groups]
      BY <3>1 DEF GroupEdges, Grouped
    <3>3. DOMAIN plan = IF stage = "done" THEN DOMAIN groups ELSE {}
      <4>1. CASE stage = "sort"
        BY <4>1, <1>1 DEF Known, PlanInv
      <4>2. CASE stage = "done"
        <5>1. plan = [r \in DOMAIN FinalOrder |-> Entry(FinalOrder[r])]
          BY <4>2, <1>1 DEF Known, PlanInv, Planned
        <5>2. DOMAIN FinalOrder = DOMAIN groups
          BY <4>2, <1>1, FinalOrderPermutes DEF Permutes
        <5> QED BY <4>2, <5>1, <5>2
      <4> QED BY <2>2, <4>1, <4>2
    <3> QED BY <2>0, <2>1, <3>1, <3>2, <3>3 DEF TypeOK
  <2>3. CASE stage \notin {"sort", "done"}
    <3>1. Empty
      BY <2>3, <1>1 DEF Known, PlanInv
    <3>2. edges \in [DOMAIN groups -> SUBSET DOMAIN groups] /\ DOMAIN plan = {}
      BY <3>1 DEF Empty
    <3>3. missing \subseteq Offered(change)
      BY <3>1 DEF Empty
    <3> QED BY <2>0, <2>1, <2>3, <3>2, <3>3 DEF TypeOK
  <2> QED BY <2>2, <2>3
<1> QED
  BY <1>1, EveryStateIsKnown, PTL

-----------------------------------------------------------------------------
(* The classes of a group in order *)

Once(s) == \A i, j \in 1..Len(s) : s[i] = s[j] => i = j

\* A sequence without repetition holds as many values as it is long.
LEMMA CountedOnce ==
  ASSUME NEW V, NEW s \in Seq(V), Once(s)
  PROVE  /\ IsFiniteSet(ToSet(s)) /\ Cardinality(ToSet(s)) = Len(s)
         /\ \A x : x \in ToSet(s) <=> \E i \in 1..Len(s) : s[i] = x
<1>1. Len(s) \in Nat /\ DOMAIN s = 1..Len(s)
  OBVIOUS
<1>2. \A x : x \in ToSet(s) <=> \E i \in 1..Len(s) : s[i] = x
  BY <1>1 DEF ToSet
<1> DEFINE T == ToSet(s)
           f == [i \in 1..Len(s) |-> s[i]]
<1> HIDE DEF T
<1>3. f \in Bijection(1..Len(s), T)
  <2>1. f \in [1..Len(s) -> T] /\ \A x \in T : \E i \in 1..Len(s) : f[i] = x
    BY <1>2 DEF T
  <2>2. \A i, j \in 1..Len(s) : f[i] = f[j] => i = j
    BY DEF Once
  <2> HIDE DEF f
  <2> QED BY <2>1, <2>2 DEF Bijection, Injection, Surjection, IsInjective
<1>4. ExistsBijection(1..Len(s), T)
  BY <1>3 DEF ExistsBijection
<1>5. IsFiniteSet(T) /\ Cardinality(T) = Len(s)
  BY <1>1, <1>4, FS_CountingElements, FS_NatBijection
<1> QED BY <1>2, <1>5 DEF T

\* A class is no larger than the groups that may hold it.
LEMMA SizeBound ==
  ASSUME NEW ch \in Changes
  PROVE  \E bound \in Nat : \A c \in ClassIds(ch) : Size(ch, c) \in 0..bound
<1>1. PICK bound \in Nat :
        \A g : Members(g) \subseteq ClassIds(ch) => HunkCount(ch, g) \in 0..bound
  BY HunkCountBound
<1>2. ASSUME NEW c \in ClassIds(ch) PROVE Size(ch, c) \in 0..bound
  <2> DEFINE g == [class_ids |-> <<c>>]
  <2>1. Members(g) = {c}
    BY DEF Members, ToSet
  <2> HIDE DEF g
  <2>2. HunksIn(ch, g) = ch.hunks[c]
    BY <2>1 DEF HunksIn
  <2> QED BY <1>1, <2>1, <2>2 DEF HunkCount, Size
<1> QED BY <1>2

-----------------------------------------------------------------------------
\* The class taken next is one that is left, and a ready one if there is one.
LEMMA NextClassIsLeft ==
  ASSUME NEW ch \in Changes, NEW ids \in Seq(ClassIds(ch)), NEW emitted,
         ToSet(ids) \ emitted # {}
  PROVE  LET next == NextClass(ch, ids, emitted)
             ready == ReadyClasses(ch, ToSet(ids), emitted)
         IN  /\ next \in ToSet(ids) \ emitted
             /\ ready # {} => next \in ready
<1> DEFINE members == ToSet(ids)
           ready == ReadyClasses(ch, members, emitted)
           pool == IF ready = {} THEN members \ emitted ELSE ready
           places == {i \in DOMAIN ids : ids[i] \in pool}
           size == [i \in DOMAIN ids |-> Size(ch, ids[i])]
<1>1. pool # {} /\ pool \subseteq members \ emitted /\ (ready # {} => pool = ready)
  BY DEF ReadyClasses
<1>2. \A c \in members : \E i \in DOMAIN ids : ids[i] = c
  BY DEF ToSet
<1>3. NextClass(ch, ids, emitted) = ids[Largest(places, size)]
  BY DEF NextClass
<1> HIDE DEF pool, members
<1>4. places # {} /\ places \subseteq Nat
  <2>1. PICK c \in pool : c \in members
    BY <1>1
  <2>2. PICK i \in DOMAIN ids : ids[i] = c
    BY <2>1, <1>2
  <2> QED BY <2>2
<1>5. PICK bound \in Nat : \A c \in ClassIds(ch) : Size(ch, c) \in 0..bound
  BY SizeBound
<1>6. \A i \in places : size[i] \in 0..bound
  BY <1>5
<1>7. Largest(places, size) \in places
  <2> HIDE DEF places, size
  <2> QED BY <1>4, <1>6, LargestInPool
<1>8. NextClass(ch, ids, emitted) \in pool
  BY <1>3, <1>7
<1> QED BY <1>1, <1>8 DEF members

\* Where the classes hold no cycle, one of those left is ready.
LEMMA SomeClassIsReady ==
  ASSUME NEW ch, NEW members, NEW emitted, members \ emitted # {},
         ~Cyclic(members, ch.depends_on)
  PROVE  ReadyClasses(ch, members, emitted) # {}
<1> DEFINE stuck == members \ emitted
<1>1. SUFFICES ASSUME ReadyClasses(ch, members, emitted) = {} PROVE FALSE
  OBVIOUS
<1>2. ASSUME NEW c \in stuck PROVE ch.depends_on[c] \cap stuck # {}
  BY <1>1 DEF ReadyClasses
<1>3. stuck \in SUBSET members /\ stuck # {}
  OBVIOUS
<1> HIDE DEF stuck
<1> QED BY <1>2, <1>3 DEF Cyclic

-----------------------------------------------------------------------------
\* What a walk over the classes of a group has emitted: each once, and, where they
\* can be read in an order, what a class uses before it.
Honours(ch, members, s) ==
  \A i \in 1..Len(s) : \A u \in ch.depends_on[s[i]] \cap members :
      \E j \in 1..(i - 1) : s[j] = u
Orderly(ch, members, s) ==
  /\ s \in Seq(members) /\ Once(s)
  /\ Cyclic(members, ch.depends_on) \/ Honours(ch, members, s)

\* Taking the next class keeps a walk over classes orderly.
LEMMA OneClassMore ==
  ASSUME NEW ch \in Changes, NEW ids \in Seq(ClassIds(ch)), Once(ids),
         NEW s, Orderly(ch, ToSet(ids), s), Len(s) < Len(ids)
  PROVE  LET next == NextClass(ch, ids, ToSet(s))
         IN  /\ next \in ToSet(ids) /\ Orderly(ch, ToSet(ids), Append(s, next))
             /\ Len(Append(s, next)) = Len(s) + 1
<1> DEFINE members == ToSet(ids)
           emitted == ToSet(s)
           next == NextClass(ch, ids, emitted)
           n == Len(s)
           t == Append(s, next)
<1>1. IsFiniteSet(members) /\ Cardinality(members) = Len(ids)
  BY CountedOnce
<1>2. s \in Seq(members) /\ Once(s)
  BY DEF Orderly
<1>3. /\ IsFiniteSet(emitted) /\ Cardinality(emitted) = n
      /\ \A x : x \in emitted <=> \E i \in 1..n : s[i] = x
  <2> HIDE DEF members
  <2> QED BY <1>2, CountedOnce
<1>4. members \ emitted # {}
  <2>1. SUFFICES ASSUME members \ emitted = {} PROVE FALSE
    OBVIOUS
  <2>2. members \in SUBSET emitted
    BY <2>1
  <2>3. Cardinality(members) <= Cardinality(emitted)
    <3> HIDE DEF members, emitted
    <3> QED BY <2>2, <1>3, FS_Subset
  <2>4. n \in Nat /\ Len(ids) \in Nat
    BY <1>2, LenProperties
  <2> QED BY <2>3, <2>4, <1>1, <1>3
<1>5. /\ next \in members \ emitted
      /\ ReadyClasses(ch, members, emitted) # {} => next \in ReadyClasses(ch, members, emitted)
  BY <1>4, NextClassIsLeft
<1> HIDE DEF members, emitted, next
<1>6. /\ n \in Nat /\ t \in Seq(members) /\ Len(t) = n + 1
      /\ \A i \in 1..n : t[i] = s[i]
      /\ t[n + 1] = next
  BY <1>2, <1>5
<1> HIDE DEF t
<1>7. \A i \in 1..(n + 1) : i = n + 1 \/ i \in 1..n
  BY <1>6
<1>8. Once(t)
  <2>1. \A i \in 1..n : t[i] # next
    BY <1>3, <1>5, <1>6
  <2>2. ASSUME NEW i \in 1..(n + 1), NEW j \in 1..(n + 1), t[i] = t[j] PROVE i = j
    <3>1. CASE i \in 1..n /\ j \in 1..n
      BY <3>1, <2>2, <1>2, <1>6 DEF Once
    <3> QED BY <3>1, <2>1, <2>2, <1>6, <1>7
  <2> QED BY <2>2, <1>6 DEF Once
<1>9. Cyclic(members, ch.depends_on) \/ Honours(ch, members, t)
  <2> SUFFICES ASSUME ~Cyclic(members, ch.depends_on) PROVE Honours(ch, members, t)
    OBVIOUS
  <2>1. Honours(ch, members, s)
    BY DEF Orderly, members
  <2>2. next \in ReadyClasses(ch, members, emitted)
    BY <1>4, <1>5, SomeClassIsReady
  <2>3. ASSUME NEW i \in 1..(n + 1), NEW u \in ch.depends_on[t[i]] \cap members
        PROVE  \E j \in 1..(i - 1) : t[j] = u
    <3>1. CASE i \in 1..n
      <4>1. PICK j \in 1..(i - 1) : s[j] = u
        BY <3>1, <2>1, <2>3, <1>6 DEF Honours
      <4>2. j \in 1..n
        BY <3>1, <1>6
      <4> QED BY <4>1, <4>2, <1>6
    <3>2. CASE i = n + 1
      <4>1. u \in emitted
        BY <3>2, <2>2, <2>3, <1>6 DEF ReadyClasses
      <4>2. PICK j \in 1..n : s[j] = u
        BY <4>1, <1>3
      <4>3. (n + 1) - 1 = n
        BY <1>6
      <4> QED BY <4>2, <4>3, <3>2, <1>6
    <3> QED BY <3>1, <3>2, <1>7
  <2> QED BY <2>3, <1>6 DEF Honours
<1>10. Orderly(ch, members, t)
  BY <1>6, <1>8, <1>9 DEF Orderly
<1> QED BY <1>5, <1>6, <1>10 DEF t, next, emitted, members

\* The classes of a group in reading order: each of them once, and, where they can
\* be read in an order, what a class uses before it.
LEMMA OrderClassesOrders ==
  ASSUME NEW ch \in Changes, NEW ids \in Seq(ClassIds(ch)), Once(ids)
  PROVE  /\ Orderly(ch, ToSet(ids), OrderClasses(ch, ids))
         /\ ToSet(OrderClasses(ch, ids)) = ToSet(ids)
         /\ Len(OrderClasses(ch, ids)) = Len(ids)
<1> DEFINE N == Len(ids)
           members == ToSet(ids)
           Take(w) == Append(w, NextClass(ch, ids, ToSet(w)))
           Def(f) == [k \in 0..Len(ids) |-> IF k = 0 THEN <<>> ELSE Take(f[k - 1])]
           walk == CHOOSE f : f = Def(f)
           V == Seq(members)
           Able(w) == Orderly(ch, members, w) /\ Len(w) < N
           G == [i \in Nat |-> [w \in V |-> IF Able(w) THEN Take(w) ELSE w]]
           nothing == <<>>
<1>1. N \in Nat
  BY LenProperties
<1>2. nothing \in V /\ Len(nothing) = 0
  BY EmptySeq
<1>3. Orderly(ch, members, nothing)
  BY <1>2 DEF Orderly, Once, Honours
<1>4. ASSUME NEW w, Able(w)
      PROVE  Orderly(ch, members, Take(w)) /\ Len(Take(w)) = Len(w) + 1 /\ Take(w) \in V
  <2>1. Orderly(ch, ToSet(ids), w) /\ Len(w) < Len(ids)
    BY <1>4
  <2>2. Orderly(ch, ToSet(ids), Take(w)) /\ Len(Take(w)) = Len(w) + 1
    BY <2>1, OneClassMore
  <2> QED BY <2>2 DEF Orderly
<1>5. G \in Steps(V)
  <2>1. ASSUME NEW w \in V PROVE (IF Able(w) THEN Take(w) ELSE w) \in V
    <3> HIDE DEF Able, Take, V
    <3> QED BY <1>4
  <2> HIDE DEF Able, Take, V
  <2> QED BY <2>1 DEF Steps
<1> HIDE DEF Able, Take, V, nothing
<1>6. PICK f : IsPass(f, N, V, nothing, G)
  <2> HIDE DEF G, N
  <2> QED BY <1>1, <1>2, <1>5, Recursion
<1>7. f[0] = nothing /\ \A n \in 1..N : f[n] = G[n][f[n - 1]]
  BY <1>6 DEF IsPass
<1> DEFINE T == {n \in 0..N : Orderly(ch, members, f[n]) /\ Len(f[n]) = n}
<1>8. ASSUME NEW n \in 0..(N - 1), Orderly(ch, members, f[n]), Len(f[n]) = n
      PROVE  f[n + 1] = Take(f[n]) /\ Able(f[n])
  <2>1. n + 1 \in 1..N /\ n + 1 \in Nat /\ (n + 1) - 1 = n /\ n < N
    BY <1>1
  <2>2. Able(f[n])
    BY <1>8, <2>1 DEF Able
  <2>3. f[n] \in V
    BY <1>8 DEF Orderly, V
  <2>4. f[n + 1] = G[n + 1][f[n]]
    BY <2>1, <1>7
  <2> QED BY <2>1, <2>2, <2>3, <2>4
<1>9. \A n \in 0..N : n \in T
  <2>1. 0 \in T
    BY <1>1, <1>2, <1>3, <1>7
  <2>2. ASSUME NEW n \in 0..(N - 1), n \in T PROVE n + 1 \in T
    <3>1. f[n + 1] = Take(f[n]) /\ Able(f[n]) /\ Len(f[n]) = n /\ n + 1 \in 0..N
      BY <2>2, <1>1, <1>8
    <3> QED BY <3>1, <1>4
  <2> HIDE DEF T
  <2> QED BY <2>1, <2>2, <1>1, ByInduction
<1>10. \A n \in 0..N : Orderly(ch, members, f[n]) /\ Len(f[n]) = n
  BY <1>9
<1> DEFINE g == [k \in 0..Len(ids) |-> f[k]]
<1>11. g = Def(g)
  <2>1. ASSUME NEW k \in 0..Len(ids) PROVE g[k] = Def(g)[k]
    <3>1. CASE k = 0
      BY <3>1, <1>7 DEF nothing
    <3>2. CASE k # 0
      <4>1. k - 1 \in 0..(N - 1) /\ k - 1 \in 0..N /\ (k - 1) + 1 = k
        BY <3>2, <1>1
      <4>2. f[k] = Take(f[k - 1])
        BY <4>1, <1>8, <1>10
      <4>3. g[k - 1] = f[k - 1]
        BY <4>1
      <4> QED BY <3>2, <4>2, <4>3
    <3> QED BY <3>1, <3>2
  <2> QED BY <2>1
<1>12. walk = Def(walk)
  <2> HIDE DEF g
  <2> QED BY <1>11
<1>13. OrderClasses(ch, ids) = walk[N]
  BY DEF OrderClasses, Take
<1> HIDE DEF walk
<1> DEFINE U == {n \in 0..N : walk[n] = f[n]}
<1>14. \A n \in 0..N : n \in U
  <2>1. 0 \in U
    BY <1>1, <1>7, <1>12 DEF nothing
  <2>2. ASSUME NEW n \in 0..(N - 1), n \in U PROVE n + 1 \in U
    <3>1. n + 1 \in 0..N /\ n + 1 # 0 /\ (n + 1) - 1 = n /\ n \in 0..N
      BY <1>1
    <3>2. walk[n + 1] = Take(walk[(n + 1) - 1])
      BY <3>1, <1>12
    <3>3. f[n + 1] = Take(f[n])
      BY <3>1, <1>8, <1>10
    <3> QED BY <2>2, <3>1, <3>2, <3>3
  <2> HIDE DEF U
  <2> QED BY <2>1, <2>2, <1>1, ByInduction
<1> DEFINE s == walk[N]
<1>15. Orderly(ch, members, s) /\ Len(s) = N
  <2>1. N \in 0..N
    BY <1>1
  <2> QED BY <2>1, <1>10, <1>14
<1> HIDE DEF s
<1>16. IsFiniteSet(members) /\ Cardinality(members) = N
  BY CountedOnce
<1>17. /\ IsFiniteSet(ToSet(s)) /\ Cardinality(ToSet(s)) = N
       /\ \A x : x \in ToSet(s) <=> \E i \in 1..Len(s) : s[i] = x
  <2>1. s \in Seq(members) /\ Once(s)
    BY <1>15 DEF Orderly
  <2> HIDE DEF members
  <2> QED BY <2>1, <1>15, CountedOnce
<1>18. ToSet(s) \in SUBSET members
  <2>1. s \in Seq(members)
    BY <1>15 DEF Orderly
  <2> HIDE DEF members
  <2> QED BY <2>1, <1>17
<1>19. ToSet(s) = members
  <2> DEFINE held == ToSet(s)
  <2> HIDE DEF held, members
  <2>1. held \in SUBSET members
    BY <1>18 DEF held
  <2>2. Cardinality(held) = Cardinality(members)
    BY <1>16, <1>17 DEF held
  <2>3. held = members
    BY <2>1, <2>2, <1>16, FS_Subset
  <2> QED BY <2>3 DEF held
<1> QED BY <1>13, <1>15, <1>19 DEF s

-----------------------------------------------------------------------------
(* Tiers of the document *)

\* What the document says of the group read at place r.
LEMMA PlaceInPlan ==
  ASSUME Known, stage = "done"
  PROVE  /\ DOMAIN plan = 1..Len(groups) /\ Len(plan) = Len(groups)
         /\ \A r \in 1..Len(groups) : plan[r] = Entry(FinalOrder[r])
<1>1. Permutes(FinalOrder, Len(groups), Len0) /\ Len(groups) \in Nat
  BY FinalOrderPermutes
<1>2. plan = [r \in DOMAIN FinalOrder |-> Entry(FinalOrder[r])]
  BY DEF Known, PlanInv, Planned
<1>3. DOMAIN FinalOrder = 1..Len(groups)
  BY <1>1 DEF Permutes
<1>4. DOMAIN plan = 1..Len(groups) /\ \A r \in 1..Len(groups) : plan[r] = Entry(FinalOrder[r])
  BY <1>2, <1>3
<1>5. Len(plan) = Len(groups)
  <2>1. plan = [r \in 1..Len(groups) |-> Entry(FinalOrder[r])]
    BY <1>2, <1>3
  <2> QED BY <2>1, <1>1
<1> QED BY <1>4, <1>5

\* A group of the document holds the classes of its group, in reading order.
LEMMA EntryOf ==
  ASSUME PlanInv, stage = "done", NEW g \in 1..Len(groups)
  PROVE  /\ Members(Entry(g)) = Members(groups[g])
         /\ Entry(g).class_ids = OrderClasses(change, groups[g].class_ids)
         /\ Orderly(change, Members(groups[g]), Entry(g).class_ids)
         /\ Entry(g).id = g /\ Entry(g).effort = groups[g].effort
<1> DEFINE ids == groups[g].class_ids
<1>1. change \in Changes /\ Parts(groups, ClassIds(change))
  BY DEF PlanInv, WellPlaced
<1>2. ids \in Seq(ClassIds(change))
  BY <1>1 DEF Parts
<1>3. Once(ids)
  <2>1. \A i, j \in 1..Len(ids) : At(groups, g, i, ids[i]) /\ At(groups, g, j, ids[j])
    BY DEF At
  <2>2. ASSUME NEW i \in 1..Len(ids), NEW j \in 1..Len(ids), ids[i] = ids[j] PROVE i = j
    <3>1. At(groups, g, i, ids[i]) /\ At(groups, g, j, ids[i])
      BY <2>1, <2>2
    <3> HIDE DEF ids
    <3> QED BY <3>1, <1>1 DEF Parts
  <2> QED BY <2>2 DEF Once
<1> HIDE DEF ids
<1>4. /\ Orderly(change, ToSet(ids), OrderClasses(change, ids))
      /\ ToSet(OrderClasses(change, ids)) = ToSet(ids)
  BY <1>1, <1>2, <1>3, OrderClassesOrders
<1>5. /\ Entry(g).class_ids = OrderClasses(change, ids)
      /\ Entry(g).id = g /\ Entry(g).effort = groups[g].effort
  BY DEF Entry, ids
<1>6. Members(Entry(g)) = ToSet(OrderClasses(change, ids)) /\ Members(groups[g]) = ToSet(ids)
  BY <1>5 DEF Members, ids
<1> QED BY <1>4, <1>5, <1>6 DEF ids

\* The focus section leaves the back-fill out.
LEMMA BackfillIsOutside ==
  ASSUME PlanInv, missing # {}
  PROVE  Len(groups) \in Nat /\ Len(groups) # 0 /\ Len(groups) \in (Len0 + 1)..Len(groups)
<1> DEFINE Leading == {g \in DOMAIN groups : \A d \in 1..g : groups[d].effort = "focus"}
           n == Len(groups)
<1>1. n \in Nat /\ DOMAIN groups = 1..n /\ groups # <<>> /\ Len0 \in Nat
  BY WellPlacedIsWellGrouped, FocusIsAPrefix DEF WellGrouped
<1>2. n # 0
  <2>1. groups \in Seq([effort : {"focus", "skim", "noise"}, class_ids : Seq(ClassIds(change))])
    BY WellPlacedIsWellGrouped DEF WellGrouped
  <2> DEFINE W == [effort : {"focus", "skim", "noise"}, class_ids : Seq(ClassIds(change))]
  <2> HIDE DEF W
  <2>2. groups \in Seq(W)
    BY <2>1 DEF W
  <2> QED BY <2>2, <1>1
<1>3. Leading \in SUBSET (1..n) /\ IsFiniteSet(1..n) /\ Cardinality(1..n) = n
  <2>1. 1 \in Int /\ n \in Int
    BY <1>1
  <2>2. IsFiniteSet(1..n) /\ Cardinality(1..n) = IF 1 > n THEN 0 ELSE n - 1 + 1
    BY <2>1, FS_Interval
  <2> QED BY <2>2, <1>1
<1>4. Cardinality(Leading) <= n /\ Cardinality(Leading) \in Nat
  <2> HIDE DEF Leading
  <2>1. IsFiniteSet(Leading) /\ Cardinality(Leading) <= Cardinality(1..n)
    BY <1>3, FS_Subset
  <2> QED BY <2>1, <1>3, FS_CardinalityType
<1>5. Len0 = IF Cardinality(Leading) = n THEN Cardinality(Leading) - 1 ELSE Cardinality(Leading)
  BY DEF Len0, FocusLen
<1> HIDE DEF Leading, n
<1>6. Len0 < n
  BY <1>1, <1>4, <1>5
<1> QED BY <1>1, <1>2, <1>6 DEF n

\* Generated classes are folded and nothing else is; a class rewritten during a
\* move is read whatever the model said; what the model left out is read last
\* (grouping/mod.rs, and plan/view.rs, which looks for it there).
THEOREM EveryClassInItsTier == Spec => []RightTier
<1>1. ASSUME Known PROVE RightTier
  <2> SUFFICES ASSUME stage = "done"
               PROVE  /\ \A r \in DOMAIN plan : \A c \in Members(plan[r]) :
                          /\ IsNoise(change, c) <=> plan[r].effort = "noise"
                          /\ c \in change.rename_gated => plan[r].effort # "skim"
                      /\ missing # {} => Len(plan) > 0 /\ Members(plan[Len(plan)]) = missing
    BY DEF RightTier
  <2>1. PlanInv /\ WellPlaced(change, groups, missing)
    BY <1>1 DEF Known, PlanInv
  <2>2. /\ DOMAIN plan = 1..Len(groups) /\ Len(plan) = Len(groups)
        /\ \A r \in 1..Len(groups) : plan[r] = Entry(FinalOrder[r])
    BY <1>1, PlaceInPlan
  <2>3. Permutes(FinalOrder, Len(groups), Len0)
    BY <1>1, FinalOrderPermutes
  <2>4. ASSUME NEW r \in DOMAIN plan, NEW c \in Members(plan[r])
        PROVE  /\ IsNoise(change, c) <=> plan[r].effort = "noise"
               /\ c \in change.rename_gated => plan[r].effort # "skim"
    <3>1. PICK g \in 1..Len(groups) : g = FinalOrder[r]
      BY <2>2, <2>3 DEF Permutes
    <3>2. plan[r] = Entry(g)
      BY <2>2, <3>1
    <3>3. c \in Members(groups[g]) /\ plan[r].effort = groups[g].effort
      BY <2>1, <2>4, <3>2, EntryOf
    <3>4. Fits(change, groups[g])
      BY <2>1 DEF WellPlaced, AllFit
    <3> QED BY <3>3, <3>4 DEF Fits
  <2>5. ASSUME missing # {} PROVE Len(plan) > 0 /\ Members(plan[Len(plan)]) = missing
    <3>1. Len(groups) \in Nat /\ Len(groups) # 0 /\ Len(groups) \in (Len0 + 1)..Len(groups)
      BY <2>1, <2>5, BackfillIsOutside
    <3>2. FinalOrder[Len(groups)] = Len(groups)
      BY <2>3, <3>1 DEF Permutes
    <3>3. Len(groups) \in 1..Len(groups)
      BY <3>1
    <3>4. plan[Len(plan)] = Entry(Len(groups))
      BY <2>2, <3>2, <3>3
    <3>5. Members(Entry(Len(groups))) = Members(groups[Len(groups)])
      BY <2>1, <3>3, EntryOf
    <3>6. Members(groups[Len(groups)]) = missing
      BY <2>1, <2>5 DEF WellPlaced
    <3> QED BY <2>2, <3>1, <3>4, <3>5, <3>6
  <2> QED BY <2>4, <2>5
<1> QED
  BY <1>1, EveryStateIsKnown, PTL

-----------------------------------------------------------------------------
\* What the walk left of the edges between focus groups, read off a finished order.
LEMMA EdgesAsRead ==
  ASSUME Known, stage = "done", NEW r \in 1..Len0, NEW d \in edges[FinalOrder[r]]
  PROVE  /\ d \in 1..Len(groups)
         /\ (\E b \in broken : b[1] = FinalOrder[r] /\ b[2] = d)
               <=> \E q \in (r + 1)..Len0 : FinalOrder[q] = d
<1> DEFINE g == FinalOrder[r]
<1>1. /\ Permutes(FinalOrder, Len(groups), Len0)
      /\ Len(groups) \in Nat /\ Len0 \in 0..Len(groups) /\ DOMAIN groups = 1..Len(groups)
      /\ DOMAIN order = 1..Len0
  BY FinalOrderPermutes
<1>2. /\ \A q \in 1..Len0 : FinalOrder[q] = order[q] /\ order[q] \in Focus
      /\ \A q \in 1..Len0, p \in 1..Len0 : order[q] = order[p] => q = p
      /\ \A q \in 1..Len0 : q \in 1..Len(groups)
  <2>1. \A q \in 1..Len0 : q \in 1..Len(groups)
    BY <1>1
  <2> QED BY <1>1, <2>1 DEF Permutes, Focus
<1>3. g = order[r] /\ g \in Focus /\ g \in DOMAIN groups
  <2>1. Focus \subseteq DOMAIN groups
    BY <1>1 DEF Focus
  <2> QED BY <1>2, <2>1
<1>4. edges = GroupEdges(change, groups)
  BY DEF Known, PlanInv
<1>5. d \in DOMAIN groups /\ d # g
  BY <1>3, <1>4 DEF GroupEdges, Grouped
<1>6. CASE d \in Focus
  <2>1. d \in [f \in Focus |-> edges[f] \cap Focus][order[r]]
    BY <1>3, <1>6
  <2>2. <<order[r], d>> \in {<<b[1], b[2]>> : b \in broken}
          <=> \A j \in 1..(r - 1) : order[j] # d
    BY <2>1, <1>1 DEF Known, Foundations!Honoured
  <2>3. PICK q \in 1..Len0 : order[q] = d
    <3>1. PICK p \in 1..Len(groups) : FinalOrder[p] = d
      BY <1>1, <1>5 DEF Permutes
    <3>2. p \in 1..Len0
      <4>1. p \in (Len0 + 1)..Len(groups) => FinalOrder[p] = p
        BY <1>1 DEF Permutes
      <4>2. p \in 1..Len0 \/ p \in (Len0 + 1)..Len(groups)
        BY <1>1
      <4>3. d <= Len0
        BY <1>1, <1>6 DEF Focus
      <4> QED BY <4>1, <4>2, <4>3, <3>1, <1>1
    <3> QED BY <3>1, <3>2, <1>2
  <2>4. q # r
    BY <2>3, <1>3, <1>5
  <2>5. (\A j \in 1..(r - 1) : order[j] # d) <=> q > r
    <3>1. ASSUME q < r PROVE q \in 1..(r - 1)
      BY <3>1, <1>1
    <3>2. ASSUME q > r, NEW j \in 1..(r - 1) PROVE order[j] # d
      <4>1. j \in 1..Len0 /\ j # q
        BY <3>2, <1>1
      <4> QED BY <4>1, <2>3, <1>2
    <3>3. q < r \/ q > r
      BY <2>4, <1>1
    <3> QED BY <3>1, <3>2, <3>3, <2>3, <1>1
  <2>6. (\E p \in (r + 1)..Len0 : FinalOrder[p] = d) <=> q > r
    <3>1. ASSUME NEW p \in (r + 1)..Len0, FinalOrder[p] = d PROVE q > r
      <4>1. p \in 1..Len0 /\ p > r
        BY <1>1
      <4>2. p = q
        BY <4>1, <3>1, <2>3, <1>2
      <4> QED BY <4>1, <4>2
    <3>2. ASSUME q > r PROVE q \in (r + 1)..Len0 /\ FinalOrder[q] = d
      BY <3>2, <2>3, <1>1, <1>2
    <3> QED BY <3>1, <3>2
  <2>7. (\E b \in broken : b[1] = g /\ b[2] = d)
          <=> <<order[r], d>> \in {<<b[1], b[2]>> : b \in broken}
    BY <1>3
  <2> QED BY <2>2, <2>5, <2>6, <2>7, <1>1, <1>5
<1>7. CASE d \notin Focus
  <2>1. ~\E b \in broken : b[2] = d
    BY <1>7 DEF Known, Walked
  <2>2. ASSUME NEW q \in (r + 1)..Len0 PROVE FinalOrder[q] # d
    <3>1. q \in 1..Len0
      BY <1>1
    <3> QED BY <3>1, <1>2, <1>7
  <2> QED BY <2>1, <2>2, <1>1, <1>5
<1> QED BY <1>6, <1>7

-----------------------------------------------------------------------------
(* Foundations first *)

\* What a group of the document is said to depend on, and which edges carry a verdict.
LEMMA DependsOn ==
  ASSUME Walked, NEW g, NEW e \in Entry(g).depends_on
  PROVE  /\ e[1] \in edges[g]
         /\ e[2] # "none" <=> \E b \in broken : b[1] = g /\ b[2] = e[1]
<1> DEFINE Why(d) == IF \E b \in broken : b[1] = g /\ b[2] = d
                     THEN (CHOOSE b \in broken : b[1] = g /\ b[2] = d)[3] ELSE "none"
<1>1. Entry(g).depends_on = {<<d, Why(d)>> : d \in edges[g]}
  BY DEF Entry
<1>2. PICK d \in edges[g] : e = <<d, Why(d)>>
  <2> HIDE DEF Why
  <2> QED BY <1>1
<1>3. ASSUME \E b \in broken : b[1] = g /\ b[2] = d
      PROVE  Why(d) # "none"
  <2> DEFINE b0 == CHOOSE b \in broken : b[1] = g /\ b[2] = d
  <2>1. b0 \in broken
    BY <1>3
  <2>2. Why(d) = b0[3]
    BY <1>3
  <2> HIDE DEF b0, Why
  <2>3. b0[3] \in {"artefact", "mutual"}
    BY <2>1 DEF Walked
  <2> QED BY <2>2, <2>3
<1>4. ASSUME ~\E b \in broken : b[1] = g /\ b[2] = d
      PROVE  Why(d) = "none"
  BY <1>4
<1> HIDE DEF Why
<1>5. e[1] = d /\ e[2] = Why(d)
  BY <1>2
<1> QED BY <1>3, <1>4, <1>5

\* Where a finished order has a group is its rank.
LEMMA RankOf ==
  ASSUME Known, stage = "done", NEW r \in 1..Len(groups)
  PROVE  RankIn(FinalOrder)[FinalOrder[r]] = r
<1> DEFINE final == FinalOrder
<1>1. /\ DOMAIN final = 1..Len(groups) /\ DOMAIN groups = 1..Len(groups)
      /\ \A p \in 1..Len(groups) : final[p] \in 1..Len(groups)
      /\ \A p, q \in 1..Len(groups) : final[p] = final[q] => p = q
  BY FinalOrderPermutes DEF Permutes
<1> HIDE DEF final
<1>2. RankIn(final)[final[r]] = CHOOSE p \in DOMAIN final : final[p] = final[r]
  BY <1>1 DEF RankIn
<1> QED BY <1>1, <1>2 DEF final

\* The least place in a sequence that has a property of some place in it.
LEMMA FirstPlace ==
  ASSUME NEW n \in Nat, NEW S \in SUBSET (1..n), S # {}
  PROVE  \E i \in S : /\ i - 1 \in 0..n /\ (i - 1) + 1 = i
                      /\ \A j \in 1..(i - 1) : j \notin S
<1>1. S \subseteq Nat
  OBVIOUS
<1>2. PICK i \in S : \A j \in S : i <= j
  BY <1>1, LeastNat
<1>3. i \in 1..n
  OBVIOUS
<1> QED BY <1>2, <1>3

\* A class of a group that uses one of a group read later.
Turns(i, r) ==
  LooksLater(change, groups, RankIn(FinalOrder), FinalOrder[r],
             Entry(FinalOrder[r]).class_ids[i])

\* The pivot of a group is a place where it turns.
LEMMA TurningPoint ==
  ASSUME Known, stage = "done", NEW r \in 1..Len(groups), NEW n \in Entry(FinalOrder[r]).pivot
  PROVE  n < Len(Entry(FinalOrder[r]).class_ids) /\ Turns(n + 1, r)
<1> DEFINE g == FinalOrder[r]
           ids == Entry(g).class_ids
           rank == RankIn(FinalOrder)
<1>1. /\ Permutes(FinalOrder, Len(groups), Len0)
      /\ Len(groups) \in Nat /\ Len0 \in 0..Len(groups) /\ DOMAIN groups = 1..Len(groups)
  BY FinalOrderPermutes
<1>2. g \in 1..Len(groups) /\ PlanInv /\ Walked
  BY <1>1 DEF Permutes, Known
<1>3. PICK b \in broken : b[1] = g
  <2>1. Entry(g).pivot = IF \E b \in broken : b[1] = g
                         THEN {Pivot(change, groups, OrderClasses(change, groups[g].class_ids), rank, g)}
                         ELSE {}
    BY DEF Entry
  <2> QED BY <2>1
<1>4. n = Pivot(change, groups, ids, rank, g)
  <2>1. Entry(g).pivot = {Pivot(change, groups, OrderClasses(change, groups[g].class_ids), rank, g)}
    BY <1>3 DEF Entry
  <2>2. ids = OrderClasses(change, groups[g].class_ids)
    BY DEF Entry
  <2> QED BY <2>1, <2>2
<1>5. g \in Focus /\ b[2] \in edges[g]
  BY <1>2, <1>3 DEF Walked
<1>6. r \in 1..Len0
  <2>1. r \in (Len0 + 1)..Len(groups) => g = r
    BY <1>1 DEF Permutes
  <2>2. r \in 1..Len0 \/ r \in (Len0 + 1)..Len(groups)
    BY <1>1
  <2> QED BY <2>1, <2>2, <1>1, <1>5 DEF Focus
<1>7. PICK q \in (r + 1)..Len0 : FinalOrder[q] = b[2]
  BY <1>3, <1>5, <1>6, EdgesAsRead
<1>8. q \in 1..Len(groups) /\ q > r
  BY <1>1
<1>9. rank[b[2]] = q /\ rank[g] = r
  BY <1>7, <1>8, RankOf
<1>10. edges = GroupEdges(change, groups)
  BY DEF Known, PlanInv
<1>11. PICK c \in Members(groups[g]), u \in Members(groups[b[2]]) : u \in change.depends_on[c]
  BY <1>1, <1>2, <1>5, <1>10 DEF GroupEdges
<1>12. b[2] \in GroupOf(groups, u)
  <2>1. b[2] \in Grouped(groups)
    BY <1>1, <1>2, <1>5, <1>10 DEF GroupEdges
  <2> QED BY <2>1, <1>11 DEF Grouped, GroupOf
<1>13. LooksLater(change, groups, rank, g, c)
  <2>1. rank[b[2]] > rank[g]
    BY <1>8, <1>9
  <2> QED BY <2>1, <1>11, <1>12 DEF LooksLater
<1>14. Members(Entry(g)) = Members(groups[g]) /\ Orderly(change, Members(groups[g]), ids)
  BY <1>2, EntryOf
<1> HIDE DEF rank, g
<1>15. Len(ids) \in Nat /\ DOMAIN ids = 1..Len(ids)
  BY <1>14 DEF Orderly
<1>16. PICK i0 \in 1..Len(ids) : ids[i0] = c
  <2>1. c \in Members(Entry(g))
    BY <1>11, <1>14
  <2> QED BY <2>1, <1>15 DEF Members, ToSet
<1> HIDE DEF ids
<1> DEFINE S == {i \in 1..Len(ids) : LooksLater(change, groups, rank, g, ids[i])}
           Stops(m) == /\ \A i \in 1..m : ~LooksLater(change, groups, rank, g, ids[i])
                       /\ m = Len(ids) \/ LooksLater(change, groups, rank, g, ids[m + 1])
<1>17. \E m \in 0..Len(ids) : Stops(m)
  <2>1. S # {}
    BY <1>13, <1>16
  <2>2. S \in SUBSET (1..Len(ids))
    OBVIOUS
  <2>3. PICK i \in S : /\ i - 1 \in 0..Len(ids) /\ (i - 1) + 1 = i
                       /\ \A j \in 1..(i - 1) : j \notin S
    <3> HIDE DEF S
    <3> QED BY <1>15, <2>1, <2>2, FirstPlace
  <2>4. \A j \in 1..(i - 1) : j \in 1..Len(ids)
    BY <1>15, <2>3
  <2>5. Stops(i - 1)
    BY <2>3, <2>4
  <2> QED BY <2>3, <2>5
<1>18. n = CHOOSE m \in 0..Len(ids) : Stops(m)
  BY <1>4 DEF Pivot
<1>19. n \in 0..Len(ids) /\ Stops(n)
  <2> HIDE DEF Stops
  <2> QED BY <1>17, <1>18
<1>20. n # Len(ids)
  BY <1>13, <1>16, <1>19
<1>21. n < Len(ids) /\ LooksLater(change, groups, rank, g, ids[n + 1])
  <2>1. n < Len(ids)
    <3>1. n \in 0..Len(ids)
      BY <1>19, Zenon
    <3>2. Len(ids) \in Nat
      BY <1>15
    <3> QED BY <3>1, <3>2, <1>20
  <2>2. LooksLater(change, groups, rank, g, ids[n + 1])
    BY <1>19, <1>20, Zenon
  <2> QED BY <2>1, <2>2
<1> QED BY <1>21 DEF Turns, g, ids, rank

-----------------------------------------------------------------------------
\* A focus group comes after what it depends on, except along the edges that carry
\* a verdict, and those point later; classes that can be read in an order are; and
\* a group broken out of a cycle turns where it says (ordering.rs).
THEOREM FoundationsComeFirst == Spec => []FoundationFirst
<1>1. ASSUME Known, stage = "done"
      PROVE  \A r \in 1..Len0 : \A e \in plan[r].depends_on :
                LET later == \E q \in (r + 1)..Len0 : plan[q].id = e[1]
                IN  later <=> e[2] # "none"
  <2> SUFFICES ASSUME NEW r \in 1..Len0, NEW e \in plan[r].depends_on
               PROVE  (\E q \in (r + 1)..Len0 : plan[q].id = e[1]) <=> e[2] # "none"
    OBVIOUS
  <2>1. /\ Len(groups) \in Nat /\ Len0 \in 0..Len(groups)
        /\ \A q \in 1..Len(groups) : plan[q] = Entry(FinalOrder[q])
    BY <1>1, FinalOrderPermutes, PlaceInPlan
  <2>2. r \in 1..Len(groups) /\ \A q \in (r + 1)..Len0 : q \in 1..Len(groups)
    BY <2>1
  <2>3. \A q \in (r + 1)..Len0 : plan[q].id = FinalOrder[q]
    <3>1. \A g : Entry(g).id = g
      BY DEF Entry
    <3> QED BY <2>1, <2>2, <3>1
  <2>4. e \in Entry(FinalOrder[r]).depends_on
    BY <2>1, <2>2
  <2>5. /\ e[1] \in edges[FinalOrder[r]]
        /\ e[2] # "none" <=> \E b \in broken : b[1] = FinalOrder[r] /\ b[2] = e[1]
    BY <1>1, <2>4, DependsOn DEF Known
  <2>6. (\E b \in broken : b[1] = FinalOrder[r] /\ b[2] = e[1])
          <=> \E q \in (r + 1)..Len0 : FinalOrder[q] = e[1]
    BY <1>1, <2>5, EdgesAsRead
  <2> QED BY <2>3, <2>5, <2>6
<1>2. ASSUME Known, stage = "done", NEW r \in DOMAIN plan
      PROVE  /\ \/ Cyclic(Members(plan[r]), change.depends_on)
                \/ \A i, j \in DOMAIN plan[r].class_ids :
                      plan[r].class_ids[j] \in change.depends_on[plan[r].class_ids[i]] => j < i
             /\ \A n \in plan[r].pivot :
                /\ n < Len(plan[r].class_ids)
                /\ \E u \in change.depends_on[plan[r].class_ids[n + 1]] :
                    \E q \in (r + 1)..Len(plan) : u \in Members(plan[q])
  <2> DEFINE g == FinalOrder[r]
             ids == plan[r].class_ids
  <2>1. /\ Len(groups) \in Nat /\ r \in 1..Len(groups) /\ DOMAIN groups = 1..Len(groups)
        /\ \A q \in 1..Len(groups) : plan[q] = Entry(FinalOrder[q])
        /\ Permutes(FinalOrder, Len(groups), Len0) /\ Len(plan) = Len(groups)
    BY <1>2, FinalOrderPermutes, PlaceInPlan
  <2>2. g \in 1..Len(groups) /\ PlanInv
    BY <1>2, <2>1 DEF Permutes, Known
  <2>3. Members(Entry(g)) = Members(groups[g]) /\ Orderly(change, Members(groups[g]), Entry(g).class_ids)
    BY <1>2, <2>2, EntryOf
  <2>4. plan[r] = Entry(g)
    BY <2>1
  <2>5. ids \in Seq(Members(plan[r])) /\ Once(ids)
        /\ (Cyclic(Members(plan[r]), change.depends_on) \/ Honours(change, Members(plan[r]), ids))
    BY <2>3, <2>4 DEF Orderly
  <2>6. ASSUME Honours(change, Members(plan[r]), ids), NEW i \in DOMAIN ids, NEW j \in DOMAIN ids,
               ids[j] \in change.depends_on[ids[i]]
        PROVE  j < i
    <3> DEFINE s == ids
    <3> HIDE DEF s
    <3>1. s \in Seq(Members(plan[r])) /\ Once(s) /\ Honours(change, Members(plan[r]), s)
          /\ i \in DOMAIN s /\ j \in DOMAIN s /\ s[j] \in change.depends_on[s[i]]
      BY <2>5, <2>6 DEF s
    <3>2. i \in 1..Len(s) /\ j \in 1..Len(s) /\ Len(s) \in Nat /\ s[j] \in Members(plan[r])
      BY <3>1
    <3>3. PICK k \in 1..(i - 1) : s[k] = s[j]
      BY <3>1, <3>2 DEF Honours
    <3>4. k \in 1..Len(s) /\ k < i
      BY <3>2
    <3>5. k = j
      BY <3>1, <3>2, <3>3, <3>4 DEF Once
    <3> QED BY <3>4, <3>5
  <2>7. ASSUME NEW n \in plan[r].pivot
        PROVE  /\ n < Len(plan[r].class_ids)
               /\ \E u \in change.depends_on[plan[r].class_ids[n + 1]] :
                    \E q \in (r + 1)..Len(plan) : u \in Members(plan[q])
    <3>1. n \in Entry(FinalOrder[r]).pivot
      BY <2>4
    <3>2. n < Len(Entry(FinalOrder[r]).class_ids) /\ Turns(n + 1, r)
      BY <1>2, <2>1, <3>1, TurningPoint
    <3>3. PICK u \in change.depends_on[plan[r].class_ids[n + 1]] :
            \E d \in GroupOf(groups, u) : RankIn(FinalOrder)[d] > RankIn(FinalOrder)[g]
      BY <3>2, <2>4 DEF Turns, LooksLater
    <3>4. PICK d \in GroupOf(groups, u) : RankIn(FinalOrder)[d] > RankIn(FinalOrder)[g]
      BY <3>3
    <3>5. d \in 1..Len(groups) /\ u \in Members(groups[d])
      BY <3>4, <2>1 DEF GroupOf
    <3>6. PICK q \in 1..Len(groups) : FinalOrder[q] = d
      BY <3>5, <2>1 DEF Permutes
    <3>7. RankIn(FinalOrder)[d] = q /\ RankIn(FinalOrder)[g] = r
      BY <1>2, <2>1, <3>6, RankOf
    <3>8. q \in (r + 1)..Len(plan)
      BY <3>4, <3>7, <2>1
    <3>9. plan[q] = Entry(d)
      BY <2>1, <3>6
    <3>10. Members(plan[q]) = Members(groups[d])
      BY <1>2, <2>2, <3>5, <3>9, EntryOf
    <3> QED BY <3>2, <2>4, <3>5, <3>8, <3>10
  <2> QED BY <2>5, <2>6, <2>7
<1>3. Known => FoundationFirst
  BY <1>1, <1>2 DEF FoundationFirst
<1> QED
  BY <1>3, EveryStateIsKnown, PTL

-----------------------------------------------------------------------------
(* The steps of the reading plan *)

Actions == {"read", "exemplars", "skip", "fold"}
StepRecords == [group : Nat, action : Actions]
StepsOn(g) == StepsFor(change, groups[g])

\* The steps of each tier.
LEMMA StepsOnIs ==
  ASSUME PlanInv, stage = "done", NEW g \in 1..Len(groups)
  PROVE  /\ g \in Nat /\ StepsOn(g) \in Seq(Actions)
         /\ groups[g].effort \in {"focus", "skim", "noise"}
         /\ groups[g].effort = "focus" => StepsOn(g) = <<"read">>
         /\ groups[g].effort = "noise" => StepsOn(g) = <<"fold">>
         /\ groups[g].effort = "skim" =>
              IF HunkCount(change, groups[g]) > Len(groups[g].class_ids)
              THEN StepsOn(g) = <<"exemplars", "skip">> ELSE StepsOn(g) = <<"exemplars">>
<1>1. groups[g] \in GroupSet(ClassIds(change)) /\ g \in Nat
  <2> DEFINE V == GroupSet(ClassIds(change))
  <2>1. groups \in Seq(V)
    BY DEF PlanInv, WellPlaced
  <2> HIDE DEF V
  <2>2. groups[g] \in V /\ g \in Nat
    BY <2>1
  <2> QED BY <2>2 DEF V
<1>2. groups[g].effort \in {"focus", "skim", "noise"}
  BY <1>1 DEF GroupSet
<1>3. CASE groups[g].effort = "focus"
  <2>1. StepsOn(g) = <<"read">>
    BY <1>3 DEF StepsOn, StepsFor
  <2> QED BY <1>1, <1>3, <2>1 DEF Actions
<1>4. CASE groups[g].effort = "noise"
  <2>1. StepsOn(g) = <<"fold">>
    BY <1>4 DEF StepsOn, StepsFor
  <2> QED BY <1>1, <1>4, <2>1 DEF Actions
<1>5. CASE groups[g].effort = "skim"
  <2>1. StepsOn(g) = IF HunkCount(change, groups[g]) > Len(groups[g].class_ids)
                     THEN <<"exemplars", "skip">> ELSE <<"exemplars">>
    BY <1>5 DEF StepsOn, StepsFor
  <2>2. <<"exemplars", "skip">> \in Seq(Actions) /\ <<"exemplars">> \in Seq(Actions)
    BY DEF Actions
  <2> QED BY <1>1, <1>5, <2>1, <2>2
<1> QED BY <1>2, <1>3, <1>4, <1>5

\* Those of one group as they stand in the reading plan.
StepsAt(g) == [k \in 1..Len(StepsOn(g)) |-> [group |-> g, action |-> StepsOn(g)[k]]]

\* The steps of a group are records of the reading plan.
LEMMA StepsAtType ==
  ASSUME PlanInv, stage = "done", NEW g \in 1..Len(groups)
  PROVE  StepsAt(g) \in Seq(StepRecords) /\ Len(StepsAt(g)) = Len(StepsOn(g))
<1>1. g \in Nat /\ StepsOn(g) \in Seq(Actions)
  BY StepsOnIs
<1> DEFINE s == StepsOn(g)
<1> HIDE DEF s
<1>2. Len(s) \in Nat /\ \A k \in 1..Len(s) : s[k] \in Actions
  BY <1>1 DEF s
<1>3. \A k \in 1..Len(s) : [group |-> g, action |-> s[k]] \in StepRecords
  BY <1>1, <1>2 DEF StepRecords
<1>4. [k \in 1..Len(s) |-> [group |-> g, action |-> s[k]]] \in Seq(StepRecords)
      /\ Len([k \in 1..Len(s) |-> [group |-> g, action |-> s[k]]]) = Len(s)
  BY <1>2, <1>3
<1> QED BY <1>4 DEF StepsAt, s

\* One sequence goes through another from its start to its end.
Along(t, s, c) ==
  /\ \A k \in 1..Len(t) : c[k] \in 1..Len(s) /\ t[k] = s[c[k]]
  /\ \A j \in 1..Len(s) : \E k \in 1..Len(t) : c[k] = j
  /\ \A k, l \in 1..Len(t) : k < l => c[k] < c[l]

\* What the finished plan takes for a group of what grouping planned are its steps.
LEMMA StepsOfGroup ==
  ASSUME PlanInv, stage = "done", NEW g \in 1..Len(groups)
  PROVE  /\ StepsOf(ReadingPlan(change, groups), g) \in Seq(StepRecords)
         /\ \E c : Along(StepsOf(ReadingPlan(change, groups), g), StepsAt(g), c)
<1> DEFINE n == Len(groups)
           seqs == [i \in DOMAIN groups |->
                      LET steps == StepsFor(change, groups[i])
                      IN  [k \in DOMAIN steps |-> [group |-> i, action |-> steps[k]]]]
           F == FlattenSeq(seqs)
           places == {p \in DOMAIN F : F[p].group = g}
           at == InOrder(places)
           t == Taken(F, places)
<1>1. n \in Nat /\ DOMAIN groups = 1..n
  BY DEF PlanInv, WellPlaced, Parts
<1>2. ASSUME NEW i \in 1..n PROVE seqs[i] = StepsAt(i)
  <2>1. StepsOn(i) \in Seq(Actions)
    BY StepsOnIs
  <2>2. DOMAIN StepsOn(i) = 1..Len(StepsOn(i))
    BY <2>1
  <2> QED BY <1>1, <2>2 DEF StepsAt, StepsOn
<1>3. /\ seqs \in Seq(Seq(StepRecords)) /\ Len(seqs) = n
  <2>1. \A i \in 1..n : seqs[i] \in Seq(StepRecords)
    <3> HIDE DEF seqs
    <3> QED BY <1>2, StepsAtType
  <2>2. DOMAIN seqs = 1..n
    BY <1>1
  <2>3. seqs = [i \in 1..n |-> seqs[i]]
    BY <1>1
  <2> HIDE DEF seqs, n
  <2> QED BY <2>1, <2>2, <2>3, <1>1
<1>4. F = ReadingPlan(change, groups)
  BY DEF ReadingPlan
<1> HIDE DEF seqs
<1>5. F \in Seq(StepRecords) /\ \E row, col : EndToEnd(F, row, col, seqs, Len(seqs))
  BY <1>3, FlattenLays
<1>6. PICK row, col : EndToEnd(F, row, col, seqs, n)
  BY <1>3, <1>5
<1> HIDE DEF F
<1>7. Len(F) \in Nat /\ DOMAIN F = 1..Len(F) /\ \A p \in 1..Len(F) : F[p] \in StepRecords
  BY <1>5
<1>8. ASSUME NEW p \in 1..Len(F)
      PROVE  /\ row[p] \in 1..n /\ col[p] \in 1..Len(StepsAt(row[p]))
             /\ F[p] = StepsAt(row[p])[col[p]] /\ F[p].group = row[p]
  <2>1. row[p] \in 1..n /\ col[p] \in 1..Len(seqs[row[p]]) /\ F[p] = seqs[row[p]][col[p]]
    BY <1>6 DEF EndToEnd
  <2>2. seqs[row[p]] = StepsAt(row[p]) /\ Len(StepsAt(row[p])) = Len(StepsOn(row[p]))
    BY <2>1, <1>2, StepsAtType
  <2> QED BY <2>1, <2>2 DEF StepsAt
<1>9. places \in SUBSET (1..Len(F)) /\ \A p \in 1..Len(F) : p \in places <=> row[p] = g
  BY <1>7, <1>8
<1> HIDE DEF places
<1>10. IsFiniteSet(places) /\ places \subseteq Nat
  BY <1>7, <1>9, FinitePlaces
<1>11. t \in Seq(StepRecords) /\ Selects(at, F, places, t)
  <2>1. \A p \in places : F[p] \in StepRecords
    BY <1>7, <1>9
  <2> QED BY <1>10, <2>1, TakenSelects
<1>12. t = StepsOf(F, g)
  BY DEF StepsOf, places
<1> HIDE DEF t, at
<1> DEFINE s == StepsAt(g)
           c == [k \in 1..Len(t) |-> col[at[k]]]
<1>13. Along(t, s, c)
  <2>1. ASSUME NEW k \in 1..Len(t)
        PROVE  /\ at[k] \in places /\ at[k] \in 1..Len(F) /\ row[at[k]] = g /\ t[k] = F[at[k]]
               /\ c[k] = col[at[k]] /\ c[k] \in 1..Len(s) /\ t[k] = s[c[k]]
    <3>1. at[k] \in places /\ t[k] = F[at[k]]
      BY <1>11 DEF Selects
    <3>2. at[k] \in 1..Len(F) /\ row[at[k]] = g
      BY <3>1, <1>9
    <3> QED BY <3>1, <3>2, <1>8
  <2>2. ASSUME NEW j \in 1..Len(s) PROVE \E k \in 1..Len(t) : c[k] = j
    <3>1. PICK p \in 1..Len(F) : row[p] = g /\ col[p] = j
      <4>1. Len(seqs[g]) = Len(s)
        BY <1>2
      <4> QED BY <4>1, <1>6 DEF EndToEnd
    <3>2. p \in places
      BY <3>1, <1>9
    <3>3. PICK k \in 1..Len(t) : at[k] = p
      BY <3>2, <1>11 DEF Selects
    <3> QED BY <3>1, <3>3, <2>1
  <2>3. ASSUME NEW k \in 1..Len(t), NEW l \in 1..Len(t), k < l PROVE c[k] < c[l]
    <3>1. at[k] < at[l]
      BY <2>3, <1>11 DEF Selects
    <3>2. row[at[k]] < row[at[l]] \/ (row[at[k]] = row[at[l]] /\ col[at[k]] < col[at[l]])
      BY <3>1, <2>1, <1>6 DEF EndToEnd
    <3>3. g \in Nat /\ row[at[k]] = g /\ row[at[l]] = g /\ ~(g < g)
      BY <2>1
    <3>4. col[at[k]] < col[at[l]]
      BY <3>2, <3>3
    <3> QED BY <3>4, <2>1
  <2> HIDE DEF c, s
  <2> QED BY <2>1, <2>2, <2>3 DEF Along
<1>14. \E d : Along(t, s, d)
  <2> HIDE DEF c
  <2> QED BY <1>13
<1> QED BY <1>4, <1>11, <1>12, <1>14

-----------------------------------------------------------------------------
\* The reading plan goes through the groups in their order, and through the steps
\* of each from its first to its last.
Reads(R, rank, step, n) ==
  /\ \A i \in 1..Len(R) :
        /\ rank[i] \in 1..n /\ step[i] \in 1..Len(StepsOn(FinalOrder[rank[i]]))
        /\ R[i] = [group |-> FinalOrder[rank[i]], action |-> StepsOn(FinalOrder[rank[i]])[step[i]]]
  /\ \A r \in 1..n : \A k \in 1..Len(StepsOn(FinalOrder[r])) :
        \E i \in 1..Len(R) : rank[i] = r /\ step[i] = k
  /\ \A i, j \in 1..Len(R) :
        i < j => rank[i] < rank[j] \/ (rank[i] = rank[j] /\ step[i] < step[j])

\* The reading plan of a run that is done goes through the groups in their order.
LEMMA ReadingReads ==
  ASSUME Known, stage = "done"
  PROVE  /\ reading \in Seq(StepRecords)
         /\ \E rank, step : Reads(reading, rank, step, Len(groups))
<1> DEFINE n == Len(groups)
           F == ReadingPlan(change, groups)
           seqs == [r \in DOMAIN FinalOrder |-> StepsOf(F, FinalOrder[r])]
           R == FlattenSeq(seqs)
           Path(r) == CHOOSE c : Along(seqs[r], StepsAt(FinalOrder[r]), c)
<1>1. Permutes(FinalOrder, n, Len0) /\ n \in Nat /\ PlanInv
  BY FinalOrderPermutes DEF Known
<1>2. R = reading
  BY DEF Known, PlanInv, Planned
<1>3. DOMAIN seqs = 1..n /\ \A r \in 1..n : seqs[r] = StepsOf(F, FinalOrder[r]) /\ FinalOrder[r] \in 1..n
  BY <1>1 DEF Permutes
<1> HIDE DEF F
<1>4. ASSUME NEW r \in 1..n
      PROVE  /\ seqs[r] \in Seq(StepRecords) /\ Along(seqs[r], StepsAt(FinalOrder[r]), Path(r))
             /\ Len(StepsAt(FinalOrder[r])) = Len(StepsOn(FinalOrder[r]))
  <2> DEFINE g == FinalOrder[r]
  <2>1. g \in 1..n /\ seqs[r] = StepsOf(F, g)
    BY <1>3
  <2> HIDE DEF g, seqs
  <2>2. StepsOf(F, g) \in Seq(StepRecords) /\ \E c : Along(StepsOf(F, g), StepsAt(g), c)
    BY <1>1, <2>1, StepsOfGroup DEF F
  <2>3. Len(StepsAt(g)) = Len(StepsOn(g))
    BY <1>1, <2>1, StepsAtType
  <2>4. \E c : Along(seqs[r], StepsAt(g), c)
    BY <2>1, <2>2
  <2>5. Along(seqs[r], StepsAt(g), CHOOSE c : Along(seqs[r], StepsAt(g), c))
    BY <2>4
  <2> QED BY <2>1, <2>2, <2>3, <2>5 DEF g
<1>5. seqs \in Seq(Seq(StepRecords)) /\ Len(seqs) = n
  <2>1. seqs = [r \in 1..n |-> seqs[r]]
    BY <1>3
  <2>2. \A r \in 1..n : seqs[r] \in Seq(StepRecords)
    BY <1>4
  <2> HIDE DEF seqs, n
  <2> QED BY <2>1, <2>2, <1>1, <1>3
<1> HIDE DEF seqs, Path
<1>6. R \in Seq(StepRecords) /\ \E row, col : EndToEnd(R, row, col, seqs, Len(seqs))
  BY <1>5, FlattenLays
<1>7. PICK row, col : EndToEnd(R, row, col, seqs, n)
  BY <1>5, <1>6
<1> HIDE DEF R, n
<1> DEFINE step == [i \in 1..Len(R) |-> Path(row[i])[col[i]]]
<1>8. ASSUME NEW i \in 1..Len(R)
      PROVE  /\ row[i] \in 1..n /\ col[i] \in 1..Len(seqs[row[i]]) /\ R[i] = seqs[row[i]][col[i]]
             /\ step[i] = Path(row[i])[col[i]]
             /\ step[i] \in 1..Len(StepsOn(FinalOrder[row[i]]))
             /\ R[i] = [group |-> FinalOrder[row[i]],
                        action |-> StepsOn(FinalOrder[row[i]])[step[i]]]
  <2>1. row[i] \in 1..n /\ col[i] \in 1..Len(seqs[row[i]]) /\ R[i] = seqs[row[i]][col[i]]
    BY <1>7 DEF EndToEnd
  <2> DEFINE g == FinalOrder[row[i]]
             p == Path(row[i])
  <2>2. Along(seqs[row[i]], StepsAt(g), p) /\ Len(StepsAt(g)) = Len(StepsOn(g))
    BY <2>1, <1>4
  <2> HIDE DEF g, p
  <2>3. p[col[i]] \in 1..Len(StepsOn(g)) /\ R[i] = StepsAt(g)[p[col[i]]]
    BY <2>1, <2>2 DEF Along
  <2>4. R[i] = [group |-> g, action |-> StepsOn(g)[p[col[i]]]]
    BY <2>3 DEF StepsAt
  <2>5. step[i] = p[col[i]]
    BY DEF p
  <2> QED BY <2>1, <2>3, <2>4, <2>5 DEF g, p
<1>9. ASSUME NEW r \in 1..n, NEW k \in 1..Len(StepsOn(FinalOrder[r]))
      PROVE  \E i \in 1..Len(R) : row[i] = r /\ step[i] = k
  <2>1. PICK m \in 1..Len(seqs[r]) : Path(r)[m] = k
    <3>1. Along(seqs[r], StepsAt(FinalOrder[r]), Path(r))
          /\ k \in 1..Len(StepsAt(FinalOrder[r]))
      BY <1>4
    <3> QED BY <3>1 DEF Along
  <2>2. PICK i \in 1..Len(R) : row[i] = r /\ col[i] = m
    BY <1>7 DEF EndToEnd
  <2> QED BY <2>1, <2>2, <1>8
<1>10. ASSUME NEW i \in 1..Len(R), NEW j \in 1..Len(R), i < j
       PROVE  row[i] < row[j] \/ (row[i] = row[j] /\ step[i] < step[j])
  <2>1. row[i] < row[j] \/ (row[i] = row[j] /\ col[i] < col[j])
    BY <1>7, <1>10 DEF EndToEnd
  <2>2. CASE row[i] = row[j] /\ col[i] < col[j]
    <3>1. Along(seqs[row[i]], StepsAt(FinalOrder[row[i]]), Path(row[i]))
      BY <1>4, <1>8
    <3>2. col[i] \in 1..Len(seqs[row[i]]) /\ col[j] \in 1..Len(seqs[row[i]])
      BY <2>2, <1>8
    <3>3. Path(row[i])[col[i]] < Path(row[i])[col[j]]
      BY <3>1, <3>2, <2>2 DEF Along
    <3> QED BY <3>3, <2>2, <1>8
  <2> QED BY <2>1, <2>2
<1>11. Reads(R, row, step, n)
  <2> HIDE DEF step
  <2> QED BY <1>8, <1>9, <1>10 DEF Reads
<1>12. \E rank, s : Reads(R, rank, s, n)
  <2> HIDE DEF step
  <2> QED BY <1>11
<1> QED BY <1>2, <1>6, <1>12 DEF n

-----------------------------------------------------------------------------
(* Every hunk in one step *)

\* The exemplar of a class.
Lead(c) == CHOOSE h \in change.hunks[c] : \A k \in change.hunks[c] : h <= k

\* The exemplar of a class is one of its hunks.
LEMMA LeadIsAHunk ==
  ASSUME change \in Changes, NEW c \in ClassIds(change)
  PROVE  Lead(c) \in change.hunks[c]
<1>1. change.hunks[c] # {} /\ change.hunks[c] \subseteq Nat
  BY ChangesAreChanges DEF IsChange, IsPartition
<1>2. \E h \in change.hunks[c] : \A k \in change.hunks[c] : h <= k
  BY <1>1, LeastNat
<1> QED BY <1>2 DEF Lead

\* A hunk is of one class.
LEMMA OneClass ==
  ASSUME change \in Changes, NEW c \in ClassIds(change), NEW d \in ClassIds(change),
         NEW h, h \in change.hunks[c], h \in change.hunks[d]
  PROVE  c = d
<1>1. \A a, b \in ClassIds(change) : a # b => change.hunks[a] \cap change.hunks[b] = {}
  BY ChangesAreChanges DEF IsChange, IsPartition
<1> QED BY <1>1

\* A group has one exemplar to a class, so that one with no more hunks than
\* classes has no others.
LEMMA ExemplarsOf ==
  ASSUME PlanInv, stage = "done", NEW g \in 1..Len(groups)
  PROVE  /\ Exemplars(groups[g]) \subseteq HunksIn(change, groups[g])
         /\ ~(HunkCount(change, groups[g]) > Len(groups[g].class_ids)) =>
                HunksIn(change, groups[g]) = Exemplars(groups[g])
<1> DEFINE M == Members(groups[g])
           ids == groups[g].class_ids
           All == HunksIn(change, groups[g])
           Ex == Exemplars(groups[g])
           f == [c \in M |-> Lead(c)]
<1>1. change \in Changes /\ Parts(groups, ClassIds(change))
  BY DEF PlanInv, WellPlaced
<1>2. ids \in Seq(ClassIds(change)) /\ Once(ids) /\ M = ToSet(ids)
  <2>1. ids \in Seq(ClassIds(change))
    BY <1>1 DEF Parts
  <2>2. ASSUME NEW i \in 1..Len(ids), NEW j \in 1..Len(ids), ids[i] = ids[j] PROVE i = j
    <3>1. At(groups, g, i, ids[i]) /\ At(groups, g, j, ids[i])
      BY <2>2 DEF At
    <3> HIDE DEF ids
    <3> QED BY <3>1, <1>1 DEF Parts
  <2> QED BY <2>1, <2>2 DEF Once, Members
<1>3. M \subseteq ClassIds(change)
  BY <1>1, MembersAre DEF Parts
<1>4. Ex = {Lead(c) : c \in M}
  BY DEF Exemplars, Lead
<1>5. \A x : x \in All <=> \E c \in M : x \in change.hunks[c]
  BY DEF HunksIn
<1>6. \A c \in M : Lead(c) \in change.hunks[c]
  BY <1>1, <1>3, LeadIsAHunk
<1>7. Ex \in SUBSET All
  BY <1>4, <1>5, <1>6
<1>8. IsFiniteSet(M) /\ Cardinality(M) = Len(ids) /\ Len(ids) \in Nat
  <2> HIDE DEF ids, M
  <2> QED BY <1>2, CountedOnce
<1>9. f \in Bijection(M, Ex)
  <2>1. f \in [M -> Ex] /\ \A x \in Ex : \E c \in M : f[c] = x
    BY <1>4
  <2>2. ASSUME NEW c \in M, NEW d \in M, f[c] = f[d] PROVE c = d
    <3>1. Lead(c) \in change.hunks[c] /\ Lead(c) \in change.hunks[d]
      BY <2>2, <1>6
    <3>2. c \in ClassIds(change) /\ d \in ClassIds(change)
      BY <1>3
    <3> QED BY <3>1, <3>2, <1>1, OneClass
  <2> HIDE DEF f, M, Ex
  <2> QED BY <2>1, <2>2 DEF Bijection, Injection, Surjection, IsInjective
<1>10. IsFiniteSet(Ex) /\ Cardinality(Ex) = Len(ids)
  <2>1. ExistsBijection(M, Ex)
    BY <1>9 DEF ExistsBijection
  <2> HIDE DEF M, Ex
  <2> QED BY <2>1, <1>8, FS_Bijection
<1>11. IsFiniteSet(All) /\ Cardinality(All) \in Nat
  <2>1. IsFiniteSet(All)
    BY <1>1, <1>3, HunkCountBound
  <2> QED BY <2>1, FS_CardinalityType
<1>12. ASSUME ~(Cardinality(All) > Len(ids)) PROVE All = Ex
  <2> HIDE DEF All, Ex
  <2>1. Cardinality(Ex) <= Cardinality(All) /\ (Cardinality(All) = Cardinality(Ex) => All = Ex)
    BY <1>7, <1>11, FS_Subset
  <2>2. Cardinality(All) = Len(ids)
    BY <2>1, <1>8, <1>10, <1>11, <1>12
  <2> QED BY <2>1, <2>2, <1>10
<1> QED BY <1>7, <1>12 DEF HunkCount

\* A step is about hunks of its group, and of the steps of a group one is about each.
StepFor(g, k) == [group |-> g, action |-> StepsOn(g)[k]]
\* Each hunk of a group is the subject of exactly one of its steps.
LEMMA OneStepOfTheGroup ==
  ASSUME PlanInv, stage = "done", NEW g \in 1..Len(groups)
  PROVE  /\ \A k \in 1..Len(StepsOn(g)) : StepHunks(StepFor(g, k)) \subseteq HunksIn(change, groups[g])
         /\ \A h \in HunksIn(change, groups[g]) : \E k \in 1..Len(StepsOn(g)) :
               \A l \in 1..Len(StepsOn(g)) : h \in StepHunks(StepFor(g, l)) <=> l = k
<1> DEFINE All == HunksIn(change, groups[g])
           Ex == Exemplars(groups[g])
           s == StepsOn(g)
<1>1. \A k : StepFor(g, k).group = g /\ StepFor(g, k).action = s[k]
  BY DEF StepFor
<1>2. ASSUME NEW k
      PROVE  /\ s[k] = "exemplars" => StepHunks(StepFor(g, k)) = Ex
             /\ s[k] = "skip" => StepHunks(StepFor(g, k)) = All \ Ex
             /\ s[k] = "read" => StepHunks(StepFor(g, k)) = All
             /\ s[k] = "fold" => StepHunks(StepFor(g, k)) = All
  <2>1. /\ StepFor(g, k).action = "exemplars" => StepHunks(StepFor(g, k)) = Ex
        /\ StepFor(g, k).action = "skip" => StepHunks(StepFor(g, k)) = All \ Ex
        /\ StepFor(g, k).action = "read" => StepHunks(StepFor(g, k)) = All
        /\ StepFor(g, k).action = "fold" => StepHunks(StepFor(g, k)) = All
    BY <1>1 DEF StepHunks
  <2> QED BY <2>1, <1>1
<1>3. /\ Ex \subseteq All
      /\ ~(HunkCount(change, groups[g]) > Len(groups[g].class_ids)) => All = Ex
  BY ExemplarsOf
<1>4. /\ groups[g].effort \in {"focus", "skim", "noise"}
      /\ groups[g].effort = "focus" => s = <<"read">>
      /\ groups[g].effort = "noise" => s = <<"fold">>
      /\ groups[g].effort = "skim" =>
              IF HunkCount(change, groups[g]) > Len(groups[g].class_ids)
              THEN s = <<"exemplars", "skip">> ELSE s = <<"exemplars">>
  BY StepsOnIs
<1> HIDE DEF All, Ex, s
<1> DEFINE Single(a) == s = <<a>>
           Good == /\ \A k \in 1..Len(s) : StepHunks(StepFor(g, k)) \subseteq All
                   /\ \A h \in All : \E k \in 1..Len(s) :
                         \A l \in 1..Len(s) : h \in StepHunks(StepFor(g, l)) <=> l = k
<1>5. ASSUME Len(s) = 1, StepHunks(StepFor(g, 1)) = All PROVE Good
  <2>1. \A k : k \in 1..1 <=> k = 1
    OBVIOUS
  <2> QED BY <1>5, <2>1
<1>6. CASE groups[g].effort \in {"focus", "noise"}
  <2>1. Len(s) = 1 /\ s[1] \in {"read", "fold"}
    BY <1>4, <1>6
  <2> HIDE DEF Good
  <2> QED BY <2>1, <1>2, <1>5 DEF Good, All, s
<1>7. CASE groups[g].effort = "skim" /\ ~(HunkCount(change, groups[g]) > Len(groups[g].class_ids))
  <2>1. Len(s) = 1 /\ s[1] = "exemplars"
    BY <1>4, <1>7
  <2>2. StepHunks(StepFor(g, 1)) = All
    BY <2>1, <1>2, <1>3, <1>7
  <2> HIDE DEF Good
  <2> QED BY <2>1, <2>2, <1>5 DEF Good, All, s
<1>8. CASE groups[g].effort = "skim" /\ HunkCount(change, groups[g]) > Len(groups[g].class_ids)
  <2>1. Len(s) = 2 /\ s[1] = "exemplars" /\ s[2] = "skip"
    BY <1>4, <1>8
  <2>2. StepHunks(StepFor(g, 1)) = Ex /\ StepHunks(StepFor(g, 2)) = All \ Ex
    BY <2>1, <1>2
  <2>3. \A k : k \in 1..2 <=> k = 1 \/ k = 2
    OBVIOUS
  <2>4. \A k \in 1..Len(s) : StepHunks(StepFor(g, k)) \subseteq All
    BY <2>1, <2>2, <2>3, <1>3
  <2>5. ASSUME NEW h \in All
        PROVE  \E k \in 1..Len(s) :
                   \A l \in 1..Len(s) : h \in StepHunks(StepFor(g, l)) <=> l = k
    <3>1. CASE h \in Ex
      <4>1. h \in StepHunks(StepFor(g, 1)) /\ h \notin StepHunks(StepFor(g, 2))
        BY <3>1, <2>2
      <4>2. \A l \in 1..2 : h \in StepHunks(StepFor(g, l)) <=> l = 1
        BY <4>1, <2>3
      <4> QED BY <4>2, <2>1
    <3>2. CASE h \notin Ex
      <4>1. h \notin StepHunks(StepFor(g, 1)) /\ h \in StepHunks(StepFor(g, 2))
        BY <3>2, <2>2, <2>5
      <4>2. \A l \in 1..2 : h \in StepHunks(StepFor(g, l)) <=> l = 2
        BY <4>1, <2>3
      <4> QED BY <4>2, <2>1
    <3> QED BY <3>1, <3>2
  <2> QED BY <2>4, <2>5 DEF All, s
<1> QED BY <1>4, <1>6, <1>7, <1>8

-----------------------------------------------------------------------------
\* Whatever the model answers, each hunk of the change is the subject of exactly
\* one step of the reading plan, and the steps come in the order of the groups
\* (grouping/mod.rs, plan/tiers.rs).
THEOREM EachHunkIsReadOnce == Spec => []EveryHunkHasAStep
<1>1. ASSUME Known, stage = "done"
      PROVE  /\ \A c \in ClassIds(change) : \A h \in change.hunks[c] :
                  Cardinality({i \in DOMAIN reading : h \in StepHunks(reading[i])}) = 1
             /\ \A i, j \in DOMAIN reading : i < j =>
                  \E r, q \in DOMAIN plan :
                      r <= q /\ plan[r].id = reading[i].group /\ plan[q].id = reading[j].group
  <2> DEFINE n == Len(groups)
  <2>1. PlanInv /\ change \in Changes /\ n \in Nat
        /\ Parts(groups, ClassIds(change)) /\ Held(groups) = ClassIds(change)
    BY <1>1 DEF Known, PlanInv, WellPlaced, Parts
  <2>2. Permutes(FinalOrder, n, Len0) /\ DOMAIN plan = 1..n
        /\ \A r \in 1..n : plan[r] = Entry(FinalOrder[r])
    BY <1>1, FinalOrderPermutes, PlaceInPlan
  <2>3. reading \in Seq(StepRecords) /\ \E rank, step : Reads(reading, rank, step, Len(groups))
    BY <1>1, ReadingReads
  <2>4. PICK rank, step : Reads(reading, rank, step, n)
    BY <2>3
  <2>5. DOMAIN reading = 1..Len(reading) /\ Len(reading) \in Nat
    BY <2>3
  <2>6. ASSUME NEW i \in DOMAIN reading
        PROVE  /\ rank[i] \in 1..n /\ FinalOrder[rank[i]] \in 1..n
               /\ step[i] \in 1..Len(StepsOn(FinalOrder[rank[i]]))
               /\ reading[i] = StepFor(FinalOrder[rank[i]], step[i])
               /\ reading[i].group = FinalOrder[rank[i]]
    <3>1. /\ rank[i] \in 1..n /\ step[i] \in 1..Len(StepsOn(FinalOrder[rank[i]]))
          /\ reading[i] = StepFor(FinalOrder[rank[i]], step[i])
      BY <2>4, <2>5 DEF Reads, StepFor
    <3>2. reading[i].group = FinalOrder[rank[i]]
      BY <3>1 DEF StepFor
    <3> QED BY <3>1, <3>2, <2>2 DEF Permutes
  <2>7. ASSUME NEW c \in ClassIds(change), NEW h \in change.hunks[c]
        PROVE  Cardinality({i \in DOMAIN reading : h \in StepHunks(reading[i])}) = 1
    <3>1. PICK g \in 1..n : c \in Members(groups[g])
      BY <2>1 DEF Held
    <3>2. h \in HunksIn(change, groups[g])
      BY <3>1 DEF HunksIn
    <3>3. PICK k \in 1..Len(StepsOn(g)) :
            \A l \in 1..Len(StepsOn(g)) : h \in StepHunks(StepFor(g, l)) <=> l = k
      BY <1>1, <2>1, <3>2, OneStepOfTheGroup
    <3>4. PICK r \in 1..n : FinalOrder[r] = g
      BY <2>2 DEF Permutes
    <3>5. PICK i \in 1..Len(reading) : rank[i] = r /\ step[i] = k
      BY <2>4, <3>3, <3>4 DEF Reads
    <3>6. h \in StepHunks(reading[i]) /\ i \in DOMAIN reading
      BY <2>5, <2>6, <3>3, <3>4, <3>5
    <3>7. ASSUME NEW j \in DOMAIN reading, h \in StepHunks(reading[j]) PROVE j = i
      <4>1. FinalOrder[rank[j]] = g
        <5> DEFINE f == FinalOrder[rank[j]]
        <5>1. f \in 1..n /\ h \in StepHunks(StepFor(f, step[j])) /\ step[j] \in 1..Len(StepsOn(f))
          BY <2>6, <3>7
        <5> HIDE DEF f
        <5>2. h \in HunksIn(change, groups[f])
          BY <1>1, <2>1, <5>1, OneStepOfTheGroup
        <5>3. PICK d \in Members(groups[f]) : h \in change.hunks[d]
          BY <5>2 DEF HunksIn
        <5>4. d \in ClassIds(change)
          BY <5>1, <5>3, <2>1 DEF Held
        <5>5. d = c
          BY <5>3, <5>4, <2>1, <2>7, OneClass
        <5>6. \E a : At(groups, g, a, c)
          BY <2>1, <3>1, HeldSomewhere
        <5>7. \E a : At(groups, f, a, c)
          BY <2>1, <5>1, <5>3, <5>5, HeldSomewhere
        <5>8. f = g
          BY <2>1, <5>6, <5>7 DEF Parts
        <5> QED BY <5>8 DEF f
      <4>2. rank[j] = r
        <5>1. rank[j] \in 1..n
          BY <2>6
        <5>2. \A p, q \in 1..n : FinalOrder[p] = FinalOrder[q] => p = q
          BY <2>2 DEF Permutes
        <5> HIDE DEF n
        <5> QED BY <4>1, <5>1, <5>2, <3>4
      <4>3. step[j] = k
        BY <4>1, <2>6, <3>3, <3>7
      <4>4. r \in Int /\ k \in Int /\ i \in Int /\ j \in Int /\ i \in 1..Len(reading) /\ j \in 1..Len(reading)
        BY <2>5
      <4>5. ~(i < j) /\ ~(j < i)
        <5>1. ~(r < r) /\ ~(k < k)
          BY <4>4
        <5> QED BY <2>4, <3>5, <4>2, <4>3, <4>4, <5>1 DEF Reads
      <4> QED BY <4>4, <4>5
    <3>8. {m \in DOMAIN reading : h \in StepHunks(reading[m])} = {i}
      BY <3>6, <3>7
    <3> QED BY <3>8, FS_Singleton
  <2>8. ASSUME NEW i \in DOMAIN reading, NEW j \in DOMAIN reading, i < j
        PROVE  \E r, q \in DOMAIN plan :
                  r <= q /\ plan[r].id = reading[i].group /\ plan[q].id = reading[j].group
    <3>1. rank[i] < rank[j] \/ rank[i] = rank[j]
      BY <2>4, <2>5, <2>8 DEF Reads
    <3>2. rank[i] \in 1..n /\ rank[j] \in 1..n /\ rank[i] <= rank[j]
      <4>1. rank[i] \in 1..n /\ rank[j] \in 1..n
        BY <2>6
      <4> QED BY <4>1, <3>1
    <3>3. \A g : Entry(g).id = g
      BY DEF Entry
    <3>4. plan[rank[i]].id = reading[i].group /\ plan[rank[j]].id = reading[j].group
      BY <2>2, <2>6, <3>2, <3>3
    <3> QED BY <3>2, <3>4, <2>2
  <2> QED BY <2>7, <2>8
<1>2. Known => EveryHunkHasAStep
  BY <1>1 DEF EveryHunkHasAStep
<1> QED
  BY <1>2, EveryStateIsKnown, PTL

=============================================================================
