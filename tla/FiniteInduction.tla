--------------------------- MODULE FiniteInduction ---------------------------
(***************************************************************************)
(* Induction over a finite interval, said of sets instead of operators so  *)
(* that a lemma can be cited wherever a recursive function of a model has  *)
(* to be reasoned about: what a pass over a sequence or a history yields,  *)
(* and with it what sorting, filtering and flattening do.                  *)
(***************************************************************************)
EXTENDS Sorting, Integers, SequencesExt, FiniteSetTheorems, SequenceTheorems, WellFoundedInduction, TLAPS

\* A non-empty set of naturals has a least element.
LEMMA LeastNat ==
  ASSUME NEW T, T \subseteq Nat, T # {}
  PROVE  \E x \in T : \A y \in T : x <= y
<1>1. IsWellFoundedOn(OpToRel(<, Nat), Nat)
  BY NatLessThanWellFounded
<1>2. PICK x \in T : \A y \in T : ~ (<<y, x>> \in OpToRel(<, Nat))
  BY <1>1, WFMin
<1>3. \A y \in T : ~(y < x)
  BY <1>2 DEF OpToRel
<1> QED
  BY <1>3

\* What the least member of a set is, and the least and the greatest of two numbers.
LEMMA MinIsLeast ==
  ASSUME NEW S, S \subseteq Nat, S # {}
  PROVE  Min(S) \in S /\ \A x \in S : Min(S) <= x
  BY LeastNat DEF Min

LEMMA MinOfTwo ==
  ASSUME NEW a \in Int, NEW b \in Int
  PROVE  Min({a, b}) = IF a <= b THEN a ELSE b
  BY DEF Min

LEMMA MaxOfTwo ==
  ASSUME NEW a \in Int, NEW b \in Int
  PROVE  Max({a, b}) = IF a >= b THEN a ELSE b
  BY DEF Max

\* What holds at 0 and is passed on by each step holds up to the bound.
LEMMA ByInduction ==
  ASSUME NEW N \in Nat, NEW T, 0 \in T, \A n \in 0..(N - 1) : n \in T => n + 1 \in T
  PROVE  \A n \in 0..N : n \in T
<1> DEFINE Bad == {n \in 0..N : n \notin T}
<1> SUFFICES ASSUME Bad # {} PROVE FALSE
  OBVIOUS
<1>1. PICK n \in Bad : \A m \in Bad : n <= m
  <2>1. Bad \subseteq Nat
    OBVIOUS
  <2> HIDE DEF Bad
  <2> QED BY <2>1, LeastNat
<1>2. n \in 0..N /\ n \notin T /\ n # 0
  BY <1>1
<1>3. n - 1 \in 0..(N - 1) /\ ~(n <= n - 1) /\ (n - 1) + 1 = n
  BY <1>2
<1>4. n - 1 \in T
  BY <1>1, <1>3
<1> QED
  BY <1>2, <1>3, <1>4

\* A function defined by what it is at 0 and by each value from the one before exists.
Steps(V) == [Nat -> [V -> V]]
IsPass(f, N, V, a, G) ==
  f \in [0..N -> V] /\ f[0] = a /\ \A n \in 1..N : f[n] = G[n][f[n - 1]]
LEMMA Recursion ==
  ASSUME NEW N \in Nat, NEW V, NEW a \in V, NEW G \in Steps(V)
  PROVE  \E f : IsPass(f, N, V, a, G)
<1> USE DEF Steps, IsPass
<1> DEFINE Upto(n) == \E f \in [0..n -> V] : f[0] = a /\ \A m \in 1..n : f[m] = G[m][f[m - 1]]
           T == {n \in 0..N : Upto(n)}
<1>1. 0 \in T
  <2> DEFINE f == [m \in 0..0 |-> a]
  <2>1. f \in [0..0 -> V] /\ f[0] = a /\ \A m \in 1..0 : f[m] = G[m][f[m - 1]]
    OBVIOUS
  <2>2. Upto(0)
    <3> HIDE DEF f
    <3> QED BY <2>1
  <2> QED BY <2>2
<1>2. ASSUME NEW n \in 0..(N - 1), n \in T PROVE n + 1 \in T
  <2>1. PICK g \in [0..n -> V] : g[0] = a /\ \A m \in 1..n : g[m] = G[m][g[m - 1]]
    BY <1>2
  <2> DEFINE f == [m \in 0..(n + 1) |-> IF m = n + 1 THEN G[n + 1][g[n]] ELSE g[m]]
  <2>2. \A m \in 0..n : f[m] = g[m] /\ g[m] \in V
    OBVIOUS
  <2>3. f[n + 1] = G[n + 1][g[n]] /\ f[n + 1] \in V
    BY <2>2
  <2>4. f \in [0..(n + 1) -> V]
    <3>1. \A m \in 0..(n + 1) : f[m] \in V
      <4>1. \A m \in 0..(n + 1) : m = n + 1 \/ m \in 0..n
        OBVIOUS
      <4> HIDE DEF f
      <4> QED BY <4>1, <2>2, <2>3
    <3>2. f = [m \in 0..(n + 1) |-> f[m]]
      OBVIOUS
    <3> HIDE DEF f
    <3> QED BY <3>1, <3>2
  <2>5. ASSUME NEW m \in 1..(n + 1) PROVE f[m] = G[m][f[m - 1]]
    <3>1. m = n + 1 \/ (m \in 1..n /\ m \in 0..n /\ m - 1 \in 0..n)
      OBVIOUS
    <3>2. n \in 0..n /\ (n + 1) - 1 = n
      OBVIOUS
    <3> HIDE DEF f
    <3> QED BY <2>1, <2>2, <2>3, <3>1, <3>2
  <2>6. Upto(n + 1)
    <3>1. f[0] = a
      BY <2>1, <2>2
    <3> HIDE DEF f
    <3> QED BY <2>4, <2>5, <3>1
  <2> QED BY <2>6
<1>3. \A n \in 0..N : n \in T
  <2> HIDE DEF T
  <2> QED BY <1>1, <1>2, ByInduction
<1> QED
  BY <1>3

----------------------------------------------------------------------------
(* Sets in order *)

\* A relation that puts the members of a set in one order.
Orders(before, S) ==
  /\ \A x \in S : <<x, x>> \notin before
  /\ \A x, y \in S : x # y => (<<x, y>> \in before \/ <<y, x>> \in before)
  /\ \A x, y, z \in S : <<x, y>> \in before /\ <<y, z>> \in before => <<x, z>> \in before

\* A sequence that names each member of a set once, in that order.
Names(at, S, before) ==
  /\ Cardinality(S) \in Nat /\ DOMAIN at = 1..Cardinality(S)
  /\ \A k \in DOMAIN at : at[k] \in S
  /\ \A x \in S : \E k \in DOMAIN at : at[k] = x
  /\ \A k, l \in DOMAIN at : k < l => <<at[k], at[l]>> \in before

\* Ranking a finite set by an order names each member once, in that order.
LEMMA RankedNamesEach ==
  ASSUME NEW S, IsFiniteSet(S), NEW before, Orders(before, S)
  PROVE  Names(Ranked(S, before), S, before)
<1> DEFINE n == Cardinality(S)
           Ahead(x) == {y \in S : <<y, x>> \in before}
           rank == [x \in S |-> Cardinality(Ahead(x)) + 1]
           at == Ranked(S, before)
<1>1. n \in Nat
  BY FS_CardinalityType
<1>2. ASSUME NEW x \in S
      PROVE  IsFiniteSet(Ahead(x)) /\ Cardinality(Ahead(x)) \in 0..(n - 1)
  <2>1. Ahead(x) \in SUBSET (S \ {x})
    BY DEF Orders
  <2>2. IsFiniteSet(S \ {x}) /\ Cardinality(S \ {x}) = n - 1
    BY FS_RemoveElement
  <2> HIDE DEF Ahead, n
  <2>3. IsFiniteSet(Ahead(x)) /\ Cardinality(Ahead(x)) <= n - 1
    BY <2>1, <2>2, FS_Subset
  <2> QED
    BY <2>3, <1>1, FS_CardinalityType
<1>3. ASSUME NEW x \in S, NEW y \in S, <<x, y>> \in before
      PROVE  Cardinality(Ahead(x)) < Cardinality(Ahead(y))
  <2>1. Ahead(x) \in SUBSET Ahead(y) /\ x \in Ahead(y) /\ x \notin Ahead(x)
    BY <1>3 DEF Orders
  <2> HIDE DEF Ahead, n
  <2>2. Cardinality(Ahead(x)) <= Cardinality(Ahead(y)) /\ Cardinality(Ahead(x)) # Cardinality(Ahead(y))
    BY <2>1, <1>2, FS_Subset
  <2> QED
    BY <2>2, <1>1, <1>2
<1>4. rank \in Injection(S, 1..n)
  <2>1. rank \in [S -> 1..n]
    <3> HIDE DEF Ahead, n
    <3> QED BY <1>1, <1>2
  <2>2. ASSUME NEW x \in S, NEW y \in S, rank[x] = rank[y] PROVE x = y
    <3>1. Cardinality(Ahead(x)) \in Int /\ Cardinality(Ahead(y)) \in Int
      <4> HIDE DEF Ahead, n
      <4> QED BY <1>1, <1>2
    <3>2. Cardinality(Ahead(x)) = Cardinality(Ahead(y))
      <4> HIDE DEF Ahead
      <4> QED BY <2>2, <3>1
    <3>3. ~(<<x, y>> \in before) /\ ~(<<y, x>> \in before)
      <4> HIDE DEF Ahead, rank
      <4> QED BY <3>1, <3>2, <1>3
    <3> HIDE DEF Ahead, rank, n
    <3> QED BY <3>3 DEF Orders
  <2> HIDE DEF rank
  <2> QED BY <2>1, <2>2 DEF Injection, IsInjective
<1>5. rank \in Surjection(S, 1..n)
  <2>1. 1 \in Int /\ n \in Int /\ (IF 1 > n THEN 0 ELSE n - 1 + 1) = n
    BY <1>1
  <2>2. IsFiniteSet(1..n) /\ Cardinality(1..n) = n
    BY <2>1, FS_Interval
  <2> HIDE DEF rank
  <2> QED BY <1>4, <2>2, FS_Injection
<1>6. DOMAIN at = 1..n
  BY DEF Ranked
<1>7. ASSUME NEW k \in 1..n PROVE at[k] \in S /\ rank[at[k]] = k
  <2>1. PICK x \in S : rank[x] = k
    BY <1>5 DEF Surjection
  <2>2. Cardinality(Ahead(x)) = k - 1
    <3> HIDE DEF Ahead, n
    <3> QED BY <2>1, <1>2, <1>1
  <2>3. at[k] = CHOOSE y \in S : Cardinality(Ahead(y)) = k - 1
    BY DEF Ranked
  <2> HIDE DEF Ahead, at
  <2>4. at[k] \in S /\ Cardinality(Ahead(at[k])) = k - 1
    BY <2>2, <2>3
  <2> QED BY <2>4, <1>1
<1>8. ASSUME NEW x \in S PROVE \E k \in 1..n : at[k] = x
  <2>1. rank[x] \in 1..n
    BY <1>4 DEF Injection
  <2>2. rank[at[rank[x]]] = rank[x] /\ at[rank[x]] \in S
    <3> HIDE DEF rank, at
    <3> QED BY <2>1, <1>7
  <2>3. at[rank[x]] = x
    <3> HIDE DEF rank, at
    <3> QED BY <2>2, <1>4 DEF Injection, IsInjective
  <2> HIDE DEF rank, at
  <2> QED BY <2>1, <2>3
<1>9. ASSUME NEW k \in 1..n, NEW l \in 1..n, k < l PROVE <<at[k], at[l]>> \in before
  <2>1. at[k] \in S /\ at[l] \in S /\ rank[at[k]] = k /\ rank[at[l]] = l
    BY <1>7
  <2>2. at[k] # at[l]
    BY <2>1, <1>9, <1>1
  <2>3. SUFFICES ASSUME <<at[l], at[k]>> \in before PROVE FALSE
    BY <2>1, <2>2 DEF Orders
  <2>4. Cardinality(Ahead(at[l])) < Cardinality(Ahead(at[k]))
    <3> HIDE DEF Ahead, at, rank
    <3> QED BY <2>1, <2>3, <1>3
  <2>5. Cardinality(Ahead(at[l])) \in Int /\ Cardinality(Ahead(at[k])) \in Int
    <3> HIDE DEF Ahead, at, rank
    <3> QED BY <2>1, <1>1, <1>2
  <2>6. rank[at[l]] < rank[at[k]]
    <3> HIDE DEF Ahead, at
    <3> QED BY <2>1, <2>4, <2>5
  <2> QED BY <2>6, <2>1, <1>9, <1>1
<1> HIDE DEF at, n
<1>10. Names(at, S, before)
  BY <1>1, <1>6, <1>7, <1>8, <1>9 DEF Names, n
<1> QED BY <1>10 DEF at

\* A ranking is a function on as many places as the set has members.
LEMMA RankedIsAFunction ==
  ASSUME NEW S, NEW before
  PROVE  Ranked(S, before) = [k \in 1..Cardinality(S) |-> Ranked(S, before)[k]]
<1> DEFINE e(k) == CHOOSE x \in S : Cardinality({y \in S : <<y, x>> \in before}) = k - 1
<1>1. Ranked(S, before) = [k \in 1..Cardinality(S) |-> e(k)]
  BY DEF Ranked
<1> HIDE DEF e
<1> QED BY <1>1

----------------------------------------------------------------------------
(* Numbers in order, and what a sequence holds at them *)

\* The places of a set of naturals, rising.
Rises(at, S) ==
  /\ Cardinality(S) \in Nat /\ DOMAIN at = 1..Cardinality(S)
  /\ \A k \in DOMAIN at : at[k] \in S
  /\ \A x \in S : \E k \in DOMAIN at : at[k] = x
  /\ \A k, l \in DOMAIN at : k < l => at[k] < at[l]

\* Numbers put in order rise, and each of them is there.
LEMMA InOrderRises ==
  ASSUME NEW S, S \subseteq Nat, IsFiniteSet(S)
  PROVE  Rises(InOrder(S), S)
<1> DEFINE before == {p \in S \X S : p[1] < p[2]}
<1>1. \A x, y \in S : <<x, y>> \in before <=> x < y
  OBVIOUS
<1> HIDE DEF before
<1>2. Orders(before, S)
  BY <1>1 DEF Orders
<1>3. Names(Ranked(S, before), S, before)
  BY <1>2, RankedNamesEach
<1>4. InOrder(S) = Ranked(S, before)
  BY DEF InOrder, before
<1> QED
  BY <1>1, <1>3, <1>4 DEF Names, Rises

\* No place is named twice.
LEMMA RisesOnce ==
  ASSUME NEW S, S \subseteq Nat, NEW at, Rises(at, S),
         NEW k \in DOMAIN at, NEW l \in DOMAIN at, at[k] = at[l]
  PROVE  k = l
<1>1. k \in Int /\ l \in Int /\ at[k] \in Int /\ at[l] \in Int
  <2>1. DOMAIN at = 1..Cardinality(S) /\ \A i \in DOMAIN at : at[i] \in S
    BY DEF Rises
  <2>2. Cardinality(S) \in Int
    BY DEF Rises
  <2>3. k \in 1..Cardinality(S) /\ l \in 1..Cardinality(S) /\ at[k] \in S /\ at[l] \in S
    BY <2>1
  <2>4. k \in Int /\ l \in Int
    <3> HIDE DEF Rises
    <3> DEFINE m == Cardinality(S)
    <3>1. m \in Int /\ k \in 1..m /\ l \in 1..m
      BY <2>2, <2>3
    <3> HIDE DEF m
    <3> QED BY <3>1
  <2>0. \A v \in S : v \in Int
    OBVIOUS
  <2>5. at[k] \in Int /\ at[l] \in Int
    BY <2>0, <2>3
  <2> QED BY <2>4, <2>5
<1> QED
  BY <1>1 DEF Rises

\* Some places of a bounded range are finitely many numbers.
LEMMA FinitePlaces ==
  ASSUME NEW N \in Nat, NEW places \in SUBSET (1..N)
  PROVE  IsFiniteSet(places) /\ places \subseteq Nat
<1>1. 1 \in Int /\ N \in Int
  OBVIOUS
<1>2. IsFiniteSet(1..N)
  BY <1>1, FS_Interval
<1>3. IsFiniteSet(places)
  BY <1>2, FS_Subset
<1> QED BY <1>3

\* What a sequence holds at some places is taken from it in its order.
Selects(at, s, places, t) ==
  /\ Len(t) \in Nat /\ DOMAIN t = 1..Len(t)
  /\ \A k \in 1..Len(t) : at[k] \in places /\ t[k] = s[at[k]]
  /\ \A i \in places : \E k \in 1..Len(t) : at[k] = i
  /\ \A k, l \in 1..Len(t) : k < l => at[k] < at[l]
  /\ \A k, l \in 1..Len(t) : at[k] = at[l] => k = l

\* What is taken from a sequence at some places keeps their order and leaves none out.
LEMMA TakenSelects ==
  ASSUME NEW s, NEW places, IsFiniteSet(places), places \subseteq Nat, NEW V,
         \A i \in places : s[i] \in V
  PROVE  /\ Taken(s, places) \in Seq(V)
         /\ Selects(InOrder(places), s, places, Taken(s, places))
<1> DEFINE at == InOrder(places)
           t == Taken(s, places)
           m == Cardinality(places)
<1>1. /\ Rises(at, places) /\ DOMAIN t = DOMAIN at
      /\ \A k \in DOMAIN at : t[k] = s[at[k]]
  BY InOrderRises DEF Taken
<1>2. m \in Nat /\ DOMAIN at = 1..m
  BY <1>1 DEF Rises
<1>3. t = [k \in DOMAIN at |-> s[at[k]]]
  BY DEF Taken
<1> HIDE DEF at, t, m
<1>4. t = [k \in 1..m |-> s[at[k]]] /\ \A k \in 1..m : s[at[k]] \in V
  BY <1>1, <1>2, <1>3 DEF Rises
<1>5. t \in Seq(V) /\ Len(t) = m
  <2>1. [k \in 1..m |-> s[at[k]]] \in [1..m -> V]
    BY <1>4
  <2> QED BY <2>1, <1>4, <1>2
<1>6. ASSUME NEW k \in 1..m, NEW l \in 1..m, at[k] = at[l] PROVE k = l
  <2> QED BY <1>6, <1>1, <1>2, RisesOnce
<1>7. Selects(at, s, places, t)
  BY <1>1, <1>2, <1>5, <1>6 DEF Selects, Rises
<1> QED BY <1>5, <1>7 DEF at, t

----------------------------------------------------------------------------
(* Sequences laid end to end *)

\* What flattening yields, one sequence after the other.
Flattens(flat, seqs, V) ==
  /\ flat \in [0..Len(seqs) -> Seq(V)] /\ flat[0] = <<>> /\ FlattenSeq(seqs) = flat[Len(seqs)]
  /\ \A i \in 1..Len(seqs) : flat[i] = flat[i - 1] \o seqs[i]

LEMMA FlattenIsAPass ==
  ASSUME NEW V, NEW seqs \in Seq(Seq(V)), Len(seqs) # 0
  PROVE  \E flat : Flattens(flat, seqs, V)
<1> DEFINE N == Len(seqs)
           Def(f) == [i \in 1..Len(seqs) |-> IF i = 1 THEN seqs[i] ELSE f[i - 1] \o seqs[i]]
           flat == CHOOSE f : f = Def(f)
           G == [i \in Nat |-> [t \in Seq(V) |-> IF i \in 1..N THEN t \o seqs[i] ELSE t]]
           nothing == <<>>
<1>1. N \in Nat /\ N # 0 /\ \A i \in 1..N : seqs[i] \in Seq(V)
  BY LenProperties, ElementOfSeq
<1>2. nothing \in Seq(V) /\ Len(nothing) = 0
  BY EmptySeq
<1>3. G \in Steps(Seq(V))
  <2>1. ASSUME NEW i \in Nat, NEW t \in Seq(V)
        PROVE  (IF i \in 1..N THEN t \o seqs[i] ELSE t) \in Seq(V)
    BY <1>1, ConcatProperties
  <2> HIDE DEF N
  <2> QED BY <2>1 DEF Steps
<1>4. PICK f : IsPass(f, N, Seq(V), nothing, G)
  <2> HIDE DEF G, N, nothing
  <2> QED BY <1>1, <1>2, <1>3, Recursion
<1>5. ASSUME NEW i \in 1..N PROVE f[i] = f[i - 1] \o seqs[i] /\ i - 1 \in 0..N /\ f[i - 1] \in Seq(V)
  <2>1. i \in Nat /\ i - 1 \in 0..N
    BY <1>1
  <2>2. f[i] = G[i][f[i - 1]] /\ f[i - 1] \in Seq(V)
    <3> HIDE DEF G, N
    <3> QED BY <1>4, <2>1 DEF IsPass
  <2> HIDE DEF N
  <2> QED BY <2>1, <2>2
<1>6. f[0] = nothing /\ f \in [0..N -> Seq(V)]
  <2> HIDE DEF nothing, N, G
  <2> QED BY <1>4 DEF IsPass
<1> HIDE DEF G
<1> DEFINE g == [i \in 1..Len(seqs) |-> f[i]]
<1>7. g = Def(g)
  <2>1. ASSUME NEW i \in 1..Len(seqs) PROVE g[i] = Def(g)[i]
    <3>1. CASE i = 1
      <4>1. f[i - 1] = nothing /\ seqs[i] \in Seq(V)
        BY <3>1, <1>1, <1>6
      <4>2. nothing \o seqs[i] = seqs[i]
        BY <4>1, ConcatEmptySeq
      <4> HIDE DEF nothing
      <4> QED BY <1>5, <3>1, <4>1, <4>2
    <3>2. CASE i # 1
      <4>1. g[i - 1] = f[i - 1]
        BY <3>2, <1>1
      <4> QED BY <1>5, <3>2, <4>1
    <3> QED BY <3>1, <3>2
  <2> HIDE DEF N, nothing
  <2> QED BY <2>1
<1>8. flat = Def(flat)
  <2> HIDE DEF g
  <2> QED BY <1>7
<1>9. FlattenSeq(seqs) = flat[N]
  BY <1>1 DEF FlattenSeq
<1> HIDE DEF flat, g
<1> DEFINE T == {n \in 0..N : n # 0 => flat[n] = f[n]}
<1>10. 0 \in T
  BY <1>1
<1>11. ASSUME NEW n \in 0..(N - 1), n \in T PROVE n + 1 \in T
  <2>0. n + 1 \in 0..N /\ n + 1 # 0 /\ n + 1 \in 1..N /\ (n + 1) - 1 = n
    BY <1>1
  <2>1. f[n + 1] = f[n] \o seqs[n + 1]
    BY <1>5, <2>0
  <2>2. CASE n = 0
    <3>1. flat[n + 1] = seqs[n + 1] /\ seqs[n + 1] \in Seq(V)
      BY <2>0, <2>2, <1>1, <1>8
    <3>2. nothing \o seqs[n + 1] = seqs[n + 1]
      BY <3>1, ConcatEmptySeq
    <3> HIDE DEF nothing
    <3> QED BY <1>6, <2>0, <2>1, <2>2, <3>1, <3>2
  <2>3. CASE n # 0
    <3>1. n + 1 # 1
      BY <2>0, <2>3
    <3>2. flat[n + 1] = flat[n] \o seqs[n + 1]
      BY <2>0, <3>1, <1>8
    <3>3. flat[n] = f[n]
      BY <2>3, <1>11
    <3> QED BY <2>0, <2>1, <3>2, <3>3
  <2> QED BY <2>2, <2>3
<1>12. \A n \in 0..N : n \in T
  <2> HIDE DEF T, N
  <2> QED BY <1>1, <1>10, <1>11, ByInduction
<1>13. flat[N] = f[N]
  BY <1>1, <1>12
<1>14. Flattens(f, seqs, V)
  BY <1>5, <1>6, <1>9, <1>13 DEF Flattens
<1> QED BY <1>14

\* A sequence holds what some sequences hold, one after the other: at each place
\* there is what the row-th of them holds at a column.
EndToEnd(f, row, col, seqs, n) ==
  /\ \A k \in 1..Len(f) : /\ row[k] \in 1..n /\ col[k] \in 1..Len(seqs[row[k]])
                          /\ f[k] = seqs[row[k]][col[k]]
  /\ \A i \in 1..n : \A j \in 1..Len(seqs[i]) :
        \E k \in 1..Len(f) : row[k] = i /\ col[k] = j
  /\ \A k, l \in 1..Len(f) :
        k < l => row[k] < row[l] \/ (row[k] = row[l] /\ col[k] < col[l])

\* One more sequence laid at the end of those before it.
LEMMA LayingOne ==
  ASSUME NEW V, NEW f \in Seq(V), NEW n \in Nat, NEW seqs, seqs[n + 1] \in Seq(V),
         NEW row, NEW col, EndToEnd(f, row, col, seqs, n)
  PROVE  /\ f \o seqs[n + 1] \in Seq(V)
         /\ \E r, c : EndToEnd(f \o seqs[n + 1], r, c, seqs, n + 1)
<1> DEFINE s == seqs[n + 1]
           F == f \o s
           N == Len(f)
           M == Len(s)
           r == [k \in 1..(N + M) |-> IF k <= N THEN row[k] ELSE n + 1]
           c == [k \in 1..(N + M) |-> IF k <= N THEN col[k] ELSE k - N]
<1>1. /\ F \in Seq(V) /\ Len(F) = N + M
      /\ \A k \in 1..(N + M) : F[k] = IF k <= N THEN f[k] ELSE s[k - N]
  BY ConcatProperties
<1>2. N \in Nat /\ M \in Nat
  <2>1. s \in Seq(V)
    OBVIOUS
  <2> QED BY <2>1, LenProperties
<1> HIDE DEF F, N
<1>3. ASSUME NEW k \in 1..N
      PROVE  /\ k \in 1..(N + M) /\ r[k] = row[k] /\ c[k] = col[k] /\ F[k] = f[k]
             /\ row[k] \in 1..n /\ col[k] \in 1..Len(seqs[row[k]]) /\ f[k] = seqs[row[k]][col[k]]
  <2>1. k \in 1..(N + M) /\ k <= N
    BY <1>2
  <2>2. row[k] \in 1..n /\ col[k] \in 1..Len(seqs[row[k]]) /\ f[k] = seqs[row[k]][col[k]]
    BY DEF EndToEnd, N
  <2> QED BY <2>1, <2>2, <1>1
<1>4. ASSUME NEW k \in (N + 1)..(N + M)
      PROVE  /\ k \in 1..(N + M) /\ r[k] = n + 1 /\ c[k] = k - N /\ F[k] = s[k - N]
             /\ k - N \in 1..M
  <2>1. k \in 1..(N + M) /\ ~(k <= N) /\ k - N \in 1..M
    BY <1>2
  <2> QED BY <2>1, <1>1
<1>5. \A k \in 1..(N + M) : k \in 1..N \/ k \in (N + 1)..(N + M)
  BY <1>2
<1> HIDE DEF r, c
<1>6. ASSUME NEW k \in 1..(N + M)
      PROVE  /\ r[k] \in 1..(n + 1) /\ c[k] \in 1..Len(seqs[r[k]])
             /\ F[k] = seqs[r[k]][c[k]]
  <2>1. CASE k \in 1..N
    <3>1. \A x \in 1..n : x \in 1..(n + 1)
      OBVIOUS
    <3> QED BY <2>1, <3>1, <1>3
  <2>2. CASE k \in (N + 1)..(N + M)
    <3>1. n + 1 \in 1..(n + 1)
      OBVIOUS
    <3> QED BY <2>2, <3>1, <1>4
  <2> QED BY <2>1, <2>2, <1>5
<1>7. ASSUME NEW i \in 1..(n + 1), NEW j \in 1..Len(seqs[i])
      PROVE  \E k \in 1..(N + M) : r[k] = i /\ c[k] = j
  <2>1. CASE i \in 1..n
    <3>1. PICK k \in 1..N : row[k] = i /\ col[k] = j
      BY <2>1 DEF EndToEnd, N
    <3> QED BY <3>1, <1>3
  <2>2. CASE i = n + 1
    <3>1. j \in 1..M
      BY <2>2
    <3>2. N + j \in (N + 1)..(N + M) /\ (N + j) - N = j
      BY <3>1, <1>2
    <3> QED BY <2>2, <3>2, <1>4
  <2> QED BY <2>1, <2>2
<1>8. ASSUME NEW k \in 1..(N + M), NEW l \in 1..(N + M), k < l
      PROVE  r[k] < r[l] \/ (r[k] = r[l] /\ c[k] < c[l])
  <2>1. CASE k \in 1..N /\ l \in 1..N
    <3>1. row[k] < row[l] \/ (row[k] = row[l] /\ col[k] < col[l])
      BY <2>1, <1>8 DEF EndToEnd, N
    <3> QED BY <2>1, <3>1, <1>3
  <2>2. CASE k \in 1..N /\ l \in (N + 1)..(N + M)
    <3>1. r[k] \in 1..n /\ r[l] = n + 1
      BY <2>2, <1>3, <1>4
    <3> QED BY <3>1
  <2>3. CASE k \in (N + 1)..(N + M) /\ l \in (N + 1)..(N + M)
    <3>1. r[k] = r[l] /\ c[k] = k - N /\ c[l] = l - N
      BY <2>3, <1>4
    <3> QED BY <3>1, <1>2, <1>8
  <2>4. ~(k \in (N + 1)..(N + M) /\ l \in 1..N)
    BY <1>2, <1>8
  <2> QED BY <2>1, <2>2, <2>3, <2>4, <1>5
<1> HIDE DEF s, M
<1>9. EndToEnd(F, r, c, seqs, n + 1)
  BY <1>1, <1>6, <1>7, <1>8 DEF EndToEnd
<1> QED BY <1>1, <1>9 DEF F, s

\* Flattening lays the sequences end to end, each whole and in its order.
LEMMA FlattenLays ==
  ASSUME NEW V, NEW seqs \in Seq(Seq(V))
  PROVE  /\ FlattenSeq(seqs) \in Seq(V)
         /\ \E row, col : EndToEnd(FlattenSeq(seqs), row, col, seqs, Len(seqs))
<1> DEFINE N == Len(seqs)
           nothing == <<>>
<1>1. N \in Nat /\ \A i \in 1..N : seqs[i] \in Seq(V)
  BY LenProperties, ElementOfSeq
<1>2. nothing \in Seq(V) /\ Len(nothing) = 0
  BY EmptySeq
<1>3. \E row, col : EndToEnd(nothing, row, col, seqs, 0)
  BY <1>2 DEF EndToEnd
<1>4. CASE N = 0
  <2>1. seqs = nothing
    BY <1>4, EmptySeq
  <2>2. FlattenSeq(seqs) = seqs
    BY <1>4 DEF FlattenSeq
  <2> HIDE DEF nothing
  <2> QED BY <1>2, <1>3, <1>4, <2>1, <2>2
<1>5. CASE N # 0
  <2>1. PICK flat : Flattens(flat, seqs, V)
    BY <1>5, FlattenIsAPass
  <2>2. /\ flat \in [0..N -> Seq(V)] /\ flat[0] = nothing /\ FlattenSeq(seqs) = flat[N]
        /\ \A i \in 1..N : flat[i] = flat[i - 1] \o seqs[i]
    BY <2>1 DEF Flattens
  <2> DEFINE T == {n \in 0..N : \E row, col : EndToEnd(flat[n], row, col, seqs, n)}
  <2>3. 0 \in T
    <3> HIDE DEF nothing
    <3> QED BY <1>1, <1>3, <2>2
  <2>4. ASSUME NEW n \in 0..(N - 1), n \in T PROVE n + 1 \in T
    <3>1. n + 1 \in 0..N /\ n + 1 \in 1..N /\ (n + 1) - 1 = n /\ n \in Nat /\ n \in 0..N
      BY <1>1
    <3>2. seqs[n + 1] \in Seq(V) /\ flat[n] \in Seq(V) /\ flat[n + 1] = flat[n] \o seqs[n + 1]
      BY <1>1, <2>2, <3>1
    <3>3. PICK row, col : EndToEnd(flat[n], row, col, seqs, n)
      BY <2>4
    <3>4. \E r, c : EndToEnd(flat[n + 1], r, c, seqs, n + 1)
      BY <3>1, <3>2, <3>3, LayingOne
    <3> QED BY <3>1, <3>4
  <2>5. \A n \in 0..N : n \in T
    <3> HIDE DEF T, N
    <3> QED BY <1>1, <2>3, <2>4, ByInduction
  <2>6. N \in T /\ flat[N] \in Seq(V)
    BY <1>1, <2>2, <2>5
  <2> QED BY <2>2, <2>6
<1> QED BY <1>4, <1>5
=============================================================================
