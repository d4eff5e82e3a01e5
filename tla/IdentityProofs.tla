--------------------------- MODULE IdentityProofs ---------------------------
(***************************************************************************)
(* That a spelling opens one review for good, that progress is reached by  *)
(* the name it was filed under, and that the review joined is the nearest, *)
(* for every history, every set of spellings and any number of processes.  *)
(*                                                                         *)
(* What carries the first two (IdentityInv): of a spelling only one        *)
(* process is at, what that process has read of the directories stays so   *)
(* until it has acted on it, because every other process writes under      *)
(* another name; and only a review that says what it is is ever joined.    *)
(* The third is about the pass of `extreme` alone, over an ancestry that   *)
(* is an order.                                                            *)
(***************************************************************************)
EXTENDS Identity, FiniteInduction, FiniteSetTheorems

-----------------------------------------------------------------------------
(* The history *)

Commits == Cardinality(Commit)
Histories == [Commit -> SUBSET Commit]
AndParents(v) == [c \in Commit |-> v[c] \cup UNION {Parents[d] : d \in v[c]}]
IsHistory(up) ==
  /\ up \in [0..Commits -> Histories]
  /\ up[0] = [c \in Commit |-> {c}]
  /\ \A n \in 1..Commits : up[n] = AndParents(up[n - 1])

LEMMA ParentsAreCommits ==
  ASSUME NEW v \in Histories
  PROVE  AndParents(v) \in Histories
<1>1. ASSUME NEW c \in Commit PROVE v[c] \cup UNION {Parents[d] : d \in v[c]} \subseteq Commit
  <2>1. v[c] \subseteq Commit
    BY DEF Histories
  <2>2. \A d \in Commit : Parents[d] \subseteq Commit
    BY IdentityAssumption
  <2> QED
    BY <2>1, <2>2
<1> QED
  BY <1>1 DEF AndParents, Histories

\* The generations of `is_ancestor` add up.
LEMMA HistoryExists ==
  /\ Commits \in Nat
  /\ \E up : IsHistory(up) /\ Ancestors = up[Commits]
<1>1. Commits \in Nat
  BY IdentityAssumption, FS_CardinalityType DEF Commits
<1> DEFINE first == [c \in Commit |-> {c}]
           G == [n \in Nat |-> [v \in Histories |-> AndParents(v)]]
           Pass(f) == [n \in 0..Commits |-> IF n = 0 THEN first ELSE
              [c \in Commit |-> f[n - 1][c] \cup UNION {Parents[d] : d \in f[n - 1][c]}]]
           up == CHOOSE f : f = Pass(f)
<1>2. first \in Histories
  BY DEF Histories
<1>3. G \in Steps(Histories)
  BY ParentsAreCommits DEF Steps
<1>4. PICK f : IsPass(f, Commits, Histories, first, G)
  <2> HIDE DEF first, G
  <2> QED BY <1>1, <1>2, <1>3, Recursion
<1>5. \A n \in 1..Commits : f[n] = AndParents(f[n - 1])
  <2>1. \A n \in 1..Commits : n \in Nat /\ n - 1 \in 0..Commits /\ f[n - 1] \in Histories
    BY <1>1, <1>4 DEF IsPass
  <2> QED BY <1>4, <2>1 DEF IsPass
<1>6. f = Pass(f)
  <2>1. \A n \in 0..Commits : n = 0 \/ n \in 1..Commits
    BY <1>1
  <2>2. \A n \in 0..Commits : f[n] = Pass(f)[n]
    BY <1>4, <1>5, <2>1 DEF AndParents, IsPass
  <2>3. f = [n \in 0..Commits |-> f[n]]
    BY <1>4 DEF IsPass
  <2> QED BY <2>2, <2>3
<1>7. up = Pass(up)
  BY <1>6
<1> HIDE DEF up
<1>8. up[0] = first /\ \A n \in 1..Commits : up[n] = AndParents(up[n - 1])
  <2>1. 0 \in 0..Commits /\ \A n \in 1..Commits : n \in 0..Commits /\ n # 0
    BY <1>1
  <2> QED BY <1>7, <2>1 DEF AndParents
<1>9. up \in [0..Commits -> Histories]
  <2> DEFINE T == {n \in 0..Commits : up[n] \in Histories}
  <2>1. 0 \in T
    BY <1>1, <1>2, <1>8
  <2>2. ASSUME NEW n \in 0..(Commits - 1), n \in T PROVE n + 1 \in T
    <3>1. n + 1 \in 1..Commits /\ n + 1 \in 0..Commits /\ (n + 1) - 1 = n
      BY <1>1
    <3>2. up[n + 1] = AndParents(up[n])
      BY <1>8, <3>1
    <3> QED BY <2>2, <3>1, <3>2, ParentsAreCommits
  <2>3. \A n \in 0..Commits : n \in T
    <3> HIDE DEF T
    <3> QED BY <1>1, <2>1, <2>2, ByInduction
  <2> QED BY <1>7, <2>3
<1>10. Ancestors = up[Commits]
  BY DEF Ancestors, up, Commits
<1> QED
  BY <1>1, <1>8, <1>9, <1>10 DEF IsHistory

\* An ancestor of a commit is a commit.
LEMMA AncestorsAreCommits ==
  ASSUME NEW c \in Commit
  PROVE  Ancestors[c] \subseteq Commit
<1>1. Ancestors \in Histories
  BY HistoryExists DEF IsHistory
<1> QED
  BY <1>1 DEF Histories

\* After as many generations as there are commits, nothing is left to add.
Closed(set) == \A c \in set : Parents[c] \subseteq set

LEMMA AncestryIsClosed ==
  ASSUME NEW c \in Commit
  PROVE  Closed(Ancestors[c])
<1>1. PICK up : IsHistory(up) /\ Ancestors = up[Commits]
  BY HistoryExists
<1>2. Commits \in Nat /\ IsFiniteSet(Commit)
  BY HistoryExists, IdentityAssumption
<1>3. ASSUME NEW n \in 0..Commits
      PROVE  up[n][c] \subseteq Commit /\ IsFiniteSet(up[n][c]) /\ Cardinality(up[n][c]) \in Nat
             /\ Cardinality(up[n][c]) <= Commits
  <2>1. up[n][c] \in SUBSET Commit
    BY <1>1 DEF IsHistory, Histories
  <2> QED
    BY <2>1, <1>2, FS_Subset, FS_CardinalityType DEF Commits
<1> DEFINE T == {n \in 0..Commits : Closed(up[n][c]) \/ Cardinality(up[n][c]) >= n + 1}
<1>4. 0 \in T
  <2>1. up[0][c] = {c}
    BY <1>1 DEF IsHistory
  <2> QED
    <3>1. Cardinality({c}) = 1
      BY FS_Singleton
    <3> QED BY <2>1, <3>1, <1>2
<1>5. ASSUME NEW n \in 0..(Commits - 1), n \in T PROVE n + 1 \in T
  <2> DEFINE S == up[n][c]
             next == up[n + 1][c]
  <2>1. n \in 0..Commits /\ n + 1 \in 1..Commits /\ n + 1 \in 0..Commits /\ (n + 1) - 1 = n
    BY <1>2
  <2>2. next = S \cup UNION {Parents[d] : d \in S}
    <3>1. up[n + 1] = AndParents(up[n])
      BY <1>1, <2>1 DEF IsHistory
    <3> QED BY <3>1 DEF AndParents
  <2>3. CASE Closed(S)
    <3>1. next = S
      BY <2>2, <2>3 DEF Closed
    <3> QED
      BY <3>1, <2>1, <2>3
  <2>4. CASE ~Closed(S)
    <3>1. next # S
      BY <2>2, <2>4 DEF Closed
    <3>2. S \in SUBSET next /\ IsFiniteSet(next) /\ Cardinality(next) \in Nat /\ Cardinality(S) \in Nat
      BY <2>1, <2>2, <1>3
    <3>3. Cardinality(S) <= Cardinality(next) /\ Cardinality(next) # Cardinality(S)
      <4> HIDE DEF S, next
      <4> QED BY <3>1, <3>2, FS_Subset
    <3>4. Cardinality(S) >= n + 1
      BY <1>5, <2>4
    <3>5. Cardinality(next) >= (n + 1) + 1
      <4> HIDE DEF S, next
      <4> QED BY <3>2, <3>3, <3>4
    <3> QED
      BY <3>5, <2>1
  <2> QED
    BY <2>3, <2>4
<1>6. \A n \in 0..Commits : n \in T
  <2> HIDE DEF T
  <2> QED BY <1>2, <1>4, <1>5, ByInduction
<1>7. Commits \in 0..Commits
  BY <1>2
<1> QED
  BY <1>1, <1>2, <1>3, <1>6, <1>7

\* Every commit is an ancestor of itself, and an ancestor's ancestor is one.
LEMMA AncestryIsAnOrder ==
  /\ \A c \in Commit : IsAncestor(c, c)
  /\ \A a, b, c \in Commit : IsAncestor(a, b) /\ IsAncestor(b, c) => IsAncestor(a, c)
<1>1. PICK up : IsHistory(up) /\ Ancestors = up[Commits]
  BY HistoryExists
<1>2. Commits \in Nat
  BY HistoryExists
<1>3. Commits \in 0..Commits
  BY <1>2
<1>4. \A n \in 0..(Commits - 1) : /\ n \in 0..Commits /\ n + 1 \in 0..Commits
        /\ \A c \in Commit : up[n + 1][c] = up[n][c] \cup UNION {Parents[d] : d \in up[n][c]}
  <2> SUFFICES ASSUME NEW n \in 0..(Commits - 1)
               PROVE  /\ n \in 0..Commits /\ n + 1 \in 0..Commits
                      /\ \A c \in Commit :
                           up[n + 1][c] = up[n][c] \cup UNION {Parents[d] : d \in up[n][c]}
    OBVIOUS
  <2>1. n \in 0..Commits /\ n + 1 \in 1..Commits /\ n + 1 \in 0..Commits /\ (n + 1) - 1 = n
    BY <1>2
  <2>2. up[n + 1] = AndParents(up[n])
    BY <1>1, <2>1 DEF IsHistory
  <2> QED
    BY <2>1, <2>2 DEF AndParents
<1>5. \A c \in Commit : up[0][c] = {c}
  BY <1>1 DEF IsHistory
<1>6. ASSUME NEW c \in Commit PROVE IsAncestor(c, c)
  <2> DEFINE T == {n \in 0..Commits : c \in up[n][c]}
  <2>1. 0 \in T
    BY <1>2, <1>5
  <2>2. \A n \in 0..(Commits - 1) : n \in T => n + 1 \in T
    BY <1>4
  <2>3. Commits \in T
    <3> HIDE DEF T
    <3> QED BY <1>2, <1>3, <2>1, <2>2, ByInduction
  <2> QED
    BY <2>3, <1>1 DEF IsAncestor
<1>7. ASSUME NEW a \in Commit, NEW b \in Commit, NEW c \in Commit,
             IsAncestor(a, b), IsAncestor(b, c)
      PROVE  IsAncestor(a, c)
  <2> DEFINE T == {n \in 0..Commits : up[n][b] \subseteq Ancestors[c]}
  <2>1. 0 \in T
    BY <1>2, <1>5, <1>7 DEF IsAncestor
  <2>2. \A n \in 0..(Commits - 1) : n \in T => n + 1 \in T
    <3>1. Closed(Ancestors[c])
      BY AncestryIsClosed
    <3> QED
      BY <3>1, <1>4 DEF Closed
  <2>3. Commits \in T
    <3> HIDE DEF T
    <3> QED BY <1>2, <1>3, <2>1, <2>2, ByInduction
  <2> QED
    BY <2>3, <1>1, <1>7 DEF IsAncestor
<1> QED
  BY <1>6, <1>7

\* What a source that can be read is opened as is a review.
LEMMA OpenedAsAReview ==
  ASSUME NEW s \in Source, tip \in [Branch -> Commit \cup {Gone}],
         Gone \notin {CommitOf(rev) : rev \in Ends(s)},
         NEW base \in IF Given(s) THEN {None} ELSE Bases(s)
  PROVE  IdentityOf(s, base) \in Identity
<1>1. CASE Given(s)
  BY <1>1 DEF Identity
<1>2. CASE ~Given(s)
  <2>1. /\ s.base \in Commit \cup Branch
        /\ s.form = "mergebase" => s.head \in Commit \cup Branch
    BY <1>2, IdentityAssumption DEF Given
  <2>2. ASSUME NEW rev \in Ends(s), rev \in Commit \cup Branch PROVE CommitOf(rev) \in Commit
    BY <2>2, IdentityAssumption DEF CommitOf
  <2>3. s.base \in Ends(s) /\ (s.form = "mergebase" => s.head \in Ends(s))
    BY <1>2 DEF Ends
  <2>4. CommitOf(s.base) \in Commit /\ (s.form = "mergebase" => CommitOf(s.head) \in Commit)
    BY <2>1, <2>2, <2>3
  <2>5. s.form = "mergebase" => Bases(s) \subseteq Commit
    BY <2>4, AncestorsAreCommits DEF Bases, MergeBases
  <2>6. base \in Commit
    BY <1>2, <2>4, <2>5 DEF Bases
  <2> QED
    BY <1>2, <2>6 DEF Identity
<1> QED
  BY <1>1, <1>2

-----------------------------------------------------------------------------
(* Whose progress is inherited *)

\* An order of a finite set holds each of its elements and nothing else.
LEMMA AnOrder ==
  ASSUME NEW S, IsFiniteSet(S), NEW order \in SetToSeqs(S)
  PROVE  /\ Cardinality(S) \in Nat
         /\ DOMAIN order = 1..Cardinality(S) /\ Len(order) = Cardinality(S)
         /\ order = <<>> <=> S = {}
         /\ \A i \in DOMAIN order : order[i] \in S
         /\ \A x \in S : \E i \in DOMAIN order : order[i] = x
<1> DEFINE n == Cardinality(S)
<1>1. n \in Nat
  BY FS_CardinalityType
<1>2. order \in [1..n -> S] /\ \A i, j \in 1..n : i # j => order[i] # order[j]
  BY DEF SetToSeqs
<1>3. order \in Surjection(1..n, S)
  <2>1. order \in Injection(1..n, S)
    BY <1>2 DEF Injection, IsInjective
  <2>2. 1 \in Int /\ n \in Int
    BY <1>1
  <2>3. IsFiniteSet(1..n) /\ Cardinality(1..n) = IF 1 > n THEN 0 ELSE n - 1 + 1
    BY <2>2, FS_Interval
  <2>4. Cardinality(1..n) = Cardinality(S)
    BY <2>3, <1>1
  <2> QED
    BY <2>1, <2>4, FS_Injection
<1>4. \A x \in S : \E i \in 1..n : order[i] = x
  BY <1>3 DEF Surjection
<1> HIDE DEF n
<1>5. order \in Seq(S) /\ DOMAIN order = 1..n /\ Len(order) = n
  BY <1>1, <1>2
<1>6. order = <<>> <=> S = {}
  <2>1. S = {} <=> n = 0
    BY FS_EmptySet DEF n
  <2> QED
    BY <1>1, <1>5, <2>1
<1> QED
  BY <1>1, <1>2, <1>4, <1>5, <1>6 DEF n

\* The pass of `extreme`, and what it takes for the candidate it finds to be given.
IsExtreme(set, reach, n, best) ==
  /\ best \in [1..n -> 1..n] /\ best[1] = 1
  /\ \A i \in 2..n : best[i] = IF Further(reach, set[best[i - 1]].head, set[i].head)
                                THEN i ELSE best[i - 1]
  /\ Extreme(set, reach) =
       IF \E i \in 1..n : ~Further(reach, set[i].head, set[best[n]].head)
       THEN None ELSE set[best[n]].id

LEMMA ThePass ==
  ASSUME NEW set, NEW n \in Nat \ {0}, DOMAIN set = 1..n, Len(set) = n, NEW reach
  PROVE  \E best : IsExtreme(set, reach, n, best)
<1> DEFINE G == [i \in Nat |-> [k \in Nat |->
                  IF i = 1 THEN 1 ELSE IF Further(reach, set[k].head, set[i].head) THEN i ELSE k]]
           Pass(f) == [i \in 1..Len(set) |-> IF i = 1 THEN 1
                ELSE IF Further(reach, set[f[i - 1]].head, set[i].head) THEN i ELSE f[i - 1]]
           best == CHOOSE f : f = Pass(f)
<1>1. G \in Steps(Nat)
  BY DEF Steps
<1>2. PICK f : IsPass(f, n, Nat, 1, G)
  <2> HIDE DEF G
  <2> QED BY <1>1, Recursion
<1> DEFINE g == [i \in 1..n |-> f[i]]
<1>3. g = Pass(g)
  <2>1. ASSUME NEW i \in 1..n PROVE g[i] = Pass(g)[i]
    <3>0. i - 1 \in 0..n /\ i \in Nat
      OBVIOUS
    <3>1. f[i] = G[i][f[i - 1]] /\ f[i - 1] \in Nat
      <4> HIDE DEF G
      <4> QED BY <1>2, <3>0 DEF IsPass
    <3>2. f[i] = IF i = 1 THEN 1
                 ELSE IF Further(reach, set[f[i - 1]].head, set[i].head) THEN i ELSE f[i - 1]
      <4> HIDE DEF g
      <4> QED BY <3>0, <3>1
    <3>3. i # 1 => g[i - 1] = f[i - 1]
      OBVIOUS
    <3> QED BY <3>2, <3>3
  <2> QED BY <2>1
<1>4. best = Pass(best)
  <2> HIDE DEF g
  <2> QED BY <1>3
<1>5. Extreme(set, reach) =
       IF \E i \in 1..n : ~Further(reach, set[i].head, set[best[n]].head)
       THEN None ELSE set[best[n]].id
  <2>1. set # <<>>
    OBVIOUS
  <2>2. ASSUME NEW i \in DOMAIN set, ~Further(reach, set[i].head, set[best[Len(set)]].head)
        PROVE  Extreme(set, reach) = None
    BY <2>1, <2>2 DEF Extreme
  <2>3. ASSUME \A i \in DOMAIN set : Further(reach, set[i].head, set[best[Len(set)]].head)
        PROVE  Extreme(set, reach) = set[best[Len(set)]].id
    BY <2>1, <2>3 DEF Extreme
  <2> HIDE DEF best
  <2> QED BY <2>2, <2>3
<1> HIDE DEF best
<1>6. best[1] = 1 /\ \A i \in 2..n : best[i] =
         IF Further(reach, set[best[i - 1]].head, set[i].head) THEN i ELSE best[i - 1]
  <2>1. 1 \in 1..n /\ \A i \in 2..n : i \in 1..n /\ i # 1
    OBVIOUS
  <2> QED BY <1>4, <2>1
<1>7. best \in [1..n -> 1..n]
  <2> DEFINE T == {k \in 0..(n - 1) : best[k + 1] \in 1..n}
  <2>1. 0 \in T
    BY <1>6
  <2>2. ASSUME NEW k \in 0..((n - 1) - 1), k \in T PROVE k + 1 \in T
    <3>1. (k + 1) + 1 \in 2..n /\ ((k + 1) + 1) - 1 = k + 1 /\ (k + 1) + 1 \in 1..n
          /\ k + 1 \in 0..(n - 1)
      OBVIOUS
    <3>2. best[k + 1] \in 1..n
      BY <2>2
    <3>3. best[(k + 1) + 1] \in 1..n
      BY <1>6, <3>1, <3>2
    <3> QED BY <3>1, <3>3
  <2>3. \A k \in 0..(n - 1) : k \in T
    <3>1. n - 1 \in Nat
      OBVIOUS
    <3> HIDE DEF T
    <3> QED BY <3>1, <2>1, <2>2, ByInduction
  <2>4. ASSUME NEW i \in 1..n PROVE best[i] \in 1..n
    <3>1. i - 1 \in 0..(n - 1) /\ (i - 1) + 1 = i
      OBVIOUS
    <3> QED BY <3>1, <2>3
  <2>5. best = [i \in 1..n |-> best[i]]
    BY <1>4
  <2> QED BY <2>4, <2>5
<1> QED
  BY <1>5, <1>6, <1>7 DEF IsExtreme

\* Those no other of a set is further along than.
Furthest(S, reach) == {x \in S : \A y \in S : Further(reach, y.head, x.head)}

\* `extreme` finds one of them whenever there is one, in whatever order it meets them.
LEMMA ExtremeIsFurthest ==
  ASSUME NEW S, IsFiniteSet(S), \A x \in S : x.head \in Commit,
         NEW order \in SetToSeqs(S), NEW reach
  PROVE  IF Furthest(S, reach) = {} THEN Extreme(order, reach) = None
         ELSE Extreme(order, reach) \in {x.id : x \in Furthest(S, reach)}
<1> DEFINE n == Cardinality(S)
<1>1. /\ n \in Nat /\ DOMAIN order = 1..n /\ Len(order) = n /\ (order = <<>> <=> S = {})
      /\ \A i \in 1..n : order[i] \in S
      /\ \A x \in S : \E i \in 1..n : order[i] = x
  BY AnOrder
<1> HIDE DEF n
<1>2. /\ \A c \in Commit : Further(reach, c, c)
      /\ \A a, b, c \in Commit : Further(reach, a, b) /\ Further(reach, b, c) => Further(reach, a, c)
  BY AncestryIsAnOrder DEF Further
<1>3. CASE n = 0
  <2>1. order = <<>> /\ S = {}
    BY <1>1, <1>3
  <2> QED BY <2>1 DEF Extreme, Furthest
<1>4. CASE n # 0
  <2>1. PICK best : IsExtreme(order, reach, n, best)
    BY <1>1, <1>4, ThePass
  <2> DEFINE found == order[best[n]]
  <2>2. n \in 1..n /\ best[n] \in 1..n /\ found \in S
    BY <1>1, <1>4, <2>1 DEF IsExtreme
  <2>3. CASE \E i \in 1..n : ~Further(reach, order[i].head, found.head)
    <3>1. Extreme(order, reach) = None
      BY <2>1, <2>3 DEF IsExtreme
    <3>2. ASSUME NEW x \in Furthest(S, reach) PROVE FALSE
      <4>1. x \in S /\ \A y \in S : Further(reach, y.head, x.head)
        BY DEF Furthest
      <4>2. PICK m \in 1..n : order[m] = x
        BY <1>1, <4>1
      <4> DEFINE T == {k \in 0..(n - m) : Further(reach, x.head, order[best[m + k]].head)}
      <4>3. 0 \in T
        <5>1. best[m] = m
          <6>1. CASE m = 1
            BY <6>1, <2>1 DEF IsExtreme
          <6>2. CASE m # 1
            <7>1. m \in 2..n /\ m - 1 \in 1..n
              BY <1>1, <6>2
            <7>2. order[best[m - 1]] \in S
              BY <7>1, <1>1, <2>1 DEF IsExtreme
            <7> QED
              BY <7>1, <7>2, <4>1, <4>2, <2>1 DEF IsExtreme
          <6> QED BY <6>1, <6>2
        <5>2. m + 0 = m /\ 0 \in 0..(n - m)
          BY <1>1
        <5> QED
          BY <5>1, <5>2, <4>1, <4>2, <1>2
      <4>4. ASSUME NEW k \in 0..((n - m) - 1), k \in T PROVE k + 1 \in T
        <5> DEFINE i == m + (k + 1)
        <5>1. i \in 2..n /\ i - 1 = m + k /\ i \in 1..n /\ m + k \in 1..n /\ k + 1 \in 0..(n - m)
          BY <1>1
        <5>2. Further(reach, x.head, order[best[m + k]].head)
          BY <4>4
        <5>3. order[best[m + k]] \in S /\ order[i] \in S
          BY <5>1, <1>1, <2>1 DEF IsExtreme
        <5>4. best[i] = IF Further(reach, order[best[m + k]].head, order[i].head)
                        THEN i ELSE best[m + k]
          BY <5>1, <2>1 DEF IsExtreme
        <5>5. Further(reach, x.head, order[best[i]].head)
          <6> HIDE DEF i
          <6>1. CASE Further(reach, order[best[m + k]].head, order[i].head)
            BY <6>1, <5>2, <5>3, <5>4, <4>1, <1>2
          <6>2. CASE ~Further(reach, order[best[m + k]].head, order[i].head)
            BY <6>2, <5>2, <5>4
          <6> QED BY <6>1, <6>2
        <5> QED
          BY <5>1, <5>5
      <4>5. n - m \in Nat /\ m + (n - m) = n
        BY <1>1
      <4>6. n - m \in T
        <5>1. n - m \in 0..(n - m)
          BY <4>5
        <5> HIDE DEF T
        <5> QED BY <4>3, <4>4, <4>5, <5>1, ByInduction
      <4>7. Further(reach, x.head, found.head)
        BY <4>5, <4>6
      <4>8. \A i \in 1..n : Further(reach, order[i].head, found.head)
        BY <4>1, <4>7, <1>1, <1>2, <2>2
      <4> QED
        BY <4>8, <2>3
    <3> QED
      BY <3>1, <3>2
  <2>4. CASE \A i \in 1..n : Further(reach, order[i].head, found.head)
    <3>1. Extreme(order, reach) = found.id
      BY <2>1, <2>4 DEF IsExtreme
    <3>2. \A y \in S : Further(reach, y.head, found.head)
      BY <2>4, <1>1
    <3>3. found \in Furthest(S, reach)
      BY <3>2, <2>2 DEF Furthest
    <3> QED
      BY <3>1, <3>3
  <2> QED
    BY <2>3, <2>4
<1> QED BY <1>3, <1>4

\* What is joined is one of the reviews that were placed.
LEMMA JoinedWasPlaced ==
  ASSUME NEW S, IsFiniteSet(S), NEW order \in SetToSeqs(S), NEW reach
  PROVE  Extreme(order, reach) \in {None} \cup {x.id : x \in S}
<1> DEFINE n == Cardinality(S)
<1>1. n \in Nat /\ DOMAIN order = 1..n /\ Len(order) = n /\ (order = <<>> <=> S = {})
      /\ \A i \in 1..n : order[i] \in S
  BY AnOrder
<1> HIDE DEF n
<1>2. CASE n = 0
  <2>1. order = <<>>
    BY <1>1, <1>2
  <2> QED BY <2>1 DEF Extreme
<1>3. CASE n # 0
  <2>1. PICK best : IsExtreme(order, reach, n, best)
    BY <1>1, <1>3, ThePass
  <2>2. n \in 1..n
    BY <1>1, <1>3
  <2>3. order[best[n]] \in S
    BY <1>1, <2>1, <2>2 DEF IsExtreme
  <2> QED BY <2>1, <2>3 DEF IsExtreme
<1> QED BY <1>2, <1>3

-----------------------------------------------------------------------------
Fields == {"at", "opening", "seen", "head", "placed", "target"}
Ats == {"idle", "alias", "list", "head", "place", "make", "write", "enter"}

Types ==
  /\ tip \in [Branch -> Commit \cup {Gone}]
  /\ dirs \subseteq Identity
  /\ alias \in [Identity -> Identity \cup {None}]
  /\ opened \in [Identity -> SUBSET Identity]
  /\ DOMAIN proc = Process
  /\ \A p \in Process :
       /\ DOMAIN proc[p] = Fields /\ proc[p].at \in Ats
       /\ proc[p].at = "idle" => proc[p].opening = None
       /\ proc[p].at # "idle" => proc[p].opening \in Identity
  /\ IsFiniteSet(dirs)

\* Only a review that says what it is is ever joined, and only a range joins one.
JoinsWritten(p) ==
  LET r == proc[p] IN
  /\ r.seen \subseteq written
  /\ r.at \in {"head", "place"} => r.opening.kind = "range"
  /\ r.at \in {"make", "write"} /\ r.target # r.opening => r.opening.kind = "range"
  /\ r.at \in {"make", "write", "enter"} => r.target \in {r.opening} \cup written
  /\ r.at = "write" => r.opening \in dirs
Filed ==
  /\ written \subseteq dirs
  /\ \A o \in Identity : alias[o] # None =>
       o \in dirs /\ alias[o] \in written \ {o} /\ o.kind = "range"
  /\ \A o \in Identity : opened[o] \subseteq {o} \cup written
  /\ \A p \in Process : JoinsWritten(p)

\* Two processes at one spelling are on record.
Recorded ==
  \A p, q \in Process : p # q /\ proc[p].opening = proc[q].opening /\ proc[p].opening # None =>
    proc[p].opening \in clash

\* Where a spelling leads.
Leads(o) == IF alias[o] = None THEN o ELSE alias[o]

\* What the only process at a spelling has read of it is still so.
StillSo(p) ==
  LET r == proc[p]
      o == proc[p].opening
  IN  o # None /\ o \notin clash =>
      /\ r.at \in {"list", "head", "place", "make", "write"} => alias[o] = None
      /\ r.at \in {"head", "place"} => o \notin dirs
      /\ r.at = "make" /\ r.target # o => o \notin dirs
      /\ r.at = "write" /\ r.target # o => opened[o] = {} /\ o \notin written
      /\ r.at = "enter" => r.target = Leads(o)

\* What was opened is where the spelling leads, and what holds a review redirects
\* nowhere.
LedOnce(o) ==
  o \notin clash =>
    /\ opened[o] # {} => opened[o] = {Leads(o)} /\ o \in dirs
    /\ o \in written => alias[o] = None

IdentityInv ==
  /\ Types /\ Filed /\ Recorded
  /\ \A p \in Process : StillSo(p)
  /\ \A o \in Identity : LedOnce(o)

LEMMA IdentityInit == Init => IdentityInv
<1> SUFFICES ASSUME Init PROVE IdentityInv
  OBVIOUS
<1>1. \A p \in Process : proc[p] = Idle
  BY DEF Init
<1>2. Types
  BY <1>1, FS_EmptySet DEF Init, Types, Fields, Ats, Idle
<1>3. Filed
  BY <1>1 DEF Init, Filed, JoinsWritten, Idle
<1>4. Recorded /\ \A p \in Process : StillSo(p)
  BY <1>1 DEF Recorded, StillSo, Idle
<1>5. \A o \in Identity : LedOnce(o)
  BY DEF Init, LedOnce
<1> QED
  BY <1>2, <1>3, <1>4, <1>5 DEF IdentityInv

\* What a step of one process makes of its record, and that it leaves the others alone.
LEMMA Stepped ==
  ASSUME Types, NEW p \in Process, NEW c, DOMAIN c \subseteq Fields, Step(p, c)
  PROVE  /\ DOMAIN proc' = Process
         /\ \A q \in Process \ {p} : proc'[q] = proc[q]
         /\ DOMAIN proc'[p] = Fields
         /\ \A x \in Fields : proc'[p][x] = IF x \in DOMAIN c THEN c[x] ELSE proc[p][x]
<1> DEFINE r == [f \in DOMAIN proc[p] |-> IF f \in DOMAIN c THEN c[f] ELSE proc[p][f]]
<1>1. proc' = [proc EXCEPT ![p] = r] /\ p \in DOMAIN proc
  BY DEF Step, Types
<1>2. DOMAIN proc[p] = Fields
  BY DEF Types
<1>3. /\ DOMAIN r = Fields
      /\ \A x \in Fields : r[x] = IF x \in DOMAIN c THEN c[x] ELSE proc[p][x]
  BY <1>2
<1> HIDE DEF r
<1>4. proc'[p] = r /\ DOMAIN proc' = Process /\ \A q \in Process \ {p} : proc'[q] = proc[q]
  BY <1>1 DEF Types
<1> QED
  BY <1>3, <1>4

\* What is asked of one review's files alone.
FiledUnder(o) ==
  /\ alias[o] # None => o \in dirs /\ alias[o] \in written \ {o} /\ o.kind = "range"
  /\ opened[o] \subseteq {o} \cup written

\* One process works at one spelling: what holds of the others' goes on holding, and
\* what is left to show is about its own.
LEMMA OneSpelling ==
  ASSUME IdentityInv, NEW p \in Process, NEW o \in Identity, proc[p].opening = o,
         dirs \subseteq dirs', dirs' \subseteq dirs \cup {o},
         written \subseteq written', written' \subseteq written \cup {o}, written' \subseteq dirs',
         \A x \in Identity \ {o} : alias'[x] = alias[x] /\ opened'[x] = opened[x],
         \A q \in Process \ {p} : proc'[q] = proc[q],
         proc'[p].opening \in {o, None}, clash' = clash,
         Types', FiledUnder(o)', JoinsWritten(p)', StillSo(p)', LedOnce(o)'
  PROVE  IdentityInv'
<1>1. None \notin Identity
  BY NoneIsNoReview
<1>2. Filed'
  <2>1. \A x \in Identity \ {o} : FiledUnder(x)'
    BY DEF IdentityInv, Filed, FiledUnder
  <2>2. \A x \in Identity : FiledUnder(x)'
    BY <2>1
  <2>3. \A q \in Process \ {p} : JoinsWritten(q)'
    BY DEF IdentityInv, Filed, JoinsWritten
  <2>4. \A q \in Process : JoinsWritten(q)'
    BY <2>3
  <2> QED
    BY <2>2, <2>4 DEF Filed, FiledUnder
<1>3. Recorded'
  <2>1. \A q, r \in Process : q # r /\ proc'[q].opening = proc'[r].opening /\ proc'[q].opening # None
          => proc[q].opening = proc[r].opening /\ proc[q].opening = proc'[q].opening
    BY DEF IdentityInv, Recorded
  <2> QED
    BY <2>1 DEF IdentityInv, Recorded
<1>4. ASSUME NEW q \in Process \ {p} PROVE StillSo(q)'
  <2> DEFINE x == proc[q].opening
  <2>1. CASE x = None \/ x \in clash
    BY <2>1 DEF StillSo
  <2>2. CASE x # None /\ x \notin clash
    <3>1. x \in Identity
      BY <2>2 DEF IdentityInv, Types
    <3>2. x # o
      BY <2>2 DEF IdentityInv, Recorded
    <3>3. alias'[x] = alias[x] /\ opened'[x] = opened[x] /\ Leads(x)' = Leads(x)
      BY <3>1, <3>2 DEF Leads
    <3>4. (x \in dirs' <=> x \in dirs) /\ (x \in written' <=> x \in written) /\ proc'[q] = proc[q]
      BY <3>2
    <3>5. StillSo(q)
      BY DEF IdentityInv
    <3> QED
      BY <3>3, <3>4, <3>5, <2>2 DEF StillSo
  <2> QED
    BY <2>1, <2>2
<1>5. ASSUME NEW x \in Identity \ {o} PROVE LedOnce(x)'
  <2>1. LedOnce(x)
    BY DEF IdentityInv
  <2>2. alias'[x] = alias[x] /\ opened'[x] = opened[x] /\ Leads(x)' = Leads(x)
    BY DEF Leads
  <2> QED
    BY <2>1, <2>2 DEF LedOnce
<1> QED
  BY <1>2, <1>3, <1>4, <1>5 DEF IdentityInv

\* What is known of the spelling a process is at.
LEMMA AtASpelling ==
  ASSUME IdentityInv, NEW p \in Process, proc[p].at # "idle"
  PROVE  /\ proc[p].opening \in Identity /\ proc[p].opening # None
         /\ Types /\ JoinsWritten(p) /\ StillSo(p)
         /\ FiledUnder(proc[p].opening) /\ LedOnce(proc[p].opening)
         /\ written \subseteq dirs
<1>1. proc[p].opening \in Identity
  BY DEF IdentityInv, Types
<1> QED
  BY <1>1, NoneIsNoReview DEF IdentityInv, Filed, FiledUnder

\* A step that reads: no file changes, and what the process is at stays.
LEMMA Reads ==
  ASSUME IdentityInv, NEW p \in Process, proc[p].at # "idle", NEW c,
         "at" \in DOMAIN c, DOMAIN c \subseteq Fields \ {"opening"}, Step(p, c),
         c["at"] \in Ats \ {"idle"}, UNCHANGED <<tip, Files, History>>,
         JoinsWritten(p)', StillSo(p)'
  PROVE  IdentityInv'
<1> DEFINE o == proc[p].opening
<1>1. /\ o \in Identity /\ o # None /\ Types /\ FiledUnder(o) /\ LedOnce(o) /\ written \subseteq dirs
  BY AtASpelling
<1>2. /\ DOMAIN proc' = Process
      /\ \A q \in Process \ {p} : proc'[q] = proc[q]
      /\ DOMAIN proc'[p] = Fields
      /\ \A x \in Fields : proc'[p][x] = IF x \in DOMAIN c THEN c[x] ELSE proc[p][x]
  BY <1>1, Stepped
<1>3. proc'[p].opening = o /\ proc'[p].at = c["at"]
  BY <1>2 DEF Fields
<1>4. tip' = tip /\ dirs' = dirs /\ written' = written /\ alias' = alias /\ opened' = opened /\ clash' = clash
  BY DEF Files, History
<1>5. Types'
  BY <1>1, <1>2, <1>3, <1>4 DEF Types
<1>6. FiledUnder(o)' /\ LedOnce(o)'
  BY <1>1, <1>3, <1>4 DEF FiledUnder, LedOnce, Leads
<1> HIDE DEF o
<1> QED
  BY <1>1, <1>2, <1>3, <1>4, <1>5, <1>6, OneSpelling DEF o

LEMMA ReadsAlias ==
  ASSUME IdentityInv, NEW p \in Process, ReadAlias(p)
  PROVE  IdentityInv'
<1> DEFINE o == proc[p].opening
<1>0. proc[p].at = "alias" /\ UNCHANGED <<tip, Files, History>>
  BY DEF ReadAlias, At
<1>1. /\ o \in Identity /\ o # None /\ Types /\ JoinsWritten(p) /\ StillSo(p)
      /\ FiledUnder(o) /\ LedOnce(o)
  BY <1>0, AtASpelling
<1>2. CASE alias[o] = None
  <2> DEFINE c == [at |-> "list"]
  <2>1. Step(p, c) /\ DOMAIN c = {"at"} /\ c["at"] = "list"
    BY <1>2 DEF ReadAlias
  <2> HIDE DEF c
  <2>2. /\ proc'[p].at = "list" /\ proc'[p].opening = o /\ proc'[p].seen = proc[p].seen
        /\ proc'[p].target = proc[p].target
    BY <1>1, <2>1, Stepped DEF Fields
  <2>3. JoinsWritten(p)' /\ StillSo(p)'
    BY <1>0, <1>1, <1>2, <2>2 DEF JoinsWritten, StillSo, Files, History
  <2> QED
    BY <1>0, <2>1, <2>3, Reads DEF Fields, Ats
<1>3. CASE alias[o] # None
  <2> DEFINE c == [at |-> "enter", target |-> alias[o]]
  <2>1. Step(p, c) /\ DOMAIN c = {"at", "target"} /\ c["at"] = "enter" /\ c["target"] = alias[o]
    BY <1>3 DEF ReadAlias
  <2> HIDE DEF c
  <2>2. /\ proc'[p].at = "enter" /\ proc'[p].opening = o /\ proc'[p].seen = proc[p].seen
        /\ proc'[p].target = alias[o]
    BY <1>1, <2>1, Stepped DEF Fields
  <2>3. JoinsWritten(p)' /\ StillSo(p)'
    BY <1>0, <1>1, <1>3, <2>2 DEF JoinsWritten, StillSo, Leads, FiledUnder, Files, History
  <2> QED
    BY <1>0, <2>1, <2>3, Reads DEF Fields, Ats
<1> QED
  BY <1>2, <1>3

LEMMA Lists ==
  ASSUME IdentityInv, NEW p \in Process, List(p)
  PROVE  IdentityInv'
<1> DEFINE o == proc[p].opening
           known == o \in Listed
           named == o.kind # "range"
           ours == o.head = Worktree \/ (known /\ (named \/ o \in written))
<1>0. proc[p].at = "list" /\ UNCHANGED <<tip, Files, History>>
  BY DEF List, At
<1>1. /\ o \in Identity /\ o # None /\ Types /\ JoinsWritten(p) /\ StillSo(p)
      /\ FiledUnder(o) /\ LedOnce(o)
  BY <1>0, AtASpelling
<1>2. ASSUME NEW at \in {"enter", "make"}, Step(p, [at |-> at, target |-> o]) PROVE IdentityInv'
  <2> DEFINE step == [at |-> at, target |-> o]
  <2>0. Step(p, step)
    BY <1>2
  <2>1. DOMAIN step = {"at", "target"} /\ step["at"] = at /\ step["target"] = o
    OBVIOUS
  <2> HIDE DEF step
  <2>2. /\ proc'[p].at = at /\ proc'[p].opening = o /\ proc'[p].seen = proc[p].seen
        /\ proc'[p].target = o
    BY <1>1, <2>0, <2>1, Stepped DEF Fields
  <2>3. JoinsWritten(p)' /\ StillSo(p)'
    BY <1>0, <1>1, <2>2 DEF JoinsWritten, StillSo, Leads, Files, History
  <2> QED
    BY <1>0, <2>0, <2>1, <2>3, Reads DEF Fields, Ats
<1>3. ASSUME Step(p, [at |-> "head", seen |-> Listed \cap written]), o.kind = "range", o \notin Listed
      PROVE  IdentityInv'
  <2> DEFINE step == [at |-> "head", seen |-> Listed \cap written]
  <2>0. Step(p, step)
    BY <1>3
  <2>1. DOMAIN step = {"at", "seen"} /\ step["at"] = "head" /\ step["seen"] = Listed \cap written
    OBVIOUS
  <2> HIDE DEF step
  <2>2. /\ proc'[p].at = "head" /\ proc'[p].opening = o /\ proc'[p].seen = Listed \cap written
    BY <1>1, <2>0, <2>1, Stepped DEF Fields
  <2>3. JoinsWritten(p)' /\ StillSo(p)'
    BY <1>0, <1>1, <1>3, <2>2 DEF JoinsWritten, StillSo, Listed, Files, History
  <2> QED
    BY <1>0, <2>0, <2>1, <2>3, Reads DEF Fields, Ats
<1>4. CASE ours
  <2>1. Step(p, [at |-> "enter", target |-> o])
    BY <1>4 DEF List
  <2> QED BY <1>2, <2>1
<1>5. CASE ~ours /\ (named \/ known)
  <2>1. Step(p, [at |-> "make", target |-> o])
    BY <1>5 DEF List
  <2> QED BY <1>2, <2>1
<1>6. CASE ~ours /\ ~(named \/ known)
  <2>1. Step(p, [at |-> "head", seen |-> Listed \cap written])
    BY <1>6 DEF List
  <2> QED BY <1>3, <1>6, <2>1
<1> QED
  BY <1>4, <1>5, <1>6

LEMMA ReadsHead ==
  ASSUME IdentityInv, NEW p \in Process, ReadHead(p)
  PROVE  IdentityInv'
<1> DEFINE o == proc[p].opening
           h == CommitOf(o.head)
<1>0. proc[p].at = "head" /\ UNCHANGED <<tip, Files, History>>
  BY DEF ReadHead, At
<1>1. /\ o \in Identity /\ o # None /\ Types /\ JoinsWritten(p) /\ StillSo(p)
      /\ FiledUnder(o) /\ LedOnce(o)
  BY <1>0, AtASpelling
<1>2. CASE h = Gone
  <2> DEFINE c == [at |-> "make", target |-> o]
  <2>1. Step(p, c) /\ DOMAIN c = {"at", "target"} /\ c["at"] = "make" /\ c["target"] = o
    BY <1>2 DEF ReadHead
  <2> HIDE DEF c
  <2>2. /\ proc'[p].at = "make" /\ proc'[p].opening = o /\ proc'[p].seen = proc[p].seen
        /\ proc'[p].target = o
    BY <1>1, <2>1, Stepped DEF Fields
  <2>3. JoinsWritten(p)' /\ StillSo(p)'
    BY <1>0, <1>1, <2>2 DEF JoinsWritten, StillSo, Files, History
  <2> QED
    BY <1>0, <2>1, <2>3, Reads DEF Fields, Ats
<1>3. CASE h # Gone
  <2> DEFINE c == [at |-> "place", head |-> h]
  <2>1. Step(p, c) /\ DOMAIN c = {"at", "head"} /\ c["at"] = "place"
    BY <1>3 DEF ReadHead
  <2> HIDE DEF c
  <2>2. /\ proc'[p].at = "place" /\ proc'[p].opening = o /\ proc'[p].seen = proc[p].seen
    BY <1>1, <2>1, Stepped DEF Fields
  <2>3. JoinsWritten(p)' /\ StillSo(p)'
    BY <1>0, <1>1, <2>2 DEF JoinsWritten, StillSo, Files, History
  <2> QED
    BY <1>0, <2>1, <2>3, Reads DEF Fields, Ats
<1> QED
  BY <1>2, <1>3

\* Those a process may join are finitely many of those it saw.
LEMMA CandidatesWereSeen ==
  ASSUME IdentityInv, NEW p \in Process
  PROVE  /\ IsFiniteSet(Candidates(proc[p]))
         /\ \A x \in Candidates(proc[p]) : x.id \in proc[p].seen
<1> DEFINE C == Candidates(proc[p])
           Fit == {o \in proc[p].seen : /\ o.kind = "range" /\ o.base = proc[p].opening.base
                                        /\ o.head # Worktree /\ CommitOf(o.head) # Gone}
           f == [o \in Fit |-> [id |-> o, head |-> CommitOf(o.head)]]
<1>1. C = {[id |-> o, head |-> CommitOf(o.head)] : o \in Fit}
  BY DEF Candidates
<1>2. Fit \in SUBSET dirs /\ IsFiniteSet(dirs)
  BY DEF IdentityInv, Types, Filed, JoinsWritten
<1>3. IsFiniteSet(Fit)
  <2> HIDE DEF Fit
  <2> QED BY <1>2, FS_Subset
<1>4. f \in Surjection(Fit, C)
  BY <1>1 DEF Surjection
<1>5. IsFiniteSet(C)
  <2> HIDE DEF C, f, Fit
  <2> QED BY <1>3, <1>4, FS_Surjection
<1> QED
  BY <1>1, <1>5

LEMMA Places ==
  ASSUME IdentityInv, NEW p \in Process, Place(p)
  PROVE  IdentityInv'
<1> DEFINE r == proc[p]
           o == proc[p].opening
           C == Candidates(r)
           at == {x \in C : x.head = r.head}
           before == {x \in C : IsAncestor(x.head, r.head)}
           after == {x \in C : IsAncestor(r.head, x.head)}
<1>0. proc[p].at = "place" /\ UNCHANGED <<tip, Files, History>>
  BY DEF Place, At
<1>1. /\ o \in Identity /\ o # None /\ Types /\ JoinsWritten(p) /\ StillSo(p)
      /\ FiledUnder(o) /\ LedOnce(o)
  BY <1>0, AtASpelling
<1>2. PICK exact \in SetToSeqs(at), behind \in SetToSeqs(before), ahead \in SetToSeqs(after) :
        Step(p, [at |-> "make", seen |-> {}, placed |-> C,
                 target |-> IF Adopted(exact, behind, ahead) = None THEN o
                            ELSE Adopted(exact, behind, ahead)])
  BY DEF Place
<1>3. IsFiniteSet(C) /\ \A x \in C : x.id \in written
  BY <1>1, CandidatesWereSeen DEF JoinsWritten
<1> HIDE DEF C
<1>4. IsFiniteSet(at) /\ IsFiniteSet(before) /\ IsFiniteSet(after)
  <2>1. at \in SUBSET C /\ before \in SUBSET C /\ after \in SUBSET C
    OBVIOUS
  <2> HIDE DEF at, before, after
  <2> QED BY <1>3, <2>1, FS_Subset
<1>5. /\ Extreme(behind, "newest") \in {None} \cup {x.id : x \in before}
      /\ Extreme(ahead, "oldest") \in {None} \cup {x.id : x \in after}
  <2> HIDE DEF at, before, after
  <2> QED BY <1>4, JoinedWasPlaced
<1>6. exact # <<>> => exact[1] \in at
  <2> HIDE DEF at
  <2>1. /\ Cardinality(at) \in Nat /\ DOMAIN exact = 1..Cardinality(at)
        /\ Len(exact) = Cardinality(at) /\ (exact = <<>> <=> at = {})
        /\ \A i \in DOMAIN exact : exact[i] \in at
    BY <1>4, AnOrder
  <2>2. Cardinality(at) = 0 <=> at = {}
    BY <1>4, FS_EmptySet
  <2>3. exact # <<>> => 1 \in DOMAIN exact
    BY <2>1, <2>2
  <2> QED BY <2>1, <2>3
<1> DEFINE a == Adopted(exact, behind, ahead)
<1>7. a \in {None} \cup {x.id : x \in C}
  BY <1>5, <1>6 DEF Adopted
<1>8. (IF a = None THEN o ELSE a) \in {o} \cup written
  BY <1>3, <1>7
<1> DEFINE t == IF a = None THEN o ELSE a
           c == [at |-> "make", seen |-> {}, placed |-> C, target |-> t]
<1>9. /\ Step(p, c) /\ DOMAIN c = {"at", "seen", "placed", "target"}
      /\ c["at"] = "make" /\ c["seen"] = {} /\ c["target"] = t
  BY <1>2
<1> HIDE DEF c, t, a
<1>10. proc'[p].at = "make" /\ proc'[p].opening = o /\ proc'[p].seen = {} /\ proc'[p].target = t
  BY <1>1, <1>9, Stepped DEF Fields
<1>11. t \in {o} \cup written
  BY <1>8 DEF t
<1>12. JoinsWritten(p)' /\ StillSo(p)'
  BY <1>0, <1>1, <1>10, <1>11 DEF JoinsWritten, StillSo, Files, History
<1> QED
  BY <1>0, <1>9, <1>12, Reads DEF Fields, Ats

LEMMA MakesDir ==
  ASSUME IdentityInv, NEW p \in Process, MakeDir(p)
  PROVE  IdentityInv'
<1> DEFINE o == proc[p].opening
           c == [at |-> "write", head |-> None, placed |-> {}]
<1>0. /\ proc[p].at = "make" /\ Step(p, c) /\ dirs' = dirs \cup {o}
      /\ tip' = tip /\ written' = written /\ alias' = alias /\ opened' = opened /\ clash' = clash
  BY DEF MakeDir, At, History
<1>1. /\ o \in Identity /\ o # None /\ Types /\ JoinsWritten(p) /\ StillSo(p)
      /\ FiledUnder(o) /\ LedOnce(o) /\ written \subseteq dirs
  BY <1>0, AtASpelling
<1>2. DOMAIN c = {"at", "head", "placed"} /\ c["at"] = "write"
  OBVIOUS
<1> HIDE DEF c
<1>3. /\ DOMAIN proc' = Process /\ DOMAIN proc'[p] = Fields
      /\ \A q \in Process \ {p} : proc'[q] = proc[q]
      /\ proc'[p].at = "write" /\ proc'[p].opening = o
      /\ proc'[p].seen = proc[p].seen /\ proc'[p].target = proc[p].target
  BY <1>0, <1>1, <1>2, Stepped DEF Fields
<1>4. Types'
  <2>1. IsFiniteSet(dirs')
    BY <1>0, <1>1, FS_AddElement DEF Types
  <2> QED
    BY <2>1, <1>0, <1>1, <1>3 DEF Types, Ats
<1>5. FiledUnder(o)' /\ LedOnce(o)'
  BY <1>0, <1>1, <1>3 DEF FiledUnder, LedOnce, Leads
<1>6. JoinsWritten(p)'
  BY <1>0, <1>1, <1>3 DEF JoinsWritten
<1>7. StillSo(p)'
  BY <1>0, <1>1, <1>3 DEF StillSo, LedOnce
<1> HIDE DEF o
<1> QED
  BY <1>0, <1>1, <1>3, <1>4, <1>5, <1>6, <1>7, OneSpelling DEF o

LEMMA Writes ==
  ASSUME IdentityInv, NEW p \in Process, Write(p)
  PROVE  IdentityInv'
<1> DEFINE o == proc[p].opening
           t == proc[p].target
           c == [at |-> "enter"]
<1>0. /\ proc[p].at = "write" /\ Step(p, c)
      /\ tip' = tip /\ dirs' = dirs /\ opened' = opened /\ clash' = clash
  BY DEF Write, At, History
<1>1. /\ o \in Identity /\ o # None /\ Types /\ JoinsWritten(p) /\ StillSo(p)
      /\ FiledUnder(o) /\ LedOnce(o) /\ written \subseteq dirs
  BY <1>0, AtASpelling
<1>2. DOMAIN c = {"at"} /\ c["at"] = "enter"
  OBVIOUS
<1> HIDE DEF c
<1>3. /\ DOMAIN proc' = Process /\ DOMAIN proc'[p] = Fields
      /\ \A q \in Process \ {p} : proc'[q] = proc[q]
      /\ proc'[p].at = "enter" /\ proc'[p].opening = o
      /\ proc'[p].seen = proc[p].seen /\ proc'[p].target = t
  BY <1>0, <1>1, <1>2, Stepped DEF Fields
<1>4. o \in dirs /\ t \in {o} \cup written /\ written \subseteq Identity
  BY <1>0, <1>1 DEF JoinsWritten, Types
<1>5. CASE t = o
  <2>1. written' = written \cup {o} /\ alias' = alias
    BY <1>5 DEF Write
  <2>2. Types'
    BY <2>1, <1>0, <1>1, <1>3 DEF Types, Ats
  <2>3. FiledUnder(o)' /\ LedOnce(o)'
    BY <2>1, <1>0, <1>1, <1>3, <1>5 DEF FiledUnder, LedOnce, Leads, StillSo
  <2>4. JoinsWritten(p)' /\ StillSo(p)'
    BY <2>1, <1>0, <1>1, <1>3, <1>5 DEF JoinsWritten, StillSo, Leads
  <2>5. written' \subseteq dirs'
    BY <2>1, <1>0, <1>1, <1>4
  <2> HIDE DEF o, t
  <2> QED
    BY <2>1, <2>2, <2>3, <2>4, <2>5, <1>0, <1>1, <1>3, OneSpelling DEF o
<1>6. CASE t # o
  <2>1. written' = written /\ alias' = [alias EXCEPT ![o] = t]
    BY <1>6 DEF Write
  <2>2. t \in written /\ t \in Identity /\ t # None /\ o.kind = "range"
    BY <1>0, <1>1, <1>4, <1>6, NoneIsNoReview DEF JoinsWritten
  <2>3. alias'[o] = t /\ \A x \in Identity \ {o} : alias'[x] = alias[x]
    BY <2>1, <1>1 DEF Types
  <2>4. Types'
    BY <2>1, <2>2, <1>0, <1>1, <1>3 DEF Types, Ats
  <2>5. FiledUnder(o)' /\ LedOnce(o)'
    BY <2>1, <2>2, <2>3, <1>0, <1>1, <1>3, <1>4, <1>6 DEF FiledUnder, LedOnce, Leads, StillSo
  <2>6. JoinsWritten(p)' /\ StillSo(p)'
    BY <2>1, <2>2, <2>3, <1>0, <1>1, <1>3 DEF JoinsWritten, StillSo, Leads
  <2> HIDE DEF o, t
  <2> QED
    BY <2>1, <2>3, <2>4, <2>5, <2>6, <1>0, <1>1, <1>3, OneSpelling DEF o
<1> QED
  BY <1>5, <1>6

\* A process that is done, or dies, is at no spelling.
LEMMA IdleAgain ==
  ASSUME Types, NEW p \in Process, proc' = [proc EXCEPT ![p] = Idle]
  PROVE  /\ DOMAIN proc' = Process /\ DOMAIN proc'[p] = Fields
         /\ \A q \in Process \ {p} : proc'[q] = proc[q]
         /\ proc'[p].at = "idle" /\ proc'[p].opening = None /\ proc'[p].seen = {}
         /\ JoinsWritten(p)' /\ StillSo(p)'
<1>1. DOMAIN proc = Process
  BY DEF Types
<1>2. /\ DOMAIN proc' = Process /\ proc'[p] = Idle
      /\ \A q \in Process \ {p} : proc'[q] = proc[q]
  BY <1>1
<1>3. DOMAIN Idle = Fields /\ Idle.at = "idle" /\ Idle.opening = None /\ Idle.seen = {}
  BY DEF Idle, Fields
<1> QED
  BY <1>2, <1>3 DEF JoinsWritten, StillSo

LEMMA Enters ==
  ASSUME IdentityInv, NEW p \in Process, Enter(p)
  PROVE  IdentityInv'
<1> PICK o : o = proc[p].opening
  OBVIOUS
<1> PICK t : t = proc[p].target
  OBVIOUS
<1>0. /\ proc[p].at = "enter" /\ proc' = [proc EXCEPT ![p] = Idle]
      /\ dirs' = dirs \cup {t} /\ opened' = [opened EXCEPT ![o] = @ \cup {t}]
      /\ tip' = tip /\ written' = written /\ alias' = alias /\ clash' = clash
  BY DEF Enter, At
<1>1. /\ o \in Identity /\ o # None /\ Types /\ JoinsWritten(p) /\ StillSo(p)
      /\ FiledUnder(o) /\ LedOnce(o) /\ written \subseteq dirs
  BY <1>0, AtASpelling
<1>2. /\ DOMAIN proc' = Process /\ DOMAIN proc'[p] = Fields
      /\ \A q \in Process \ {p} : proc'[q] = proc[q]
      /\ proc'[p].at = "idle" /\ proc'[p].opening = None
      /\ JoinsWritten(p)' /\ StillSo(p)'
  BY <1>0, <1>1, IdleAgain
<1>3. t \in {o} \cup written /\ t \in Identity
  BY <1>0, <1>1 DEF JoinsWritten, Types
<1>4. opened'[o] = opened[o] \cup {t} /\ \A x \in Identity \ {o} : opened'[x] = opened[x]
  BY <1>0, <1>1 DEF Types
<1>5. Types'
  <2>1. IsFiniteSet(dirs')
    BY <1>0, <1>1, FS_AddElement DEF Types
  <2>2. opened' \in [Identity -> SUBSET Identity]
    BY <1>0, <1>1, <1>3 DEF Types
  <2> QED
    BY <2>1, <2>2, <1>0, <1>1, <1>2, <1>3 DEF Types, Ats
<1>6. FiledUnder(o)'
  BY <1>0, <1>1, <1>3, <1>4 DEF FiledUnder
<1>7. LedOnce(o)'
  <2> SUFFICES ASSUME o \notin clash PROVE LedOnce(o)'
    BY <1>0 DEF LedOnce
  <2>1. t = Leads(o) /\ Leads(o)' = Leads(o)
    BY <1>0, <1>1 DEF StillSo, Leads
  <2>2. opened'[o] = {Leads(o)}
    BY <2>1, <1>1, <1>4 DEF LedOnce
  <2>3. o \in dirs'
    BY <2>1, <1>0, <1>1 DEF Leads, FiledUnder
  <2> QED
    BY <2>1, <2>2, <2>3, <1>0, <1>1 DEF LedOnce
<1>8. dirs' \subseteq dirs \cup {o}
  BY <1>0, <1>1, <1>3
<1> QED
  BY <1>0, <1>1, <1>2, <1>4, <1>5, <1>6, <1>7, <1>8, OneSpelling

LEMMA Crashes ==
  ASSUME IdentityInv, NEW p \in Process, Crash(p)
  PROVE  IdentityInv'
<1> PICK o : o = proc[p].opening
  OBVIOUS
<1>0. /\ proc[p].at # "idle" /\ proc' = [proc EXCEPT ![p] = Idle]
      /\ dirs' = dirs /\ opened' = opened
      /\ tip' = tip /\ written' = written /\ alias' = alias /\ clash' = clash
  BY DEF Crash, At, Files, History
<1>1. /\ o \in Identity /\ Types /\ FiledUnder(o) /\ LedOnce(o) /\ written \subseteq dirs
  BY <1>0, AtASpelling
<1>2. /\ DOMAIN proc' = Process /\ DOMAIN proc'[p] = Fields
      /\ \A q \in Process \ {p} : proc'[q] = proc[q]
      /\ proc'[p].at = "idle" /\ proc'[p].opening = None
      /\ JoinsWritten(p)' /\ StillSo(p)'
  BY <1>0, <1>1, IdleAgain
<1>3. Types'
  BY <1>0, <1>1, <1>2 DEF Types, Ats
<1>4. FiledUnder(o)' /\ LedOnce(o)'
  BY <1>0, <1>1 DEF FiledUnder, LedOnce, Leads
<1> QED
  BY <1>0, <1>1, <1>2, <1>3, <1>4, OneSpelling

\* A spelling another process is at is on record from here on.
LEMMA Begins ==
  ASSUME IdentityInv, NEW p \in Process, NEW s \in Source, Begin(p, s)
  PROVE  IdentityInv'
<1>0. /\ proc[p].at = "idle" /\ tip' = tip /\ dirs' = dirs /\ written' = written
      /\ alias' = alias /\ opened' = opened
      /\ Gone \notin {CommitOf(rev) : rev \in Ends(s)}
  BY DEF Begin, At, Files
<1>1. PICK base \in IF Given(s) THEN {None} ELSE Bases(s) :
        LET o == IdentityOf(s, base) IN
        /\ Step(p, [at |-> IF o.kind = "range" THEN "alias" ELSE "list", opening |-> o])
        /\ clash' = IF \E q \in Process : proc[q].opening = o THEN clash \cup {o} ELSE clash
  BY DEF Begin
<1> DEFINE o == IdentityOf(s, base)
           at == IF o.kind = "range" THEN "alias" ELSE "list"
           c == [at |-> at, opening |-> o]
<1>2. Types
  BY DEF IdentityInv
<1>3. o \in Identity
  BY <1>0, <1>2, OpenedAsAReview DEF Types
<1>4. DOMAIN c = {"at", "opening"} /\ c["at"] = at /\ c["opening"] = o /\ Step(p, c)
  BY <1>1
<1>5. clash \subseteq clash' /\ ((\E q \in Process : proc[q].opening = o) => o \in clash')
  BY <1>1
<1>6. at \in {"alias", "list"} /\ (at = "list" => o.kind # "range")
  OBVIOUS
<1> HIDE DEF c, at, o
<1>7. /\ DOMAIN proc' = Process /\ DOMAIN proc'[p] = Fields
      /\ \A q \in Process \ {p} : proc'[q] = proc[q]
      /\ proc'[p].at = at /\ proc'[p].opening = o /\ proc'[p].seen = proc[p].seen
  BY <1>2, <1>4, Stepped DEF Fields
<1>8. Types'
  BY <1>0, <1>2, <1>3, <1>6, <1>7 DEF Types, Ats
<1>9. Filed'
  <2>1. JoinsWritten(p)'
    BY <1>0, <1>6, <1>7 DEF IdentityInv, Filed, JoinsWritten
  <2>2. \A q \in Process \ {p} : JoinsWritten(q)'
    BY <1>0, <1>7 DEF IdentityInv, Filed, JoinsWritten
  <2>3. \A q \in Process : JoinsWritten(q)'
    BY <2>1, <2>2
  <2> QED
    BY <2>3, <1>0 DEF IdentityInv, Filed
<1>10. Recorded'
  BY <1>5, <1>7 DEF IdentityInv, Recorded
<1>11. ASSUME NEW q \in Process PROVE StillSo(q)'
  <2>1. CASE q = p
    BY <2>1, <1>0, <1>3, <1>6, <1>7 DEF IdentityInv, Filed, StillSo
  <2>2. CASE q # p
    <3>1. StillSo(q) /\ proc'[q] = proc[q]
      BY <2>2, <1>7 DEF IdentityInv
    <3> QED
      BY <3>1, <1>0, <1>5 DEF StillSo, Leads
  <2> QED
    BY <2>1, <2>2
<1>12. ASSUME NEW x \in Identity PROVE LedOnce(x)'
  <2>1. LedOnce(x)
    BY DEF IdentityInv
  <2> QED
    BY <2>1, <1>0, <1>5 DEF LedOnce, Leads
<1> QED
  BY <1>8, <1>9, <1>10, <1>11, <1>12 DEF IdentityInv

LEMMA Stays ==
  ASSUME IdentityInv, tip' \in [Branch -> Commit \cup {Gone}], UNCHANGED <<Files, proc, History>>
  PROVE  IdentityInv'
<1>1. /\ dirs' = dirs /\ written' = written /\ alias' = alias /\ proc' = proc
      /\ opened' = opened /\ clash' = clash
  BY DEF Files, History
<1> QED
  BY <1>1 DEF IdentityInv, Types, Filed, JoinsWritten, Recorded, StillSo, LedOnce, Leads

LEMMA IdentityNext == IdentityInv /\ [Next]_vars => IdentityInv'
<1> SUFFICES ASSUME IdentityInv, [Next]_vars PROVE IdentityInv'
  OBVIOUS
<1>1. ASSUME NEW p \in Process, Open(p) PROVE IdentityInv'
  BY <1>1, Begins, ReadsAlias, Lists, ReadsHead, Places, MakesDir, Writes, Enters, Crashes DEF Open
<1>2. ASSUME NEW b \in Branch, NEW c \in Commit \cup {Gone}, Move(b, c) PROVE IdentityInv'
  <2>1. tip' \in [Branch -> Commit \cup {Gone}]
    BY <1>2 DEF Move, IdentityInv, Types
  <2> QED
    BY <1>2, <2>1, Stays DEF Move
<1>3. CASE UNCHANGED vars
  <2>1. tip' \in [Branch -> Commit \cup {Gone}]
    BY <1>3 DEF vars, IdentityInv, Types
  <2>2. UNCHANGED <<Files, proc, History>>
    BY <1>3 DEF vars, Files, History
  <2> QED
    BY <2>1, <2>2, Stays
<1> QED
  BY <1>1, <1>2, <1>3 DEF Next

LEMMA IdentityInvHolds == Spec => []IdentityInv
  BY IdentityInit, IdentityNext, PTL DEF Spec

\* What is typed again opens the review it opened before, for any history, any number
\* of processes and whatever they die at, unless two are at that spelling at once.
THEOREM OpensTheSameReview == Spec => []SameReviewAgain
<1>1. IdentityInv => SameReviewAgain
  <2> SUFFICES ASSUME IdentityInv, NEW o \in Identity \ clash PROVE Cardinality(opened[o]) <= 1
    BY DEF SameReviewAgain
  <2>1. opened[o] = {} \/ opened[o] = {Leads(o)}
    BY DEF IdentityInv, LedOnce
  <2>2. Cardinality({}) = 0 /\ Cardinality({Leads(o)}) = 1
    BY FS_EmptySet, FS_Singleton
  <2> QED
    BY <2>1, <2>2
<1> QED
  BY <1>1, IdentityInvHolds, PTL

\* A review that holds progress is reached by its own first name: nothing redirects it.
THEOREM ProgressIsReachable == Spec => []ReachedByItsName
<1>1. IdentityInv => ReachedByItsName
  <2> SUFFICES ASSUME IdentityInv, NEW o \in Identity, NEW r \in opened[o] \ clash
               PROVE  alias[r] = None /\ opened[r] \subseteq {r}
    BY DEF ReachedByItsName
  <2>1. r \in Identity /\ (r = o \/ r \in written)
    BY DEF IdentityInv, Types, Filed
  <2>2. LedOnce(r) /\ alias[r] # r
    BY <2>1, NoneIsNoReview DEF IdentityInv, Filed, Types
  <2>3. alias[r] = None
    <3>1. CASE r \in written
      BY <3>1, <2>2 DEF LedOnce
    <3>2. CASE r = o
      BY <3>2, <2>2 DEF LedOnce, Leads
    <3> QED
      BY <3>1, <3>2, <2>1
  <2> QED
    BY <2>2, <2>3 DEF LedOnce, Leads
<1> QED
  BY <1>1, IdentityInvHolds, PTL

-----------------------------------------------------------------------------
(* The nearest review *)

Nearest(r) ==
  LET behind == {x \in r.placed : IsAncestor(x.head, r.head)}
      ahead  == {x \in r.placed : IsAncestor(r.head, x.head)}
      newest == {x \in behind : \A y \in behind : IsAncestor(y.head, x.head)}
      oldest == {x \in ahead : \A y \in ahead : IsAncestor(x.head, y.head)}
      joins  == IF newest # {} THEN newest ELSE oldest
  IN  r.target \in IF joins = {} THEN {r.opening} ELSE {x.id : x \in joins}

\* A process has a head only from where it places the reviews until it has a directory.
HeadIsRead(r) ==
  /\ r.at \in {"idle", "alias", "list", "head"} => r.head = None
  /\ r.at \in {"head", "place"} => r.opening.head # Worktree
  /\ r.at = "place" => r.head \in Commit
  /\ r.at = "make" /\ r.head # None => Nearest(r)
NearestInv == IdentityInv /\ \A p \in Process : HeadIsRead(proc[p])

\* The head of a range that is not uncommitted work is a commit, or gone.
LEMMA HeadIsACommit ==
  ASSUME Types, NEW o \in Identity, o.kind = "range", o.head # Worktree, CommitOf(o.head) # Gone
  PROVE  CommitOf(o.head) \in Commit
<1>1. PICK s \in Source : \E base : o = IdentityOf(s, base)
  BY DEF Identity
<1>2. ~Given(s) /\ s.form # "worktree" /\ o.head = s.head
  BY <1>1 DEF IdentityOf, Given
<1>3. s.head \in Commit \cup Branch
  BY <1>2, IdentityAssumption DEF Given
<1> QED
  BY <1>2, <1>3 DEF CommitOf, Types

\* What is adopted is the nearest, and nothing only where nothing is.
LEMMA AdoptsTheNearest ==
  ASSUME IdentityInv, NEW p \in Process, proc[p].at = "place", proc[p].head \in Commit,
         NEW exact \in SetToSeqs({x \in Candidates(proc[p]) : x.head = proc[p].head}),
         NEW behind \in SetToSeqs({x \in Candidates(proc[p]) : IsAncestor(x.head, proc[p].head)}),
         NEW ahead \in SetToSeqs({x \in Candidates(proc[p]) : IsAncestor(proc[p].head, x.head)}),
         NEW r, r.placed = Candidates(proc[p]), r.head = proc[p].head,
         r.opening = proc[p].opening,
         r.target = IF Adopted(exact, behind, ahead) = None THEN proc[p].opening
                    ELSE Adopted(exact, behind, ahead)
  PROVE  Nearest(r)
<1> DEFINE C == Candidates(proc[p])
           h == proc[p].head
           at == {x \in C : x.head = h}
           before == {x \in C : IsAncestor(x.head, h)}
           after == {x \in C : IsAncestor(h, x.head)}
           newest == Furthest(before, "newest")
           oldest == Furthest(after, "oldest")
           a == Adopted(exact, behind, ahead)
<1>1. IsFiniteSet(C) /\ \A x \in C : x.id \in Identity /\ x.id # None /\ x.head \in Commit
  <2>1. /\ proc[p].seen \subseteq written /\ written \subseteq dirs /\ dirs \subseteq Identity /\ Types
    BY DEF IdentityInv, Filed, JoinsWritten, Types
  <2>2. IsFiniteSet(C) /\ \A x \in C : x.id \in proc[p].seen
    BY CandidatesWereSeen
  <2>3. \A x \in C : /\ x.id.kind = "range" /\ x.id.head # Worktree
                     /\ x.head = CommitOf(x.id.head) /\ CommitOf(x.id.head) # Gone
    BY DEF Candidates
  <2> HIDE DEF C
  <2> QED
    BY <2>1, <2>2, <2>3, HeadIsACommit, NoneIsNoReview
<1>2. Nearest(r) <=>
        r.target \in IF newest # {} THEN {x.id : x \in newest}
                     ELSE IF oldest # {} THEN {x.id : x \in oldest} ELSE {r.opening}
  BY DEF Nearest, Furthest, Further
<1> HIDE DEF C
<1>3. IsFiniteSet(at) /\ IsFiniteSet(before) /\ IsFiniteSet(after)
  <2>1. at \in SUBSET C /\ before \in SUBSET C /\ after \in SUBSET C
    OBVIOUS
  <2> HIDE DEF at, before, after
  <2> QED BY <1>1, <2>1, FS_Subset
<1>4. /\ \A x \in before : x.head \in Commit /\ x.id # None
      /\ \A x \in after : x.head \in Commit /\ x.id # None
  BY <1>1
<1>5. behind \in SetToSeqs(before) /\ ahead \in SetToSeqs(after) /\ exact \in SetToSeqs(at)
  BY DEF C
<1>6. IF newest = {} THEN Extreme(behind, "newest") = None
      ELSE Extreme(behind, "newest") \in {x.id : x \in newest}
  <2> HIDE DEF before
  <2> QED BY <1>3, <1>4, <1>5, ExtremeIsFurthest
<1>7. IF oldest = {} THEN Extreme(ahead, "oldest") = None
      ELSE Extreme(ahead, "oldest") \in {x.id : x \in oldest}
  <2> HIDE DEF after
  <2> QED BY <1>3, <1>4, <1>5, ExtremeIsFurthest
<1>8. /\ \A x \in newest : x.id # None
      /\ \A x \in oldest : x.id # None
  BY <1>4 DEF Furthest
<1>9. CASE exact # <<>>
  <2>1. exact[1] \in at
    <3> HIDE DEF at
    <3>1. /\ Cardinality(at) \in Nat /\ DOMAIN exact = 1..Cardinality(at)
          /\ (exact = <<>> <=> at = {}) /\ \A i \in DOMAIN exact : exact[i] \in at
      BY <1>3, <1>5, AnOrder
    <3>2. Cardinality(at) = 0 <=> at = {}
      BY <1>3, FS_EmptySet
    <3>3. 1 \in DOMAIN exact
      BY <1>9, <3>1, <3>2
    <3> QED BY <3>1, <3>3
  <2>2. exact[1] \in newest
    BY <2>1, <1>1, AncestryIsAnOrder DEF Furthest, Further
  <2>3. a = exact[1].id
    BY <1>9 DEF Adopted
  <2>4. a # None /\ a \in {x.id : x \in newest}
    <3> HIDE DEF newest, a
    <3> QED BY <1>8, <2>2, <2>3
  <2> HIDE DEF newest, oldest, a
  <2> QED
    BY <1>2, <2>4, <2>2 DEF a
<1>10. CASE exact = <<>>
  <2>1. a = IF Extreme(behind, "newest") # None THEN Extreme(behind, "newest")
            ELSE Extreme(ahead, "oldest")
    BY <1>10 DEF Adopted
  <2>2. CASE newest # {}
    <3>1. a \in {x.id : x \in newest} /\ a # None
      <4> HIDE DEF newest, a
      <4> QED BY <2>1, <2>2, <1>6, <1>8
    <3> HIDE DEF newest, oldest
    <3> QED BY <1>2, <2>2, <3>1
  <2>3. CASE newest = {} /\ oldest # {}
    <3>1. a \in {x.id : x \in oldest} /\ a # None
      <4> HIDE DEF newest, oldest, a
      <4> QED BY <2>1, <2>3, <1>6, <1>7, <1>8
    <3> HIDE DEF newest, oldest
    <3> QED BY <1>2, <2>3, <3>1
  <2>4. CASE newest = {} /\ oldest = {}
    <3>1. a = None
      <4> HIDE DEF newest, oldest, a
      <4> QED BY <2>1, <2>4, <1>6, <1>7
    <3> HIDE DEF newest, oldest
    <3> QED BY <1>2, <2>4, <3>1
  <2> QED
    BY <2>2, <2>3, <2>4
<1> QED
  BY <1>9, <1>10

\* A step keeps the head it does not read.
LEMMA HeadStays ==
  ASSUME NearestInv, NEW p \in Process, NEW c, DOMAIN c \subseteq Fields, Step(p, c),
         "at" \in DOMAIN c, "head" \notin DOMAIN c,
         proc[p].at \in {"idle", "alias", "list", "head", "write"},
         c["at"] \in {"alias", "list", "head", "make", "enter"},
         proc[p].at = "write" => c["at"] = "enter",
         c["at"] = "head" => proc'[p].opening.head # Worktree
  PROVE  \A q \in Process : HeadIsRead(proc'[q])
<1>1. /\ \A q \in Process \ {p} : proc'[q] = proc[q]
      /\ proc'[p].at = c["at"] /\ proc'[p].head = proc[p].head
  BY Stepped DEF NearestInv, IdentityInv, Fields
<1>2. HeadIsRead(proc'[p])
  BY <1>1 DEF NearestInv, HeadIsRead
<1> QED
  BY <1>1, <1>2 DEF NearestInv

LEMMA HeadNext ==
  ASSUME NearestInv, [Next]_vars
  PROVE  \A q \in Process : HeadIsRead(proc'[q])
<1>0. Types /\ IdentityInv
  BY DEF NearestInv, IdentityInv
<1>1. ASSUME NEW p \in Process, NEW s \in Source, Begin(p, s)
      PROVE  \A q \in Process : HeadIsRead(proc'[q])
  <2>1. PICK o : Step(p, [at |-> IF o.kind = "range" THEN "alias" ELSE "list", opening |-> o])
    BY <1>1 DEF Begin
  <2> DEFINE c == [at |-> IF o.kind = "range" THEN "alias" ELSE "list", opening |-> o]
  <2>2. Step(p, c) /\ DOMAIN c = {"at", "opening"} /\ c["at"] \in {"alias", "list"}
    BY <2>1
  <2>3. proc[p].at = "idle"
    BY <1>1 DEF Begin, At
  <2> HIDE DEF c
  <2> QED
    BY <2>2, <2>3, HeadStays DEF Fields
<1>2. ASSUME NEW p \in Process, ReadAlias(p)
      PROVE  \A q \in Process : HeadIsRead(proc'[q])
  <2> DEFINE o == proc[p].opening
             c == IF alias[o] = None THEN [at |-> "list"] ELSE [at |-> "enter", target |-> alias[o]]
  <2>1. Step(p, c) /\ DOMAIN c \in {{"at"}, {"at", "target"}} /\ c["at"] \in {"list", "enter"}
    BY <1>2 DEF ReadAlias
  <2>2. proc[p].at = "alias"
    BY <1>2 DEF ReadAlias, At
  <2> HIDE DEF c
  <2> QED
    BY <2>1, <2>2, HeadStays DEF Fields
<1>3. ASSUME NEW p \in Process, List(p)
      PROVE  \A q \in Process : HeadIsRead(proc'[q])
  <2> DEFINE o == proc[p].opening
  <2>1. PICK c : /\ Step(p, c) /\ DOMAIN c \in {{"at", "target"}, {"at", "seen"}}
                 /\ \/ c["at"] \in {"enter", "make"}
                    \/ c["at"] = "head" /\ o.head # Worktree
    <3> DEFINE known == o \in Listed
               named == o.kind # "range"
               ours == o.head = Worktree \/ (known /\ (named \/ o \in written))
    <3>1. CASE ours
      <4> DEFINE c == [at |-> "enter", target |-> o]
      <4>1. Step(p, c)
        BY <1>3, <3>1 DEF List
      <4>2. DOMAIN c = {"at", "target"} /\ c["at"] = "enter"
        OBVIOUS
      <4> HIDE DEF c
      <4> QED BY <4>1, <4>2
    <3>2. CASE ~ours /\ (named \/ known)
      <4> DEFINE c == [at |-> "make", target |-> o]
      <4>1. Step(p, c)
        BY <1>3, <3>2 DEF List
      <4>2. DOMAIN c = {"at", "target"} /\ c["at"] = "make"
        OBVIOUS
      <4> HIDE DEF c
      <4> QED BY <4>1, <4>2
    <3>3. CASE ~ours /\ ~(named \/ known)
      <4> DEFINE c == [at |-> "head", seen |-> Listed \cap written]
      <4>1. Step(p, c)
        BY <1>3, <3>3 DEF List
      <4>2. DOMAIN c = {"at", "seen"} /\ c["at"] = "head"
        OBVIOUS
      <4>3. o.head # Worktree
        <5> HIDE DEF o
        <5> QED BY <3>3, Zenon
      <4> HIDE DEF c
      <4> QED BY <4>1, <4>2, <4>3
    <3> QED
      BY <3>1, <3>2, <3>3
  <2>2. proc[p].at = "list"
    BY <1>3 DEF List, At
  <2>3. proc'[p].opening = o
    BY <1>0, <2>1, Stepped DEF Fields
  <2> QED
    BY <2>1, <2>2, <2>3, HeadStays DEF Fields
<1>4. ASSUME NEW p \in Process, ReadHead(p)
      PROVE  \A q \in Process : HeadIsRead(proc'[q])
  <2> DEFINE o == proc[p].opening
             h == CommitOf(o.head)
  <2>1. proc[p].at = "head" /\ o.head # Worktree /\ o.kind = "range" /\ o \in Identity
    BY <1>4, <1>0 DEF ReadHead, At, NearestInv, HeadIsRead, IdentityInv, Filed, JoinsWritten, Types
  <2>2. CASE h = Gone
    <3> DEFINE c == [at |-> "make", target |-> o]
    <3>1. Step(p, c) /\ DOMAIN c = {"at", "target"} /\ c["at"] = "make"
      BY <1>4, <2>2 DEF ReadHead
    <3> HIDE DEF c
    <3> QED
      BY <2>1, <3>1, HeadStays DEF Fields
  <2>3. CASE h # Gone
    <3> DEFINE c == [at |-> "place", head |-> h]
    <3>1. Step(p, c) /\ DOMAIN c = {"at", "head"} /\ c["at"] = "place" /\ c["head"] = h
      BY <1>4, <2>3 DEF ReadHead
    <3>2. h \in Commit
      BY <1>0, <2>1, <2>3, HeadIsACommit
    <3> HIDE DEF c, h
    <3>3. /\ \A q \in Process \ {p} : proc'[q] = proc[q]
          /\ proc'[p].at = "place" /\ proc'[p].head = h /\ proc'[p].opening = o
      BY <1>0, <3>1, Stepped DEF Fields
    <3>4. HeadIsRead(proc'[p])
      BY <2>1, <3>2, <3>3 DEF HeadIsRead
    <3> QED
      BY <3>3, <3>4 DEF NearestInv
  <2> QED
    BY <2>2, <2>3
<1>5. ASSUME NEW p \in Process, Place(p)
      PROVE  \A q \in Process : HeadIsRead(proc'[q])
  <2> DEFINE r == proc[p]
             C == Candidates(r)
  <2>1. proc[p].at = "place" /\ proc[p].head \in Commit
    BY <1>5 DEF Place, At, NearestInv, HeadIsRead
  <2>2. PICK exact \in SetToSeqs({x \in C : x.head = r.head}),
             behind \in SetToSeqs({x \in C : IsAncestor(x.head, r.head)}),
             ahead \in SetToSeqs({x \in C : IsAncestor(r.head, x.head)}) :
          Step(p, [at |-> "make", seen |-> {}, placed |-> C,
                   target |-> IF Adopted(exact, behind, ahead) = None THEN r.opening
                              ELSE Adopted(exact, behind, ahead)])
    BY <1>5 DEF Place
  <2> DEFINE t == IF Adopted(exact, behind, ahead) = None THEN r.opening
                  ELSE Adopted(exact, behind, ahead)
             c == [at |-> "make", seen |-> {}, placed |-> C, target |-> t]
  <2>3. /\ Step(p, c) /\ DOMAIN c = {"at", "seen", "placed", "target"}
        /\ c["at"] = "make" /\ c["placed"] = C /\ c["target"] = t
    BY <2>2
  <2>4. /\ \A q \in Process \ {p} : proc'[q] = proc[q]
        /\ proc'[p].at = "make" /\ proc'[p].head = r.head /\ proc'[p].opening = r.opening
        /\ proc'[p].placed = C /\ proc'[p].target = t
    <3> HIDE DEF c, t, C
    <3> QED BY <1>0, <2>3, Stepped DEF Fields
  <2>5. Nearest(proc'[p])
    <3>1. \E s : s = proc'[p]
      OBVIOUS
    <3>2. PICK s : s = proc'[p]
      BY <3>1
    <3>3. Nearest(s)
      BY <1>0, <2>1, <2>2, <2>4, <3>2, AdoptsTheNearest
    <3> QED BY <3>2, <3>3
  <2> QED
    BY <2>4, <2>5 DEF NearestInv, HeadIsRead
<1>6. ASSUME NEW p \in Process, MakeDir(p)
      PROVE  \A q \in Process : HeadIsRead(proc'[q])
  <2> DEFINE c == [at |-> "write", head |-> None, placed |-> {}]
  <2>1. Step(p, c) /\ DOMAIN c = {"at", "head", "placed"} /\ c["at"] = "write"
    BY <1>6 DEF MakeDir
  <2> HIDE DEF c
  <2>2. (\A q \in Process \ {p} : proc'[q] = proc[q]) /\ proc'[p].at = "write"
    BY <1>0, <2>1, Stepped DEF Fields
  <2> QED
    BY <2>2 DEF NearestInv, HeadIsRead
<1>7. ASSUME NEW p \in Process, Write(p)
      PROVE  \A q \in Process : HeadIsRead(proc'[q])
  <2> DEFINE c == [at |-> "enter"]
  <2>1. Step(p, c) /\ DOMAIN c = {"at"} /\ c["at"] = "enter" /\ proc[p].at = "write"
    BY <1>7 DEF Write, At
  <2> HIDE DEF c
  <2> QED
    BY <2>1, HeadStays DEF Fields
<1>8. ASSUME NEW p \in Process, Enter(p) \/ Crash(p)
      PROVE  \A q \in Process : HeadIsRead(proc'[q])
  <2>1. proc' = [proc EXCEPT ![p] = Idle]
    BY <1>8 DEF Enter, Crash
  <2>2. /\ \A q \in Process \ {p} : proc'[q] = proc[q]
        /\ proc'[p] = Idle
    BY <1>0, <2>1 DEF Types
  <2>3. HeadIsRead(Idle)
    BY DEF HeadIsRead, Idle
  <2> QED
    BY <2>2, <2>3 DEF NearestInv
<1>9. CASE UNCHANGED proc
  BY <1>9 DEF NearestInv
<1> QED
  BY <1>1, <1>2, <1>3, <1>4, <1>5, <1>6, <1>7, <1>8, <1>9 DEF Next, Open, Move, vars

\* In whatever order the directories are met, what is joined is the nearest review.
THEOREM NearestIsJoined == Spec => []JoinsTheNearest
<1>1. Init => \A p \in Process : HeadIsRead(proc[p])
  BY DEF Init, HeadIsRead, Idle
<1>2. Init => NearestInv
  BY <1>1, IdentityInit DEF NearestInv
<1>3. NearestInv /\ [Next]_vars => NearestInv'
  BY HeadNext, IdentityNext DEF NearestInv
<1>4. NearestInv => JoinsTheNearest
  BY DEF NearestInv, HeadIsRead, Nearest, JoinsTheNearest, At
<1> QED
  BY <1>2, <1>3, <1>4, PTL DEF Spec
=============================================================================
