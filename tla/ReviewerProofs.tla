--------------------------- MODULE ReviewerProofs ---------------------------
(***************************************************************************)
(* What the reviewer asks of the forge, what the forge's answers do to the *)
(* reader's notes, and where a new note is filed, proved for every change, *)
(* every reading plan and every request.                                   *)
(***************************************************************************)
EXTENDS Reviewer, FiniteInduction

-----------------------------------------------------------------------------
(* Sequences of anything, and least and greatest numbers *)

IsSeq(s) == \E S : s \in Seq(S)

LEMMA SeqIs ==
  ASSUME NEW s, IsSeq(s)
  PROVE  Len(s) \in Nat /\ DOMAIN s = 1..Len(s) /\ s = [k \in 1..Len(s) |-> s[k]]
<1>1. PICK S : s \in Seq(S)
  BY DEF IsSeq
<1> QED BY <1>1

LEMMA FunctionIsSeq ==
  ASSUME NEW n \in Nat, NEW f, f = [k \in 1..n |-> f[k]]
  PROVE  IsSeq(f) /\ DOMAIN f = 1..n /\ Len(f) = n
<1> DEFINE S == {f[k] : k \in 1..n}
<1>1. f \in [1..n -> S]
  OBVIOUS
<1>2. f \in Seq(S)
  BY <1>1
<1>3. DOMAIN f = 1..n
  OBVIOUS
<1> HIDE DEF S
<1> QED BY <1>2, <1>3 DEF IsSeq

LEMMA NoneIsSeq == IsSeq(<<>>) /\ DOMAIN <<>> = {}
<1>1. <<>> \in Seq({})
  OBVIOUS
<1> QED BY <1>1 DEF IsSeq

LEMMA OneIsSeq ==
  ASSUME NEW x
  PROVE  IsSeq(<<x>>) /\ DOMAIN <<x>> = 1..1 /\ <<x>>[1] = x
<1>1. <<x>> \in Seq({x})
  OBVIOUS
<1>2. \E S : <<x>> \in Seq(S)
  BY <1>1
<1>3. DOMAIN <<x>> = 1..1 /\ <<x>>[1] = x
  OBVIOUS
<1> QED BY <1>2, <1>3 DEF IsSeq

LEMMA ConcatIsSeq ==
  ASSUME NEW s, NEW t, IsSeq(s), IsSeq(t)
  PROVE  /\ IsSeq(s \o t) /\ Len(s \o t) = Len(s) + Len(t)
         /\ \A k \in DOMAIN (s \o t) :
              \/ k \in DOMAIN s /\ (s \o t)[k] = s[k]
              \/ k - Len(s) \in DOMAIN t /\ (s \o t)[k] = t[k - Len(s)]
<1>1. PICK S : s \in Seq(S)
  BY DEF IsSeq
<1>2. PICK T : t \in Seq(T)
  BY DEF IsSeq
<1>3. s \in Seq(S \cup T) /\ t \in Seq(S \cup T)
  BY <1>1, <1>2
<1>4. s \o t \in Seq(S \cup T) /\ Len(s \o t) = Len(s) + Len(t)
  BY <1>3
<1>5. \A k \in 1..(Len(s) + Len(t)) : (s \o t)[k] = IF k <= Len(s) THEN s[k] ELSE t[k - Len(s)]
  BY <1>3
<1>6. Len(s) \in Nat /\ Len(t) \in Nat /\ DOMAIN s = 1..Len(s) /\ DOMAIN t = 1..Len(t)
      /\ DOMAIN (s \o t) = 1..(Len(s) + Len(t))
  BY <1>3, <1>4
<1>7. ASSUME NEW k \in DOMAIN (s \o t)
      PROVE  \/ k \in DOMAIN s /\ (s \o t)[k] = s[k]
             \/ k - Len(s) \in DOMAIN t /\ (s \o t)[k] = t[k - Len(s)]
  <2>1. CASE k <= Len(s)
    BY <2>1, <1>5, <1>6
  <2>2. CASE ~(k <= Len(s))
    <3>1. k - Len(s) \in 1..Len(t)
      BY <2>2, <1>6
    <3> QED BY <2>2, <3>1, <1>5, <1>6
  <2> QED BY <2>1, <2>2
<1> QED BY <1>4, <1>7 DEF IsSeq

LEMMA AppendIsSeq ==
  ASSUME NEW s, IsSeq(s), NEW x
  PROVE  /\ IsSeq(Append(s, x)) /\ DOMAIN Append(s, x) = 1..(Len(s) + 1)
         /\ Len(Append(s, x)) = Len(s) + 1
         /\ \A k \in DOMAIN s : k \in DOMAIN Append(s, x) /\ Append(s, x)[k] = s[k]
         /\ Append(s, x)[Len(s) + 1] = x
<1>1. PICK S : s \in Seq(S)
  BY DEF IsSeq
<1>2. s \in Seq(S \cup {x}) /\ x \in S \cup {x}
  BY <1>1
<1>3. Append(s, x) \in Seq(S \cup {x})
  BY <1>2
<1> QED BY <1>2, <1>3 DEF IsSeq

LEMMA PartsAreSeqs ==
  ASSUME NEW s, IsSeq(s), s # <<>>
  PROVE  /\ IsSeq(Tail(s)) /\ \A k \in DOMAIN Tail(s) : k + 1 \in DOMAIN s /\ Tail(s)[k] = s[k + 1]
         /\ IsSeq(Front(s)) /\ \A k \in DOMAIN Front(s) : k \in DOMAIN s /\ Front(s)[k] = s[k]
         /\ Len(s) \in DOMAIN s /\ Last(s) = s[Len(s)]
<1>1. PICK S : s \in Seq(S)
  BY DEF IsSeq
<1>2. Len(s) \in Nat \ {0} /\ DOMAIN s = 1..Len(s)
  BY <1>1, EmptySeq
<1>3. Tail(s) \in Seq(S) /\ Len(Tail(s)) = Len(s) - 1 /\ \A k \in 1..(Len(s) - 1) : Tail(s)[k] = s[k + 1]
  BY <1>1
<1>4. Front(s) = SubSeq(s, 1, Len(s) - 1)
  BY DEF Front
<1>5. Front(s) \in Seq(S) /\ Len(Front(s)) = Len(s) - 1 /\ \A k \in 1..(Len(s) - 1) : Front(s)[k] = s[k]
  BY <1>1, <1>2, <1>4
<1>6. \A k \in 1..(Len(s) - 1) : k \in 1..Len(s) /\ k + 1 \in 1..Len(s)
  BY <1>2
<1>7. DOMAIN Tail(s) = 1..(Len(s) - 1) /\ DOMAIN Front(s) = 1..(Len(s) - 1)
  BY <1>3, <1>5
<1> QED BY <1>2, <1>3, <1>5, <1>6, <1>7 DEF IsSeq, Last

LEMMA TakenIsSeq ==
  ASSUME NEW s, IsSeq(s), NEW places \in SUBSET DOMAIN s
  PROVE  /\ IsSeq(Taken(s, places))
         /\ \A k \in DOMAIN Taken(s, places) : \E i \in places : Taken(s, places)[k] = s[i]
         /\ \A i \in places : \E k \in DOMAIN Taken(s, places) : Taken(s, places)[k] = s[i]
<1>1. PICK S : s \in Seq(S)
  BY DEF IsSeq
<1>2. Len(s) \in Nat /\ DOMAIN s = 1..Len(s) /\ \A i \in places : s[i] \in S
  BY <1>1
<1>3. IsFiniteSet(places) /\ places \subseteq Nat
  BY <1>2, FinitePlaces
<1> DEFINE t == Taken(s, places)
<1>4. t \in Seq(S) /\ Selects(InOrder(places), s, places, t)
  BY <1>2, <1>3, TakenSelects
<1> HIDE DEF t
<1>5. IsSeq(t) /\ (\A k \in DOMAIN t : \E i \in places : t[k] = s[i])
      /\ \A i \in places : \E k \in DOMAIN t : t[k] = s[i]
  BY <1>4 DEF Selects, IsSeq
<1> QED BY <1>5 DEF t

LEMMA FlattenIsSeq ==
  ASSUME NEW seqs, IsSeq(seqs), \A i \in DOMAIN seqs : IsSeq(seqs[i])
  PROVE  /\ IsSeq(FlattenSeq(seqs))
         /\ \A k \in DOMAIN FlattenSeq(seqs) :
              \E i \in DOMAIN seqs : \E j \in DOMAIN seqs[i] : FlattenSeq(seqs)[k] = seqs[i][j]
         /\ \A i \in DOMAIN seqs : \A j \in DOMAIN seqs[i] :
              \E k \in DOMAIN FlattenSeq(seqs) : FlattenSeq(seqs)[k] = seqs[i][j]
<1> DEFINE V == UNION {{seqs[i][j] : j \in DOMAIN seqs[i]} : i \in DOMAIN seqs}
           F == FlattenSeq(seqs)
<1>1. ASSUME NEW i \in DOMAIN seqs PROVE seqs[i] \in Seq(V) /\ DOMAIN seqs[i] = 1..Len(seqs[i])
  <2>1. Len(seqs[i]) \in Nat /\ DOMAIN seqs[i] = 1..Len(seqs[i])
        /\ seqs[i] = [k \in 1..Len(seqs[i]) |-> seqs[i][k]]
    BY SeqIs
  <2>2. \A k \in DOMAIN seqs[i] : seqs[i][k] \in V
    OBVIOUS
  <2> HIDE DEF V
  <2>3. seqs[i] \in [1..Len(seqs[i]) -> V]
    BY <2>1, <2>2
  <2> QED BY <2>1, <2>3
<1> HIDE DEF V
<1>2. seqs \in Seq(Seq(V)) /\ DOMAIN seqs = 1..Len(seqs)
  <2>1. Len(seqs) \in Nat /\ DOMAIN seqs = 1..Len(seqs) /\ seqs = [k \in 1..Len(seqs) |-> seqs[k]]
    BY SeqIs
  <2>2. seqs \in [1..Len(seqs) -> Seq(V)]
    BY <1>1, <2>1
  <2> QED BY <2>1, <2>2
<1>3. F \in Seq(V) /\ \E row, col : EndToEnd(F, row, col, seqs, Len(seqs))
  BY <1>2, FlattenLays
<1> HIDE DEF F
<1>4. PICK row, col : EndToEnd(F, row, col, seqs, Len(seqs))
  BY <1>3
<1>5. DOMAIN F = 1..Len(F)
  BY <1>3
<1>6. ASSUME NEW k \in DOMAIN F
      PROVE  \E i \in DOMAIN seqs : \E j \in DOMAIN seqs[i] : F[k] = seqs[i][j]
  <2>1. row[k] \in 1..Len(seqs) /\ col[k] \in 1..Len(seqs[row[k]]) /\ F[k] = seqs[row[k]][col[k]]
    BY <1>4, <1>5 DEF EndToEnd
  <2>2. row[k] \in DOMAIN seqs
    BY <2>1, <1>2
  <2>3. col[k] \in DOMAIN seqs[row[k]]
    BY <2>1, <2>2, <1>1
  <2> QED BY <2>1, <2>2, <2>3
<1>7. ASSUME NEW i \in DOMAIN seqs, NEW j \in DOMAIN seqs[i]
      PROVE  \E k \in DOMAIN F : F[k] = seqs[i][j]
  <2>1. i \in 1..Len(seqs) /\ j \in 1..Len(seqs[i])
    BY <1>1, <1>2
  <2>2. PICK k \in 1..Len(F) : row[k] = i /\ col[k] = j
    BY <2>1, <1>4 DEF EndToEnd
  <2>3. F[k] = seqs[row[k]][col[k]]
    BY <1>4 DEF EndToEnd
  <2> QED BY <2>2, <2>3, <1>5
<1>8. IsSeq(F)
  BY <1>3 DEF IsSeq
<1> QED BY <1>6, <1>7, <1>8 DEF F

-----------------------------------------------------------------------------
(* Rows that say where they are: whatever acts on a hunk names one, in its *)
(* own file, and a line has a number.                                      *)

Plain == {"group", "blank", "fold", "file", "column"}

SoundRow(r) ==
  /\ r.kind \in Plain \cup {"hunk", "line", "edge", "note", "thread"}
  /\ r.kind \in {"hunk", "line"} => r.hunk \in Hunk /\ r.file = Hunks[r.hunk].file
  /\ r.kind = "line" => r.old \in Nat /\ r.new \in Nat /\ (r.old # 0 \/ r.new # 0)
  /\ r.kind = "edge" => r.side \in {"up", "down"} /\ r.crossing \in BOOLEAN
  /\ r.kind = "thread" => r.note # 0
  /\ r.kind \in {"note", "thread"} => r.hunk \in Hunk \cup {NoHunk}
  /\ r.kind \in Plain => r.hunk = NoHunk

Sound(rows) == IsSeq(rows) /\ \A k \in DOMAIN rows : SoundRow(rows[k])

LEMMA SoundPlain ==
  ASSUME NEW kind \in Plain, NEW f
  PROVE  SoundRow(Row(kind, f, NoHunk))
BY DEF SoundRow, Row, Plain

LEMMA SoundNone == Sound(<<>>)
BY NoneIsSeq DEF Sound

LEMMA SoundOne ==
  ASSUME NEW r, SoundRow(r)
  PROVE  Sound(<<r>>)
<1>1. IsSeq(<<r>>) /\ DOMAIN <<r>> = 1..1 /\ <<r>>[1] = r
  BY OneIsSeq
<1> QED BY <1>1 DEF Sound

LEMMA SoundTwo ==
  ASSUME NEW q, SoundRow(q), NEW r, SoundRow(r)
  PROVE  Sound(<<q, r>>)
<1>1. <<q, r>> \in Seq({q, r}) /\ DOMAIN <<q, r>> = 1..2 /\ <<q, r>>[1] = q /\ <<q, r>>[2] = r
  OBVIOUS
<1>2. IsSeq(<<q, r>>)
  BY <1>1 DEF IsSeq
<1> QED BY <1>1, <1>2 DEF Sound

LEMMA SoundBoth ==
  ASSUME NEW s, NEW t, Sound(s), Sound(t)
  PROVE  Sound(s \o t)
<1>1. IsSeq(s) /\ IsSeq(t)
  BY DEF Sound
<1>2. /\ IsSeq(s \o t)
      /\ \A k \in DOMAIN (s \o t) :
           \/ k \in DOMAIN s /\ (s \o t)[k] = s[k]
           \/ k - Len(s) \in DOMAIN t /\ (s \o t)[k] = t[k - Len(s)]
  BY ONLY <1>1, ConcatIsSeq
<1>3. ASSUME NEW k \in DOMAIN (s \o t) PROVE SoundRow((s \o t)[k])
  <2>1. CASE k \in DOMAIN s /\ (s \o t)[k] = s[k]
    <3>1. SoundRow(s[k])
      BY <2>1 DEF Sound
    <3> QED BY <2>1, <3>1
  <2>2. CASE k - Len(s) \in DOMAIN t /\ (s \o t)[k] = t[k - Len(s)]
    <3>1. SoundRow(t[k - Len(s)])
      BY <2>2 DEF Sound
    <3> QED BY <2>2, <3>1
  <2> QED BY <1>2, <2>1, <2>2
<1> QED BY <1>2, <1>3 DEF Sound

LEMMA SoundAll ==
  ASSUME NEW seqs, IsSeq(seqs), \A i \in DOMAIN seqs : Sound(seqs[i])
  PROVE  Sound(FlattenSeq(seqs))
<1>1. \A i \in DOMAIN seqs : IsSeq(seqs[i])
  BY DEF Sound
<1>2. /\ IsSeq(FlattenSeq(seqs))
      /\ \A k \in DOMAIN FlattenSeq(seqs) :
           \E i \in DOMAIN seqs : \E j \in DOMAIN seqs[i] : FlattenSeq(seqs)[k] = seqs[i][j]
  BY <1>1, FlattenIsSeq
<1>3. ASSUME NEW k \in DOMAIN FlattenSeq(seqs) PROVE SoundRow(FlattenSeq(seqs)[k])
  <2>0. PICK i \in DOMAIN seqs : \E j \in DOMAIN seqs[i] : FlattenSeq(seqs)[k] = seqs[i][j]
    BY <1>2
  <2>1. PICK j \in DOMAIN seqs[i] : FlattenSeq(seqs)[k] = seqs[i][j]
    BY <2>0
  <2>2. SoundRow(seqs[i][j])
    BY DEF Sound
  <2> QED BY <2>1, <2>2
<1> QED BY <1>2, <1>3 DEF Sound

LEMMA SoundEach ==
  ASSUME NEW n \in Nat, NEW f, f = [k \in 1..n |-> f[k]], \A k \in 1..n : SoundRow(f[k])
  PROVE  Sound(f)
<1>1. IsSeq(f) /\ DOMAIN f = 1..n
  BY FunctionIsSeq
<1> QED BY <1>1 DEF Sound

LEMMA SoundParts ==
  ASSUME NEW n \in Nat, NEW f, f = [k \in 1..n |-> f[k]], \A k \in 1..n : Sound(f[k])
  PROVE  Sound(FlattenSeq(f))
<1>1. IsSeq(f) /\ DOMAIN f = 1..n
  BY FunctionIsSeq
<1> QED BY <1>1, SoundAll

-----------------------------------------------------------------------------
(* The hunks of a file, in order, and the gaps around them *)

LEMMA HunksAreRanges ==
  ASSUME NEW h \in Hunk, NEW s \in Sides
  PROVE  /\ Hunks[h].file \in File
         /\ Hunks[h][s].start \in Nat /\ Hunks[h][s].count \in Nat
         /\ AboveEnd(Hunks[h][s]) \in Nat \ {0} /\ BelowStart(Hunks[h][s]) \in Nat \ {0}
<1>1. Hunks[h].file \in File /\ IsRange(Hunks[h][s])
  BY RowsAssumption
<1> QED BY <1>1 DEF IsRange, AboveEnd, BelowStart

LEMMA HunkIsNumbered == Hunk \subseteq Nat \ {0} /\ IsFiniteSet(Hunk)
<1>1. Len(Hunks) \in Nat /\ Hunk = 1..Len(Hunks)
  BY RowsAssumption
<1>2. IsFiniteSet(1..Len(Hunks))
  BY <1>1, FinitePlaces
<1> QED BY <1>1, <1>2

\* Some numbers in order are a sequence of them.
LEMMA InOrderIsSeq ==
  ASSUME NEW S, S \subseteq Nat, IsFiniteSet(S)
  PROVE  /\ Len(InOrder(S)) \in Nat /\ DOMAIN InOrder(S) = 1..Len(InOrder(S)) /\ IsSeq(InOrder(S))
         /\ InOrder(S) = [k \in 1..Len(InOrder(S)) |-> InOrder(S)[k]]
         /\ \A k \in 1..Len(InOrder(S)) : InOrder(S)[k] \in S
         /\ \A x \in S : \E k \in 1..Len(InOrder(S)) : InOrder(S)[k] = x
<1> DEFINE at == InOrder(S)
           n == Cardinality(S)
           before == {p \in S \X S : p[1] < p[2]}
<1>1. Rises(at, S)
  BY InOrderRises
<1>2. at = [k \in 1..n |-> at[k]]
  <2> HIDE DEF before
  <2>1. Ranked(S, before) = [k \in 1..n |-> Ranked(S, before)[k]]
    BY RankedIsAFunction
  <2>2. at = Ranked(S, before)
    BY DEF InOrder, before
  <2> HIDE DEF at
  <2> QED BY <2>1, <2>2
<1>3. n \in Nat
  BY FS_CardinalityType
<1> HIDE DEF at, n
<1>4. IsSeq(at) /\ DOMAIN at = 1..n /\ Len(at) = n
  BY <1>2, <1>3, FunctionIsSeq
<1>5. \A k \in 1..n : at[k] \in S
  BY <1>1, <1>4 DEF Rises
<1>6. \A x \in S : \E k \in 1..n : at[k] = x
  BY <1>1, <1>4 DEF Rises
<1>7. at = [k \in 1..Len(at) |-> at[k]]
  BY <1>2, <1>4
<1> QED BY <1>3, <1>4, <1>5, <1>6, <1>7 DEF at

LEMMA OrderIsTheHunks ==
  ASSUME NEW f \in File
  PROVE  /\ Len(Order[f]) \in Nat /\ DOMAIN Order[f] = 1..Len(Order[f])
         /\ \A k \in 1..Len(Order[f]) : Order[f][k] \in Hunk /\ Hunks[Order[f][k]].file = f
<1>1. HunksOf(f) \subseteq Hunk
  BY DEF HunksOf
<1>2. HunksOf(f) \subseteq Nat /\ IsFiniteSet(HunksOf(f))
  BY <1>1, HunkIsNumbered, FS_Subset
<1>3. Order[f] = InOrder(HunksOf(f))
  BY DEF Order
<1> DEFINE at == InOrder(HunksOf(f))
<1>4. /\ Len(at) \in Nat /\ DOMAIN at = 1..Len(at)
      /\ \A k \in 1..Len(at) : at[k] \in HunksOf(f)
  BY <1>2, InOrderIsSeq
<1> HIDE DEF at
<1>5. Order[f] = at
  BY <1>3 DEF at
<1>6. \A h \in HunksOf(f) : h \in Hunk /\ Hunks[h].file = f
  BY DEF HunksOf
<1> QED BY <1>4, <1>5, <1>6

LEMMA LessIsNat ==
  ASSUME NEW n \in Int, NEW m \in Int
  PROVE  Less(n, m) \in Nat /\ (m >= 1 /\ n >= 1 => Less(n, m) <= n - 1)
<1>1. Less(n, m) = IF n - m >= 0 THEN n - m ELSE 0
  BY MaxOfTwo DEF Less
<1> QED BY <1>1

\* A gap is of both sides, so above a hunk there is room for it.
LEMMA GapsAreThere ==
  ASSUME NEW f \in File, NEW k \in 0..Len(Order[f])
  PROVE  /\ Gaps[f][k] \in Nat
         /\ k < Len(Order[f]) =>
              \A s \in Sides : Gaps[f][k] <= AboveEnd(Hunks[Order[f][k + 1]][s]) - 1
<1> DEFINE hs == [i \in DOMAIN Order[f] |-> Hunks[Order[f][i]]]
           end(s) == IF k = Len(hs) THEN FileLen[f][s] + 1 ELSE AboveEnd(hs[k + 1][s])
           start(s) == IF k = 0 THEN 1 ELSE BelowStart(hs[k][s])
<1>1. /\ Len(Order[f]) \in Nat /\ DOMAIN Order[f] = 1..Len(Order[f])
      /\ \A i \in 1..Len(Order[f]) : Order[f][i] \in Hunk
  BY OrderIsTheHunks
<1>2. Len(hs) = Len(Order[f])
  <2>1. hs = [i \in 1..Len(Order[f]) |-> hs[i]]
    BY <1>1
  <2> HIDE DEF hs
  <2> QED BY <1>1, <2>1, FunctionIsSeq
<1>3. \A i \in 1..Len(Order[f]) : hs[i] = Hunks[Order[f][i]]
  BY <1>1
<1>4. Gaps[f] = GapsOf(hs, FileLen[f])
  BY DEF Gaps
<1> HIDE DEF hs
<1>5. Gaps[f][k] = Min({Less(end(s), start(s)) : s \in Sides})
  BY <1>2, <1>4 DEF GapsOf
<1>6. ASSUME NEW s \in Sides
      PROVE  /\ end(s) \in Nat \ {0} /\ start(s) \in Nat \ {0}
             /\ k < Len(Order[f]) => end(s) = AboveEnd(Hunks[Order[f][k + 1]][s])
  <2>1. FileLen[f][s] \in Nat
    BY RowsAssumption
  <2>2. CASE k < Len(Order[f])
    <3>1. k + 1 \in 1..Len(Order[f]) /\ k # Len(hs)
      BY <1>1, <1>2, <2>2
    <3>2. end(s) = AboveEnd(Hunks[Order[f][k + 1]][s]) /\ Order[f][k + 1] \in Hunk
      BY <1>1, <1>3, <3>1
    <3>3. end(s) \in Nat \ {0}
      BY <3>2, HunksAreRanges
    <3>4. start(s) \in Nat \ {0}
      <4>1. CASE k = 0
        BY <4>1
      <4>2. CASE k # 0
        <5>1. k \in 1..Len(Order[f])
          BY <1>1, <4>2
        <5>2. start(s) = BelowStart(Hunks[Order[f][k]][s]) /\ Order[f][k] \in Hunk
          BY <1>1, <1>3, <4>2, <5>1
        <5> QED BY <5>2, HunksAreRanges
      <4> QED BY <4>1, <4>2
    <3> QED BY <3>2, <3>3, <3>4
  <2>3. CASE ~(k < Len(Order[f]))
    <3>1. k = Len(hs) /\ k = Len(Order[f])
      BY <1>1, <1>2, <2>3
    <3>2. end(s) \in Nat \ {0}
      BY <2>1, <3>1
    <3>4. start(s) \in Nat \ {0}
      <4>1. CASE k = 0
        BY <4>1
      <4>2. CASE k # 0
        <5>1. k \in 1..Len(Order[f])
          BY <1>1, <4>2
        <5>2. start(s) = BelowStart(Hunks[Order[f][k]][s]) /\ Order[f][k] \in Hunk
          BY <1>1, <1>3, <4>2, <5>1
        <5> QED BY <5>2, HunksAreRanges
      <4> QED BY <4>1, <4>2
    <3> QED BY <2>3, <3>2, <3>4
  <2> QED BY <2>2, <2>3
<1> DEFINE room == [s \in Sides |-> Less(end(s), start(s))]
<1>7. \A s \in Sides : room[s] \in Nat /\ room[s] <= end(s) - 1
  <2> SUFFICES ASSUME NEW s \in Sides PROVE room[s] \in Nat /\ room[s] <= end(s) - 1
    OBVIOUS
  <2>1. end(s) \in Nat \ {0} /\ start(s) \in Nat \ {0}
    BY <1>6
  <2>2. room[s] = Less(end(s), start(s))
    OBVIOUS
  <2> HIDE DEF end, start, room
  <2>3. end(s) \in Int /\ start(s) \in Int /\ start(s) >= 1 /\ end(s) >= 1
    BY <2>1
  <2> QED BY <2>2, <2>3, LessIsNat
<1>8. Gaps[f][k] = Min({room[s] : s \in Sides})
  BY <1>5
<1> HIDE DEF room, end, start
<1>9. {room[s] : s \in Sides} \subseteq Nat /\ {room[s] : s \in Sides} # {}
  BY <1>7 DEF Sides
<1>10. Gaps[f][k] \in {room[s] : s \in Sides} /\ \A x \in {room[s] : s \in Sides} : Gaps[f][k] <= x
  BY <1>8, <1>9, MinIsLeast
<1>11. Gaps[f][k] \in Nat
  BY <1>9, <1>10
<1>12. ASSUME k < Len(Order[f]), NEW s \in Sides
       PROVE  Gaps[f][k] <= AboveEnd(Hunks[Order[f][k + 1]][s]) - 1
  <2>1. Gaps[f][k] <= room[s] /\ room[s] \in Nat /\ room[s] <= end(s) - 1
    BY <1>7, <1>10
  <2>2. end(s) = AboveEnd(Hunks[Order[f][k + 1]][s]) /\ end(s) \in Nat
    BY <1>6, <1>12
  <2> QED BY <1>11, <2>1, <2>2
<1> QED BY <1>11, <1>12

-----------------------------------------------------------------------------
(* What a file shows: spans of its hunks, and a block for each *)

Growth == [up : Nat, down : Nat, crossed_up : Nat, crossed_down : Nat]
SpanSet(n) == {s \in [lo : 1..n, up : 1..n, hi : 1..n, down : 1..n] : s.lo <= s.hi}
WindowOf(f, listed, grown) == [order |-> Order[f], gap |-> Gaps[f], listed |-> listed, grown |-> grown]

LEMMA SpanOfIsSpan ==
  ASSUME NEW f \in File, NEW listed, NEW grown \in [Hunk -> Growth], NEW k \in 1..Len(Order[f])
  PROVE  SpanOf(WindowOf(f, listed, grown), k) \in SpanSet(Len(Order[f]))
<1> DEFINE n == Len(Order[f])
           g == grown[Order[f][k]]
           lo == Max({1, k - g.crossed_up})
           hi == Min({k + g.crossed_down, n})
<1>1. n \in Nat /\ Order[f][k] \in Hunk
  BY OrderIsTheHunks
<1>2. g \in Growth
  BY <1>1
<1>3. g.crossed_up \in Nat /\ g.crossed_down \in Nat
  BY <1>2 DEF Growth
<1>4. SpanOf(WindowOf(f, listed, grown), k) = [lo |-> lo, up |-> k, hi |-> hi, down |-> k]
  BY DEF SpanOf, WindowOf
<1> HIDE DEF n, g
<1>5. k \in 1..n
  BY DEF n
<1>6. lo = IF 1 >= k - g.crossed_up THEN 1 ELSE k - g.crossed_up
  BY <1>3, <1>5, MaxOfTwo
<1>7. hi = IF k + g.crossed_down <= n THEN k + g.crossed_down ELSE n
  <2>1. k + g.crossed_down \in Int /\ n \in Int
    BY <1>1, <1>3, <1>5
  <2> QED BY <2>1, MinOfTwo
<1> HIDE DEF lo, hi
<1>8. lo \in 1..n /\ hi \in 1..n /\ lo <= hi
  BY <1>1, <1>3, <1>5, <1>6, <1>7
<1>9. [lo |-> lo, up |-> k, hi |-> hi, down |-> k] \in SpanSet(n)
  BY <1>5, <1>8 DEF SpanSet
<1> QED BY <1>4, <1>9 DEF n

LEMMA JoinedIsSpan ==
  ASSUME NEW n \in Nat, NEW s \in SpanSet(n), NEW t \in SpanSet(n)
  PROVE  Joined(s, t) \in SpanSet(n)
<1> DEFINE lo == Min({s.lo, t.lo})
           hi == Max({s.hi, t.hi})
<1>1. /\ s.lo \in 1..n /\ s.hi \in 1..n /\ s.up \in 1..n /\ s.down \in 1..n /\ s.lo <= s.hi
      /\ t.lo \in 1..n /\ t.hi \in 1..n /\ t.up \in 1..n /\ t.down \in 1..n /\ t.lo <= t.hi
  BY DEF SpanSet
<1>2. lo = IF s.lo <= t.lo THEN s.lo ELSE t.lo
  BY <1>1, MinOfTwo
<1>3. hi = IF s.hi >= t.hi THEN s.hi ELSE t.hi
  BY <1>1, MaxOfTwo
<1>4. Joined(s, t) = [lo |-> lo, up |-> IF t.lo < s.lo THEN t.up ELSE s.up,
                      hi |-> hi, down |-> IF t.hi > s.hi THEN t.down ELSE s.down]
  BY DEF Joined
<1> HIDE DEF lo, hi
<1>5. lo \in 1..n /\ hi \in 1..n /\ lo <= hi
  BY <1>1, <1>2, <1>3
<1> QED BY <1>1, <1>4, <1>5 DEF SpanSet

LEMMA SpansAreSpans ==
  ASSUME NEW w, NEW n \in Nat, Len(w.order) = n, \A k \in 1..n : SpanOf(w, k) \in SpanSet(n)
  PROVE  Spans(w) \in Seq(SpanSet(n))
<1> DEFINE V == Seq(SpanSet(n))
           Add(spans, t) == IF spans # <<>> /\ Joins(w, Last(spans), t)
                            THEN Append(Front(spans), Joined(Last(spans), t)) ELSE Append(spans, t)
           Next1(k, spans) == IF w.order[k] \in w.listed THEN Add(spans, SpanOf(w, k)) ELSE spans
           nothing == <<>>
           Def(f) == [k \in 0..Len(w.order) |-> IF k = 0 THEN nothing ELSE Next1(k, f[k - 1])]
           upto == CHOOSE f : f = Def(f)
           G == [k \in Nat |-> [spans \in V |-> IF k \in 1..n THEN Next1(k, spans) ELSE spans]]
<1>1. ASSUME NEW spans \in V, NEW t \in SpanSet(n) PROVE Add(spans, t) \in V
  <2>1. Append(spans, t) \in V
    OBVIOUS
  <2>2. CASE spans # <<>>
    <3>1. Len(spans) \in Nat \ {0} /\ Last(spans) = spans[Len(spans)] /\ Front(spans) = SubSeq(spans, 1, Len(spans) - 1)
      BY <2>2, EmptySeq DEF Last, Front
    <3>2. Last(spans) \in SpanSet(n) /\ Front(spans) \in V
      BY <3>1
    <3>3. Joined(Last(spans), t) \in SpanSet(n)
      BY <3>2, JoinedIsSpan
    <3>4. Append(Front(spans), Joined(Last(spans), t)) \in V
      BY <3>2, <3>3
    <3> QED BY <2>1, <3>4
  <2> QED BY <2>1, <2>2
<1>2. ASSUME NEW k \in 1..n, NEW spans \in V PROVE Next1(k, spans) \in V
  <2>1. SpanOf(w, k) \in SpanSet(n)
    OBVIOUS
  <2>2. Add(spans, SpanOf(w, k)) \in V
    BY <2>1, <1>1
  <2> HIDE DEF Add
  <2> QED BY <2>2
<1> HIDE DEF Next1
<1>3. G \in Steps(V)
  <2>1. \A k \in Nat : \A spans \in V : (IF k \in 1..n THEN Next1(k, spans) ELSE spans) \in V
    BY <1>2
  <2> HIDE DEF V
  <2> QED BY <2>1 DEF Steps
<1>4. nothing \in V
  OBVIOUS
<1>5. PICK f : IsPass(f, n, V, nothing, G)
  <2> HIDE DEF G, V, nothing
  <2> QED BY <1>3, <1>4, Recursion
<1>6. f \in [0..n -> V] /\ f[0] = nothing
  <2> HIDE DEF G, V, nothing
  <2> QED BY <1>5 DEF IsPass
<1>7. ASSUME NEW k \in 1..n PROVE f[k] = Next1(k, f[k - 1]) /\ f[k - 1] \in V
  <2>1. k \in Nat /\ k - 1 \in 0..n
    OBVIOUS
  <2>2. f[k - 1] \in V
    <3> HIDE DEF V, nothing
    <3> QED BY <1>6, <2>1
  <2>3. f[k] = G[k][f[k - 1]]
    <3> HIDE DEF G, V, nothing
    <3> QED BY <1>5 DEF IsPass
  <2> HIDE DEF V
  <2> QED BY <2>1, <2>2, <2>3
<1> HIDE DEF G, V
<1>8. f = Def(f)
  <2>1. \A k \in 0..n : f[k] = IF k = 0 THEN nothing ELSE Next1(k, f[k - 1])
    <3> HIDE DEF nothing
    <3> SUFFICES ASSUME NEW k \in 0..n PROVE f[k] = IF k = 0 THEN nothing ELSE Next1(k, f[k - 1])
      OBVIOUS
    <3>1. CASE k = 0
      BY <3>1, <1>6
    <3>2. CASE k # 0
      <4>1. k \in 1..n
        BY <3>2
      <4> QED BY <3>2, <4>1, <1>7
    <3> QED BY <3>1, <3>2
  <2>2. f = [k \in 0..n |-> f[k]]
    BY <1>6
  <2> HIDE DEF nothing
  <2> QED BY <2>1, <2>2
<1>9. upto = Def(upto)
  BY <1>8
<1>10. Spans(w) = upto[n]
  BY DEF Spans, Next1
<1> HIDE DEF upto
<1> DEFINE T == {k \in 0..n : upto[k] = f[k]}
<1>11. 0 \in T
  <2>1. 0 \in 0..Len(w.order)
    OBVIOUS
  <2>2. upto[0] = nothing
    BY <2>1, <1>9
  <2> HIDE DEF nothing
  <2> QED BY <2>2, <1>6
<1>12. ASSUME NEW k \in 0..(n - 1), k \in T PROVE k + 1 \in T
  <2>1. k + 1 \in 0..Len(w.order) /\ k + 1 # 0 /\ k + 1 \in 1..n /\ (k + 1) - 1 = k
    OBVIOUS
  <2>2. upto[k + 1] = Next1(k + 1, upto[k])
    BY <2>1, <1>9
  <2>3. f[k + 1] = Next1(k + 1, f[k])
    BY <2>1, <1>7
  <2>4. upto[k] = f[k]
    BY <1>12
  <2> QED BY <2>1, <2>2, <2>3, <2>4
<1>13. \A k \in 0..n : k \in T
  <2> HIDE DEF T
  <2> QED BY <1>11, <1>12, ByInduction
<1>14. upto[n] = f[n] /\ f[n] \in V
  BY <1>13, <1>6
<1> QED BY <1>10, <1>14 DEF V

EdgeShape(x) == \E h, hidden, gap, next : \E side \in {"up", "down"} :
                  x = [hunk |-> h, side |-> side, hidden |-> hidden, gap |-> gap, next |-> next]
EdgeOK(e) == e = <<>> \/ \E x : e = <<x>> /\ EdgeShape(x)

\* Where an owner's reach ends, within the gap.
ReachOK(f, b) ==
  /\ b.lo \in 1..Len(Order[f]) /\ b.hi \in 1..Len(Order[f]) /\ b.lo <= b.hi
  /\ b.up \in Nat /\ b.down \in Nat
  /\ \A s \in Sides : b.up <= AboveEnd(Hunks[Order[f][b.lo]][s]) - 1
BlockOK(f, b) == ReachOK(f, b) /\ EdgeOK(b.top) /\ EdgeOK(b.bottom)

LEMMA EdgeIsOK ==
  ASSUME NEW w, NEW side \in {"up", "down"}, NEW owner, NEW hidden, NEW gap, NEW beyond
  PROVE  EdgeOK(Edge(w, side, owner, hidden, gap, beyond))
<1> DEFINE x == [hunk |-> w.order[owner], side |-> side, hidden |-> hidden, gap |-> gap,
                 next |-> IF hidden = 0 THEN {w.order[beyond]} ELSE {}]
<1>1. Edge(w, side, owner, hidden, gap, beyond) = <<>> \/ Edge(w, side, owner, hidden, gap, beyond) = <<x>>
  BY DEF Edge
<1>2. EdgeShape(x)
  BY DEF EdgeShape
<1> HIDE DEF x
<1> QED BY <1>1, <1>2 DEF EdgeOK

LEMMA CountedIsOK ==
  ASSUME NEW e, EdgeOK(e), NEW left, e = <<>> => left = {}
  PROVE  EdgeOK(IF left = {} THEN e ELSE <<[e[1] EXCEPT !.hidden = Max(left)]>>)
<1>1. CASE left = {}
  BY <1>1
<1>2. CASE left # {}
  <2> DEFINE m == Max(left)
  <2>1. PICK x : e = <<x>> /\ EdgeShape(x)
    BY <1>2 DEF EdgeOK
  <2>2. PICK h, hidden, gap, next :
          \E side \in {"up", "down"} : x = [hunk |-> h, side |-> side, hidden |-> hidden, gap |-> gap, next |-> next]
    BY <2>1 DEF EdgeShape
  <2>3. PICK side \in {"up", "down"} : x = [hunk |-> h, side |-> side, hidden |-> hidden, gap |-> gap, next |-> next]
    BY <2>2
  <2> HIDE DEF m
  <2>4. [x EXCEPT !.hidden = m] = [hunk |-> h, side |-> side, hidden |-> m, gap |-> gap, next |-> next]
    BY <2>3
  <2>5. EdgeShape([x EXCEPT !.hidden = m])
    BY <2>4 DEF EdgeShape
  <2>6. e[1] = x
    BY <2>1
  <2>7. EdgeOK(<<[e[1] EXCEPT !.hidden = m]>>)
    BY <2>5, <2>6 DEF EdgeOK
  <2> QED BY <1>2, <2>7 DEF m
<1> QED BY <1>1, <1>2

LEMMA BlockOfIsOK ==
  ASSUME NEW f \in File, NEW listed, NEW grown \in [Hunk -> Growth], NEW s \in SpanSet(Len(Order[f]))
  PROVE  /\ BlockOK(f, BlockOf(WindowOf(f, listed, grown), s))
         /\ \E lo, hi, up, down, top, bottom : BlockOf(WindowOf(f, listed, grown), s) =
              [lo |-> lo, hi |-> hi, up |-> up, down |-> down, top |-> top, bottom |-> bottom]
<1> DEFINE w == WindowOf(f, listed, grown)
           n == Len(Order[f])
           up == ReachUp(w, s.up, s.lo)
           down == ReachDown(w, s.down, s.hi)
           top == Edge(w, "up", s.up, w.gap[s.lo - 1] - up, w.gap[s.lo - 1], s.lo - 1)
           bottom == Edge(w, "down", s.down, w.gap[s.hi] - down, w.gap[s.hi], s.hi + 1)
           b == [lo |-> s.lo, hi |-> s.hi, up |-> up, down |-> down, top |-> top, bottom |-> bottom]
<1>1. BlockOf(w, s) = b
  BY DEF BlockOf
<1>2. s.lo \in 1..n /\ s.hi \in 1..n /\ s.up \in 1..n /\ s.down \in 1..n /\ s.lo <= s.hi
  BY DEF SpanSet
<1>3. n \in Nat /\ \A k \in 1..n : Order[f][k] \in Hunk
  BY OrderIsTheHunks
<1>4. w.order = Order[f] /\ w.gap = Gaps[f] /\ w.grown = grown
  BY DEF WindowOf
<1>5. EdgeOK(top) /\ EdgeOK(bottom)
  <2> HIDE DEF w, up, down
  <2>1. "up" \in {"up", "down"} /\ "down" \in {"up", "down"}
    OBVIOUS
  <2> QED BY <2>1, EdgeIsOK
<1> HIDE DEF top, bottom
<1>6. /\ s.lo - 1 \in 0..n /\ s.hi \in 0..n /\ s.lo - 1 < n /\ (s.lo - 1) + 1 = s.lo
  BY <1>2, <1>3
<1>7. /\ Gaps[f][s.lo - 1] \in Nat /\ Gaps[f][s.hi] \in Nat
      /\ \A t \in Sides : Gaps[f][s.lo - 1] <= AboveEnd(Hunks[Order[f][s.lo]][t]) - 1
  BY <1>6, GapsAreThere DEF n
<1>8. grown[Order[f][s.up]].up \in Nat /\ grown[Order[f][s.down]].down \in Nat
  <2>1. grown[Order[f][s.up]] \in Growth /\ grown[Order[f][s.down]] \in Growth
    BY <1>2, <1>3
  <2> QED BY <2>1 DEF Growth
<1>9. up \in Nat /\ up <= Gaps[f][s.lo - 1]
  <2>1. up = Min({Context + grown[Order[f][s.up]].up, Gaps[f][s.lo - 1]})
    BY <1>4 DEF ReachUp
  <2> DEFINE a == Context + grown[Order[f][s.up]].up
             g == Gaps[f][s.lo - 1]
  <2>2. a \in Nat /\ g \in Nat
    BY <1>7, <1>8, WindowAssumption
  <2>3. up = Min({a, g})
    BY <2>1
  <2> HIDE DEF up, a, g
  <2>4. Min({a, g}) = IF a <= g THEN a ELSE g
    BY <2>2, MinOfTwo
  <2>5. up \in Nat /\ up <= g
    BY <2>2, <2>3, <2>4
  <2> QED BY <2>5 DEF g
<1>10. down \in Nat
  <2>1. down = Min({Context + grown[Order[f][s.down]].down, Gaps[f][s.hi]})
    BY <1>4 DEF ReachDown
  <2> DEFINE a == Context + grown[Order[f][s.down]].down
             g == Gaps[f][s.hi]
  <2>2. a \in Nat /\ g \in Nat
    BY <1>7, <1>8, WindowAssumption
  <2>3. down = Min({a, g})
    BY <2>1
  <2> HIDE DEF down, a, g
  <2>4. Min({a, g}) = IF a <= g THEN a ELSE g
    BY <2>2, MinOfTwo
  <2> QED BY <2>2, <2>3, <2>4
<1> HIDE DEF w, up, down
<1>11. ASSUME NEW t \in Sides PROVE up <= AboveEnd(Hunks[Order[f][s.lo]][t]) - 1
  <2>1. Order[f][s.lo] \in Hunk
    BY <1>2, <1>3
  <2>2. AboveEnd(Hunks[Order[f][s.lo]][t]) \in Nat \ {0}
    BY <2>1, HunksAreRanges
  <2> QED BY <1>7, <1>9, <2>2
<1>12. b.lo = s.lo /\ b.hi = s.hi /\ b.up = up /\ b.down = down /\ b.top = top /\ b.bottom = bottom
  OBVIOUS
<1>13. \E lo, hi, u, d, tp, bm : b = [lo |-> lo, hi |-> hi, up |-> u, down |-> d, top |-> tp, bottom |-> bm]
  OBVIOUS
<1> HIDE DEF b
<1>14. ReachOK(f, b)
  BY <1>2, <1>9, <1>10, <1>11, <1>12 DEF ReachOK, n
<1>15. BlockOK(f, b)
  BY <1>5, <1>12, <1>14 DEF BlockOK
<1> QED BY <1>1, <1>13, <1>15 DEF w

LEMMA BlocksAreOK ==
  ASSUME NEW f \in File, NEW listed, NEW grown \in [Hunk -> Growth]
  PROVE  LET bs == Blocks(WindowOf(f, listed, grown)) IN
         /\ IsSeq(bs) /\ Len(bs) \in Nat /\ DOMAIN bs = 1..Len(bs)
         /\ \A k \in 1..Len(bs) : BlockOK(f, bs[k])
<1> DEFINE w == WindowOf(f, listed, grown)
           n == Len(Order[f])
           spans == Spans(w)
           alone == [k \in DOMAIN spans |-> BlockOf(w, spans[k])]
           m == Len(spans)
           above(k) == IF k = 1 THEN {} ELSE Shared(alone[k - 1], alone[k])
           below(k) == IF k = Len(alone) THEN {} ELSE Shared(alone[k], alone[k + 1])
           counted(e, left) == IF left = {} THEN e ELSE <<[e[1] EXCEPT !.hidden = Max(left)]>>
           bs == [k \in DOMAIN alone |-> [alone[k] EXCEPT !.top = counted(@, above(k)),
                                                          !.bottom = counted(@, below(k))]]
<1>1. Blocks(w) = bs
  BY DEF Blocks
<1>2. spans \in Seq(SpanSet(n))
  <2>1. w.order = Order[f]
    BY DEF WindowOf
  <2>2. n \in Nat /\ \A k \in 1..n : SpanOf(w, k) \in SpanSet(n)
    BY OrderIsTheHunks, SpanOfIsSpan
  <2> HIDE DEF w
  <2> QED BY <2>1, <2>2, SpansAreSpans
<1> HIDE DEF spans
<1>3. m \in Nat /\ DOMAIN spans = 1..m /\ \A k \in 1..m : spans[k] \in SpanSet(n)
  BY <1>2
<1>4. ASSUME NEW k \in 1..m
      PROVE  /\ alone[k] = BlockOf(w, spans[k]) /\ BlockOK(f, alone[k])
             /\ \E lo, hi, up, down, top, bottom : alone[k] =
                  [lo |-> lo, hi |-> hi, up |-> up, down |-> down, top |-> top, bottom |-> bottom]
  <2>1. alone[k] = BlockOf(w, spans[k]) /\ spans[k] \in SpanSet(n)
    BY <1>3
  <2> HIDE DEF alone
  <2> DEFINE s == spans[k]
  <2>2. /\ BlockOK(f, BlockOf(w, s))
        /\ \E lo, hi, up, down, top, bottom : BlockOf(w, s) =
             [lo |-> lo, hi |-> hi, up |-> up, down |-> down, top |-> top, bottom |-> bottom]
    <3>1. s \in SpanSet(Len(Order[f]))
      BY <2>1
    <3> HIDE DEF s
    <3> QED BY <3>1, BlockOfIsOK
  <2> HIDE DEF w
  <2> QED BY <2>1, <2>2
<1>5. DOMAIN alone = 1..m
  BY <1>3
<1> HIDE DEF alone, w
<1>6. ASSUME NEW k \in 1..m PROVE BlockOK(f, bs[k])
  <2>1. PICK lo, hi, up, down, top, bottom : alone[k] =
          [lo |-> lo, hi |-> hi, up |-> up, down |-> down, top |-> top, bottom |-> bottom]
    BY <1>4
  <2>2. BlockOK(f, alone[k])
    BY <1>4
  <2>3. /\ alone[k].lo = lo /\ alone[k].hi = hi /\ alone[k].up = up /\ alone[k].down = down
        /\ alone[k].top = top /\ alone[k].bottom = bottom
    BY <2>1
  <2>4. EdgeOK(top) /\ EdgeOK(bottom)
    BY <2>2, <2>3 DEF BlockOK
  <2>5. (top = <<>> => above(k) = {}) /\ (bottom = <<>> => below(k) = {})
    BY <2>3 DEF Shared
  <2> HIDE DEF above, below
  <2>6. EdgeOK(counted(top, above(k))) /\ EdgeOK(counted(bottom, below(k)))
    <3>1. EdgeOK(IF above(k) = {} THEN top ELSE <<[top[1] EXCEPT !.hidden = Max(above(k))]>>)
      BY <2>4, <2>5, CountedIsOK
    <3>2. EdgeOK(IF below(k) = {} THEN bottom ELSE <<[bottom[1] EXCEPT !.hidden = Max(below(k))]>>)
      BY <2>4, <2>5, CountedIsOK
    <3> QED BY <3>1, <3>2
  <2>7. bs[k] = [alone[k] EXCEPT !.top = counted(@, above(k)), !.bottom = counted(@, below(k))]
    BY <1>5
  <2> HIDE DEF counted, bs, alone
  <2>8. DOMAIN alone[k] = {"lo", "hi", "up", "down", "top", "bottom"}
    BY <2>1
  <2>9. /\ bs[k].lo = lo /\ bs[k].hi = hi /\ bs[k].up = up /\ bs[k].down = down
        /\ bs[k].top = counted(top, above(k)) /\ bs[k].bottom = counted(bottom, below(k))
    BY <2>3, <2>7, <2>8
  <2>10. ReachOK(f, bs[k])
    BY <2>2, <2>3, <2>9 DEF BlockOK, ReachOK
  <2> QED BY <2>6, <2>9, <2>10 DEF BlockOK
<1>7. bs = [k \in 1..m |-> bs[k]]
  BY <1>5
<1> HIDE DEF bs
<1>8. IsSeq(bs) /\ DOMAIN bs = 1..m /\ Len(bs) = m
  BY <1>3, <1>7, FunctionIsSeq
<1> QED BY <1>1, <1>3, <1>6, <1>8 DEF w

-----------------------------------------------------------------------------
(* The rows of a file *)

LineRow(f, h, old, new) == [Row("line", f, h) EXCEPT !.old = old, !.new = new]

LEMMA LineIsSound ==
  ASSUME NEW h \in Hunk, NEW f, f = Hunks[h].file, NEW old \in Nat, NEW new \in Nat, old # 0 \/ new # 0
  PROVE  SoundRow(LineRow(f, h, old, new))
BY DEF LineRow, Row, SoundRow, Plain

LEMMA ContextIsSound ==
  ASSUME NEW h \in Hunk, NEW f, f = Hunks[h].file, NEW old \in Nat \ {0}, NEW new \in Nat \ {0}, NEW len \in Nat
  PROVE  Sound(ContextRows(f, h, old, new, len))
<1> DEFINE c == [n \in 1..len |-> LineRow(f, h, old + n - 1, new + n - 1)]
<1>1. ContextRows(f, h, old, new, len) = c
  BY DEF ContextRows, LineRow
<1>2. ASSUME NEW n \in 1..len PROVE SoundRow(c[n])
  <2>1. old + n - 1 \in Nat /\ new + n - 1 \in Nat /\ old + n - 1 # 0
    OBVIOUS
  <2> QED BY <2>1, LineIsSound
<1>3. c = [n \in 1..len |-> c[n]]
  OBVIOUS
<1> HIDE DEF c
<1>4. Sound(c)
  BY <1>2, <1>3, SoundEach
<1> QED BY <1>1, <1>4

LEMMA LineIsNumbered ==
  ASSUME NEW start \in Nat, NEW count \in Nat, count > 0 => start > 0, NEW n \in Nat \ {0}, n <= count
  PROVE  start + n - 1 \in Nat \ {0}
OBVIOUS

LEMMA ChangesAreSound ==
  ASSUME NEW h \in Hunk, NEW f, f = Hunks[h].file, NEW split
  PROVE  Sound(ChangeRows(f, h, split))
<1> DEFINE c == Hunks[h]
           Old(n) == [Row("line", f, h) EXCEPT !.old = c.old.start + n - 1]
           New(n) == [Row("line", f, h) EXCEPT !.new = c.new.start + n - 1]
           Both(n) == [Old(n) EXCEPT !.new = c.new.start + n - 1]
           Drawn(n) ==
             CASE n <= c.old.count /\ n <= c.new.count -> IF split THEN <<Both(n)>> ELSE <<Old(n), New(n)>>
               [] n > c.new.count -> <<Old(n)>>
               [] n > c.old.count -> <<New(n)>>
           most == Max({c.old.count, c.new.count})
           all == [n \in 1..most |-> Drawn(n)]
<1>1. ChangeRows(f, h, split) = FlattenSeq(all)
  BY DEF ChangeRows
<1>2. /\ c.old.start \in Nat /\ c.old.count \in Nat /\ (c.old.count > 0 => c.old.start > 0)
      /\ c.new.start \in Nat /\ c.new.count \in Nat /\ (c.new.count > 0 => c.new.start > 0)
  <2>1. "old" \in Sides /\ "new" \in Sides
    BY DEF Sides
  <2>2. IsRange(c["old"]) /\ IsRange(c["new"])
    BY <2>1, RowsAssumption
  <2> QED BY <2>2 DEF IsRange
<1>3. most = IF c.old.count >= c.new.count THEN c.old.count ELSE c.new.count
  BY <1>2, MaxOfTwo
<1> HIDE DEF most
<1>4. ASSUME NEW n \in 1..most PROVE Sound(Drawn(n))
  <2>0. n \in Nat \ {0}
    BY <1>2, <1>3
  <2>1. n <= c.old.count => SoundRow(Old(n))
    <3> DEFINE x == c.old.start + n - 1
    <3>1. n <= c.old.count => x \in Nat \ {0}
      <4> HIDE DEF c
      <4> QED BY <1>2, <2>0, LineIsNumbered
    <3> HIDE DEF x, c
    <3>2. x \in Nat \ {0} => SoundRow([Row("line", f, h) EXCEPT !.old = x])
      BY DEF Row, SoundRow, Plain
    <3> QED BY <3>1, <3>2 DEF x
  <2>2. n <= c.new.count => SoundRow(New(n))
    <3> DEFINE x == c.new.start + n - 1
    <3>1. n <= c.new.count => x \in Nat \ {0}
      <4> HIDE DEF c
      <4> QED BY <1>2, <2>0, LineIsNumbered
    <3> HIDE DEF x, c
    <3>2. x \in Nat \ {0} => SoundRow([Row("line", f, h) EXCEPT !.new = x])
      BY DEF Row, SoundRow, Plain
    <3> QED BY <3>1, <3>2 DEF x
  <2>3. n <= c.old.count /\ n <= c.new.count => SoundRow(Both(n))
    <3> DEFINE x == c.old.start + n - 1
               y == c.new.start + n - 1
    <3>1. n <= c.old.count /\ n <= c.new.count => x \in Nat \ {0} /\ y \in Nat
      <4> HIDE DEF c
      <4> QED BY <1>2, <2>0, LineIsNumbered
    <3> HIDE DEF x, y, c
    <3>2. x \in Nat \ {0} /\ y \in Nat => SoundRow([[Row("line", f, h) EXCEPT !.old = x] EXCEPT !.new = y])
      BY DEF Row, SoundRow, Plain
    <3> QED BY <3>1, <3>2 DEF x, y
  <2> HIDE DEF Old, New, Both
  <2>4. CASE n <= c.old.count /\ n <= c.new.count
    <3>1. Drawn(n) = IF split THEN <<Both(n)>> ELSE <<Old(n), New(n)>>
      BY <2>4, <1>2
    <3>2. Sound(<<Both(n)>>) /\ Sound(<<Old(n), New(n)>>)
      BY <2>1, <2>2, <2>3, <2>4, SoundOne, SoundTwo
    <3> HIDE DEF Drawn
    <3> QED BY <3>1, <3>2
  <2>5. CASE n > c.new.count
    <3>1. n <= c.old.count
      BY <2>5, <1>2, <1>3
    <3>2. Drawn(n) = <<Old(n)>>
      BY <2>5, <3>1, <1>2
    <3> HIDE DEF Drawn
    <3> QED BY <3>1, <3>2, <2>1, SoundOne
  <2>6. CASE n > c.old.count
    <3>1. n <= c.new.count
      BY <2>6, <1>2, <1>3
    <3>2. Drawn(n) = <<New(n)>>
      BY <2>6, <3>1, <1>2
    <3> HIDE DEF Drawn
    <3> QED BY <3>1, <3>2, <2>2, SoundOne
  <2>7. n \in Int /\ c.new.count \in Int /\ c.old.count \in Int
    BY <1>2, <1>3
  <2> HIDE DEF Drawn, c
  <2> QED BY <2>4, <2>5, <2>6, <2>7
<1>5. most \in Nat
  BY <1>2, <1>3
<1> HIDE DEF Drawn
<1>6. \A n \in 1..most : all[n] = Drawn(n)
  OBVIOUS
<1>7. all = [n \in 1..most |-> all[n]]
  OBVIOUS
<1> HIDE DEF all
<1>8. Sound(FlattenSeq(all))
  BY <1>4, <1>5, <1>6, <1>7, SoundParts
<1> QED BY <1>1, <1>8

LEMMA HeaderIsSound ==
  ASSUME NEW h \in Hunk, NEW f, f = Hunks[h].file, NEW listed
  PROVE  Sound(<<HeaderRow(f, h, listed)>>)
<1>1. SoundRow(HeaderRow(f, h, listed))
  BY DEF HeaderRow, Row, SoundRow, Plain
<1> QED BY <1>1, SoundOne

LEMMA EdgeIsSound ==
  ASSUME NEW f, NEW e, EdgeOK(e)
  PROVE  Sound(IF e = <<>> THEN <<>> ELSE <<EdgeRow(f, e[1])>>)
<1>1. CASE e = <<>>
  BY <1>1, SoundNone
<1>2. CASE e # <<>>
  <2>1. PICK x : e = <<x>> /\ EdgeShape(x)
    BY <1>2 DEF EdgeOK
  <2>2. PICK h, hidden, gap, next :
          \E side \in {"up", "down"} : x = [hunk |-> h, side |-> side, hidden |-> hidden, gap |-> gap, next |-> next]
    BY <2>1 DEF EdgeShape
  <2>3. PICK side \in {"up", "down"} : x = [hunk |-> h, side |-> side, hidden |-> hidden, gap |-> gap, next |-> next]
    BY <2>2
  <2>4. x.hunk = h /\ x.side = side /\ x.hidden = hidden /\ x.next = next
    BY <2>3
  <2> DEFINE crossing == x.next # {}
             r == EdgeRow(f, x)
  <2>5. r.kind = "edge" /\ r.side = side /\ r.crossing \in BOOLEAN
    BY <2>4 DEF EdgeRow, Row
  <2> HIDE DEF r
  <2>6. SoundRow(r)
    BY <2>5 DEF SoundRow, Plain
  <2>7. SoundRow(EdgeRow(f, x))
    BY <2>6 DEF r
  <2>8. Sound(<<EdgeRow(f, x)>>) /\ e[1] = x
    BY <2>1, <2>7, SoundOne
  <2> QED BY <1>2, <2>8
<1> QED BY <1>1, <1>2

LEMMA BlockIsSound ==
  ASSUME NEW f \in File, NEW listed, NEW grown, NEW b, BlockOK(f, b), NEW split
  PROVE  Sound(BlockRows(f, WindowOf(f, listed, grown), b, split))
<1> DEFINE w == WindowOf(f, listed, grown)
           h(k) == w.order[k]
           Gap(k, len) ==
             ContextRows(f, h(k), BelowStart(Hunks[h(k)].old), BelowStart(Hunks[h(k)].new), len)
           above(k) == IF k = b.lo THEN <<>> ELSE Gap(k - 1, w.gap[k - 1])
           Inner(k) == above(k) \o <<HeaderRow(f, h(k), w.listed)>> \o ChangeRows(f, h(k), split)
           first == Hunks[h(b.lo)]
           head == ContextRows(f, h(b.lo), AboveEnd(first.old) - b.up, AboveEnd(first.new) - b.up, b.up)
           parts == [n \in 1..(b.hi - b.lo + 1) |-> Inner(b.lo + n - 1)]
<1>1. BlockRows(f, w, b, split) = head \o FlattenSeq(parts) \o Gap(b.hi, b.down)
  BY DEF BlockRows
<1>2. /\ b.lo \in 1..Len(Order[f]) /\ b.hi \in 1..Len(Order[f]) /\ b.lo <= b.hi
      /\ b.up \in Nat /\ b.down \in Nat
      /\ \A s \in Sides : b.up <= AboveEnd(Hunks[Order[f][b.lo]][s]) - 1
  BY DEF BlockOK, ReachOK
<1>3. /\ Len(Order[f]) \in Nat
      /\ \A k \in 1..Len(Order[f]) : h(k) \in Hunk /\ f = Hunks[h(k)].file
  BY OrderIsTheHunks DEF WindowOf
<1>4. w.gap = Gaps[f] /\ w.order = Order[f]
  BY DEF WindowOf
<1>5. "old" \in Sides /\ "new" \in Sides
  BY DEF Sides
<1>6. ASSUME NEW k \in 1..Len(Order[f]), NEW len \in Nat PROVE Sound(Gap(k, len))
  <2>1. h(k) \in Hunk /\ f = Hunks[h(k)].file
    BY <1>3
  <2> HIDE DEF h
  <2>2. BelowStart(Hunks[h(k)]["old"]) \in Nat \ {0} /\ BelowStart(Hunks[h(k)]["new"]) \in Nat \ {0}
    BY <2>1, <1>5, HunksAreRanges
  <2> QED BY <2>1, <2>2, ContextIsSound
<1>7. Sound(head)
  <2>1. h(b.lo) \in Hunk /\ f = Hunks[h(b.lo)].file /\ h(b.lo) = Order[f][b.lo]
    BY <1>2, <1>3, <1>4
  <2> HIDE DEF h
  <2>2. AboveEnd(Hunks[h(b.lo)]["old"]) \in Nat /\ AboveEnd(Hunks[h(b.lo)]["new"]) \in Nat
    BY <2>1, <1>5, HunksAreRanges
  <2>3. b.up <= AboveEnd(Hunks[h(b.lo)]["old"]) - 1 /\ b.up <= AboveEnd(Hunks[h(b.lo)]["new"]) - 1
    BY <2>1, <1>2, <1>5
  <2>4. AboveEnd(first.old) - b.up \in Nat \ {0} /\ AboveEnd(first.new) - b.up \in Nat \ {0}
    BY <2>2, <2>3, <1>2
  <2> HIDE DEF first
  <2> QED BY <2>1, <2>4, <1>2, ContextIsSound
<1>8. ASSUME NEW k \in b.lo..b.hi PROVE Sound(Inner(k))
  <2>1. k \in 1..Len(Order[f]) /\ h(k) \in Hunk /\ f = Hunks[h(k)].file
    BY <1>2, <1>3
  <2>2. Sound(above(k))
    <3>1. CASE k = b.lo
      BY <3>1, SoundNone
    <3>2. CASE k # b.lo
      <4>1. k - 1 \in 1..Len(Order[f]) /\ k - 1 \in 0..Len(Order[f])
        BY <3>2, <1>2, <2>1
      <4>2. w.gap[k - 1] \in Nat
        BY <4>1, <1>4, GapsAreThere
      <4>3. Sound(Gap(k - 1, w.gap[k - 1]))
        <5> HIDE DEF Gap, w
        <5> QED BY <4>1, <4>2, <1>6
      <4> QED BY <3>2, <4>3
    <3> QED BY <3>1, <3>2
  <2> HIDE DEF above, h
  <2>3. Sound(<<HeaderRow(f, h(k), w.listed)>>)
    BY <2>1, HeaderIsSound
  <2>4. Sound(ChangeRows(f, h(k), split))
    BY <2>1, ChangesAreSound
  <2> HIDE DEF w
  <2>5. Sound(above(k) \o <<HeaderRow(f, h(k), w.listed)>>)
    BY <2>2, <2>3, SoundBoth
  <2> QED BY <2>4, <2>5, SoundBoth
<1>9. Sound(FlattenSeq(parts))
  <2> DEFINE m == b.hi - b.lo + 1
  <2>1. m \in Nat /\ \A n \in 1..m : b.lo + n - 1 \in b.lo..b.hi
    BY <1>2, <1>3
  <2>2. \A n \in 1..m : parts[n] = Inner(b.lo + n - 1)
    OBVIOUS
  <2>3. parts = [n \in 1..m |-> parts[n]]
    OBVIOUS
  <2> HIDE DEF parts, m, Inner
  <2>4. \A n \in 1..m : Sound(parts[n])
    BY <2>1, <2>2, <1>8
  <2> QED BY <2>1, <2>3, <2>4, SoundParts
<1>10. Sound(Gap(b.hi, b.down))
  <2> HIDE DEF Gap
  <2> QED BY <1>2, <1>6
<1> HIDE DEF head, parts, Gap
<1>11. Sound(head \o FlattenSeq(parts))
  BY <1>7, <1>9, SoundBoth
<1>12. Sound(head \o FlattenSeq(parts) \o Gap(b.hi, b.down))
  BY <1>10, <1>11, SoundBoth
<1> QED BY <1>1, <1>12 DEF w

LEMMA FileIsSound ==
  ASSUME NEW f \in File, NEW listed, NEW grown \in [Hunk -> Growth], NEW split
  PROVE  Sound(FileRows(f, listed, grown, split))
<1> DEFINE w == WindowOf(f, listed, grown)
           bs == Blocks(w)
           quiet(n) == bs[n].top = <<>> \/ (n > 1 /\ OneBand(bs[n - 1], bs[n]))
           meets(n) == bs[n].bottom # <<>> /\ n < Len(bs) /\ bs[n + 1].top # <<>>
           Top(n) == IF quiet(n) THEN <<>> ELSE <<EdgeRow(f, bs[n].top[1])>>
           Bottom(n) == IF bs[n].bottom = <<>> THEN <<>> ELSE <<EdgeRow(f, bs[n].bottom[1])>>
           After(n) == IF meets(n) THEN <<>> ELSE <<Row("blank", f, NoHunk)>>
           Middle(n) == BlockRows(f, w, bs[n], split)
           Drawn(n) == Top(n) \o Middle(n) \o Bottom(n) \o After(n)
           parts == [n \in DOMAIN bs |-> Drawn(n)]
           column == IF split THEN <<Row("column", f, NoHunk)>> ELSE <<>>
<1>1. FileRows(f, listed, grown, split) = column \o FlattenSeq(parts)
  BY DEF FileRows, Windows, Laid, WindowOf
<1>2. IsSeq(bs) /\ Len(bs) \in Nat /\ DOMAIN bs = 1..Len(bs) /\ \A k \in 1..Len(bs) : BlockOK(f, bs[k])
  BY BlocksAreOK
<1>3. \A n \in 1..Len(bs) : Sound(Middle(n))
  BY <1>2, BlockIsSound
<1> HIDE DEF bs, Middle
<1>4. Sound(column)
  <2>1. "column" \in Plain
    BY DEF Plain
  <2>2. Sound(<<Row("column", f, NoHunk)>>)
    BY <2>1, SoundPlain, SoundOne
  <2> QED BY <2>2, SoundNone
<1>5. ASSUME NEW n \in 1..Len(bs) PROVE Sound(Drawn(n))
  <2>1. EdgeOK(bs[n].top) /\ EdgeOK(bs[n].bottom)
    BY <1>2 DEF BlockOK
  <2>2. Sound(Top(n))
    <3>1. Sound(IF bs[n].top = <<>> THEN <<>> ELSE <<EdgeRow(f, bs[n].top[1])>>)
      BY <2>1, EdgeIsSound
    <3>2. CASE quiet(n)
      BY <3>2, SoundNone
    <3>3. CASE ~quiet(n)
      BY <3>1, <3>3
    <3> QED BY <3>2, <3>3
  <2>3. Sound(Bottom(n))
    BY <2>1, EdgeIsSound
  <2>4. Sound(After(n))
    <3>1. "blank" \in Plain
      BY DEF Plain
    <3>2. Sound(<<Row("blank", f, NoHunk)>>)
      BY <3>1, SoundPlain, SoundOne
    <3> HIDE DEF meets
    <3> QED BY <3>2, SoundNone
  <2>5. Sound(Middle(n))
    BY <1>3
  <2> HIDE DEF Top, Bottom, After
  <2>6. Sound(Top(n) \o Middle(n))
    BY <2>2, <2>5, SoundBoth
  <2>7. Sound(Top(n) \o Middle(n) \o Bottom(n))
    BY <2>3, <2>6, SoundBoth
  <2> QED BY <2>4, <2>7, SoundBoth
<1> HIDE DEF Drawn
<1>6. parts = [n \in 1..Len(bs) |-> parts[n]] /\ \A n \in 1..Len(bs) : parts[n] = Drawn(n)
  BY <1>2
<1> HIDE DEF parts
<1>7. Sound(FlattenSeq(parts))
  BY <1>2, <1>5, <1>6, SoundParts
<1> HIDE DEF column
<1>8. Sound(column \o FlattenSeq(parts))
  BY <1>4, <1>7, SoundBoth
<1> QED BY <1>1, <1>8

-----------------------------------------------------------------------------
(* Notes and threads between the lines *)

NoteOK(n) ==
  /\ DOMAIN n = {"id", "at", "reply", "sent"}
  /\ n.id \in Nat /\ n.at.hunk \in Hunk
NotesOK(notes) == IsSeq(notes) /\ \A k \in DOMAIN notes : NoteOK(notes[k])

ThreadOK(t) ==
  /\ DOMAIN t = {"id", "at", "resolved", "comments", "notes", "mine"}
  /\ t.id \in Nat \ {0} /\ IsSeq(t.comments)
  /\ t.at # <<>> => t.at.hunk \in Hunk
ThreadsOK(threads) == IsSeq(threads) /\ \A k \in DOMAIN threads : ThreadOK(threads[k])

LEMMA ThreadIsSound ==
  ASSUME NEW t, ThreadOK(t), NEW h \in Hunk \cup {NoHunk}, NEW notes, NotesOK(notes), NEW threads, NEW opened
  PROVE  Sound(ThreadRows(t, h, notes, threads, opened))
<1>1. ASSUME NEW c PROVE SoundRow(ThreadRow(t, h, c))
  <2>1. t.id # 0
    BY DEF ThreadOK
  <2> QED BY <2>1 DEF ThreadRow, Row, SoundRow, Plain
<1>2. ASSUME NEW f, NEW n PROVE SoundRow(NoteRow(f, h, n))
  BY DEF NoteRow, Row, SoundRow, Plain
<1> DEFINE places == {n \in DOMAIN notes : notes[n].reply = t.id /\ ~Twinned(notes[n], threads)}
           replies == Taken(notes, places)
           said == [c \in DOMAIN t.comments |-> ThreadRow(t, h, t.comments[c])]
           drafted == [n \in DOMAIN replies |-> NoteRow(t.at.file, h, replies[n])]
<1>3. CASE t.resolved /\ t.id \notin opened
  <2>1. ThreadRows(t, h, notes, threads, opened) = <<ThreadRow(t, h, t.comments[1])>>
    BY <1>3 DEF ThreadRows
  <2>2. SoundRow(ThreadRow(t, h, t.comments[1]))
    BY <1>1
  <2> QED BY <2>1, <2>2, SoundOne
<1>4. CASE ~(t.resolved /\ t.id \notin opened)
  <2>1. ThreadRows(t, h, notes, threads, opened) = said \o drafted
    BY <1>4 DEF ThreadRows
  <2>2. IsSeq(t.comments)
    BY DEF ThreadOK
  <2>3. IsSeq(replies)
    <3>1. places \in SUBSET DOMAIN notes /\ IsSeq(notes)
      BY DEF NotesOK
    <3> HIDE DEF places
    <3> QED BY <3>1, TakenIsSeq
  <2>4. Len(t.comments) \in Nat /\ DOMAIN t.comments = 1..Len(t.comments)
    BY <2>2, SeqIs
  <2> HIDE DEF replies
  <2>5. Len(replies) \in Nat /\ DOMAIN replies = 1..Len(replies)
    BY <2>3, SeqIs
  <2>6. Sound(said)
    <3>1. said = [c \in 1..Len(t.comments) |-> said[c]] /\ \A c \in 1..Len(t.comments) : SoundRow(said[c])
      BY <2>4, <1>1
    <3> HIDE DEF said
    <3> QED BY <2>4, <3>1, SoundEach
  <2>7. Sound(drafted)
    <3>1. drafted = [n \in 1..Len(replies) |-> drafted[n]] /\ \A n \in 1..Len(replies) : SoundRow(drafted[n])
      BY <2>5, <1>2
    <3> HIDE DEF drafted
    <3> QED BY <2>5, <3>1, SoundEach
  <2> HIDE DEF said, drafted
  <2> QED BY <2>1, <2>6, <2>7, SoundBoth
<1> QED BY <1>3, <1>4

LEMMA ActsOnAHunk ==
  ASSUME NEW r, SoundRow(r)
  PROVE  HunkAt(r) \in Hunk \cup {NoHunk}
BY DEF SoundRow, HunkAt, Plain

LEMMA PlacedNotesAreSound ==
  ASSUME NEW rows, Sound(rows), NEW notes, NotesOK(notes), NEW threads, ThreadsOK(threads), NEW opened
  PROVE  Sound(PlaceNotes(rows, notes, threads, opened))
<1> DEFINE places == {t \in DOMAIN threads : threads[t].at # <<>>}
           placed == Taken(threads, places)
           free == {n \in DOMAIN notes :
                     /\ ~Twinned(notes[n], threads)
                     /\ ~ \E k \in DOMAIN placed : placed[k].id = notes[n].reply}
           loose == Taken(notes, free)
           Ts(i) == {k \in DOMAIN placed : Under(rows, i, placed[k].at)}
           Ns(i) == {k \in DOMAIN loose : Under(rows, i, loose[k].at)}
           T(i) == Taken(placed, Ts(i))
           N(i) == Taken(loose, Ns(i))
           hers(i) == [k \in DOMAIN T(i) |-> ThreadRows(T(i)[k], HunkAt(rows[i]), notes, threads, opened)]
           ours(i) == [k \in DOMAIN N(i) |-> NoteRow(rows[i].file, HunkAt(rows[i]), N(i)[k])]
           Here(i) == <<rows[i]>> \o FlattenSeq(hers(i)) \o ours(i)
           all == [i \in DOMAIN rows |-> Here(i)]
<1>1. PlaceNotes(rows, notes, threads, opened) =
        IF placed = <<>> /\ loose = <<>> THEN rows ELSE FlattenSeq(all)
  BY DEF PlaceNotes
<1>2. /\ IsSeq(placed)
      /\ \A k \in DOMAIN placed : \E i \in places : placed[k] = threads[i]
  <2>1. IsSeq(threads) /\ places \in SUBSET DOMAIN threads
    BY DEF ThreadsOK
  <2> HIDE DEF places
  <2> QED BY <2>1, TakenIsSeq
<1>3. \A k \in DOMAIN placed : ThreadOK(placed[k])
  <2>1. \A i \in places : ThreadOK(threads[i])
    BY DEF ThreadsOK
  <2> HIDE DEF placed
  <2> QED BY <1>2, <2>1
<1> HIDE DEF placed
<1>4. IsSeq(loose)
  <2>1. IsSeq(notes) /\ free \in SUBSET DOMAIN notes
    BY DEF NotesOK
  <2> HIDE DEF free
  <2> QED BY <2>1, TakenIsSeq
<1> HIDE DEF loose
<1>5. ASSUME NEW i \in DOMAIN rows PROVE Sound(Here(i))
  <2>0. SoundRow(rows[i])
    BY DEF Sound
  <2>1. Sound(<<rows[i]>>)
    BY <2>0, SoundOne
  <2>9. HunkAt(rows[i]) \in Hunk \cup {NoHunk}
    BY <2>0, ActsOnAHunk
  <2>2. IsSeq(T(i)) /\ \A k \in DOMAIN T(i) : \E j \in Ts(i) : T(i)[k] = placed[j]
    <3>1. Ts(i) \in SUBSET DOMAIN placed
      OBVIOUS
    <3> HIDE DEF Ts
    <3> QED BY <3>1, <1>2, TakenIsSeq
  <2>3. \A k \in DOMAIN T(i) : ThreadOK(T(i)[k])
    <3>1. \A j \in Ts(i) : ThreadOK(placed[j])
      BY <1>3
    <3> HIDE DEF T, Ts
    <3> QED BY <2>2, <3>1
  <2>4. IsSeq(N(i))
    <3>1. Ns(i) \in SUBSET DOMAIN loose
      OBVIOUS
    <3> HIDE DEF Ns
    <3> QED BY <3>1, <1>4, TakenIsSeq
  <2> HIDE DEF T, N
  <2>5. Len(T(i)) \in Nat /\ DOMAIN T(i) = 1..Len(T(i)) /\ Len(N(i)) \in Nat /\ DOMAIN N(i) = 1..Len(N(i))
    BY <2>2, <2>4, SeqIs
  <2>6. Sound(FlattenSeq(hers(i)))
    <3>1. \A k \in 1..Len(T(i)) : hers(i)[k] = ThreadRows(T(i)[k], HunkAt(rows[i]), notes, threads, opened)
      BY <2>5
    <3>2. hers(i) = [k \in 1..Len(T(i)) |-> hers(i)[k]]
      BY <2>5
    <3> HIDE DEF hers
    <3>3. \A k \in 1..Len(T(i)) : Sound(hers(i)[k])
      BY <2>3, <2>5, <2>9, <3>1, ThreadIsSound
    <3> QED BY <2>5, <3>2, <3>3, SoundParts
  <2>7. Sound(ours(i))
    <3>1. ASSUME NEW f, NEW h \in Hunk \cup {NoHunk}, NEW n PROVE SoundRow(NoteRow(f, h, n))
      BY DEF NoteRow, Row, SoundRow, Plain
    <3>2. \A k \in 1..Len(N(i)) : SoundRow(ours(i)[k])
      BY <2>5, <2>9, <3>1
    <3>3. ours(i) = [k \in 1..Len(N(i)) |-> ours(i)[k]]
      BY <2>5
    <3> HIDE DEF ours
    <3> QED BY <2>5, <3>2, <3>3, SoundEach
  <2> HIDE DEF hers, ours
  <2>8. Sound(<<rows[i]>> \o FlattenSeq(hers(i)))
    BY <2>1, <2>6, SoundBoth
  <2> QED BY <2>7, <2>8, SoundBoth
<1>6. Sound(FlattenSeq(all))
  <2>1. Len(rows) \in Nat /\ DOMAIN rows = 1..Len(rows)
    BY SeqIs DEF Sound
  <2> HIDE DEF Here
  <2>2. all = [i \in 1..Len(rows) |-> all[i]] /\ \A i \in 1..Len(rows) : Sound(all[i])
    BY <2>1, <1>5
  <2> HIDE DEF all
  <2> QED BY <2>1, <2>2, SoundParts
<1> HIDE DEF all
<1> QED BY <1>1, <1>6

-----------------------------------------------------------------------------
(* A group's rows *)

LEMMA ListIsSound ==
  ASSUME NEW listed, listed \subseteq Hunk, NEW p, p.grown \in [Hunk -> Growth],
         NotesOK(p.notes), ThreadsOK(p.threads)
  PROVE  Sound(HunkListRows(listed, p))
<1> DEFINE S == {Hunks[h].file : h \in listed}
           files == InOrder(S)
           head(n) == <<Row("file", files[n], NoHunk)>>
           body(n) == FileRows(files[n], listed, p.grown, p.split)
           all == [n \in DOMAIN files |-> head(n) \o body(n)]
<1>1. HunkListRows(listed, p) = PlaceNotes(FlattenSeq(all), p.notes, p.threads, p.opened)
  BY DEF HunkListRows
<1>2. S \subseteq File /\ S \subseteq Nat /\ IsFiniteSet(S)
  <2>1. \A h \in Hunk : Hunks[h].file \in File
    BY RowsAssumption
  <2>2. S \subseteq File
    BY <2>1
  <2>3. Len(Path) \in Nat /\ File = 1..Len(Path)
    BY RowsAssumption
  <2> HIDE DEF S
  <2> QED BY <2>2, <2>3, FinitePlaces
<1> HIDE DEF S
<1>3. /\ Len(files) \in Nat /\ DOMAIN files = 1..Len(files)
      /\ \A k \in 1..Len(files) : files[k] \in S
  BY <1>2, InOrderIsSeq
<1> HIDE DEF files
<1>4. ASSUME NEW n \in 1..Len(files) PROVE Sound(head(n) \o body(n))
  <2>1. files[n] \in File
    BY <1>2, <1>3
  <2>2. Sound(body(n))
    BY <2>1, FileIsSound
  <2>3. Sound(head(n))
    <3>1. "file" \in Plain
      BY DEF Plain
    <3> QED BY <3>1, SoundPlain, SoundOne
  <2> HIDE DEF head, body
  <2> QED BY <2>2, <2>3, SoundBoth
<1>5. all = [n \in 1..Len(files) |-> all[n]] /\ \A n \in 1..Len(files) : all[n] = head(n) \o body(n)
  BY <1>3
<1> HIDE DEF all, head, body
<1>6. Sound(FlattenSeq(all))
  BY <1>3, <1>4, <1>5, SoundParts
<1> QED BY <1>1, <1>6, PlacedNotesAreSound

\* What a fold leaves to read are hunks: every class has one.
LEMMA ReadAreHunks ==
  ASSUME NEW g \in DOMAIN Groups, NEW unfolded \in BOOLEAN
  PROVE  Read(g, unfolded) \subseteq Hunk
<1>1. Groups[g].effort \in {"focus", "skim", "noise"} /\ Groups[g].classes \subseteq Class
  BY RowsAssumption
<1>2. Members(g) \subseteq Hunk
  BY DEF Members, Member
<1>3. \A c \in Groups[g].classes : Min(Member(c)) \in Hunk
  <2> SUFFICES ASSUME NEW c \in Groups[g].classes PROVE Min(Member(c)) \in Hunk
    OBVIOUS
  <2>1. c \in Class
    BY <1>1
  <2>2. Member(c) # {} /\ Member(c) \subseteq Hunk
    BY <2>1 DEF Class, Member
  <2>3. Member(c) \subseteq Nat
    BY <2>2, HunkIsNumbered
  <2>4. Min(Member(c)) \in Member(c)
    BY <2>2, <2>3, MinIsLeast
  <2> QED BY <2>2, <2>4
<1>4. CASE unfolded \/ Groups[g].effort = "focus"
  <2>1. Read(g, unfolded) = Members(g)
    BY <1>4 DEF Read
  <2> QED BY <1>2, <2>1
<1>5. CASE ~unfolded /\ Groups[g].effort = "noise"
  <2>1. Read(g, unfolded) = {}
    BY <1>5 DEF Read
  <2> QED BY <2>1
<1>6. CASE ~unfolded /\ Groups[g].effort = "skim"
  <2>1. Read(g, unfolded) = {Min(Member(c)) : c \in Groups[g].classes}
    BY <1>6 DEF Read
  <2> QED BY <1>3, <2>1
<1> QED BY <1>1, <1>4, <1>5, <1>6

LEMMA GroupIsSound ==
  ASSUME NEW g \in DOMAIN Groups, NEW p, p.grown \in [Hunk -> Growth],
         NotesOK(p.notes), ThreadsOK(p.threads)
  PROVE  Sound(GroupRows(g, p))
<1> DEFINE read == Read(g, g \in p.unfolded)
           top == <<Row("group", 0, NoHunk), Row("blank", 0, NoHunk)>>
           fold == IF read = Members(g) THEN <<>> ELSE <<Row("fold", 0, NoHunk)>>
<1>1. GroupRows(g, p) = top \o HunkListRows(read, p) \o fold
  BY DEF GroupRows
<1>2. read \subseteq Hunk
  <2>1. (g \in p.unfolded) \in BOOLEAN
    OBVIOUS
  <2> QED BY <2>1, ReadAreHunks
<1> HIDE DEF read
<1>3. Sound(HunkListRows(read, p))
  BY <1>2, ListIsSound
<1>4. "group" \in Plain /\ "blank" \in Plain /\ "fold" \in Plain
  BY DEF Plain
<1>5. /\ Sound(<<Row("group", 0, NoHunk)>>) /\ Sound(<<Row("blank", 0, NoHunk)>>)
      /\ Sound(<<Row("fold", 0, NoHunk)>>)
  BY <1>4, SoundPlain, SoundOne
<1>6. Sound(top)
  BY <1>4, SoundPlain, SoundTwo
<1>7. Sound(fold)
  BY <1>5, SoundNone
<1> HIDE DEF top, fold
<1>8. Sound(top \o HunkListRows(read, p))
  BY <1>3, <1>6, SoundBoth
<1>9. Sound(top \o HunkListRows(read, p) \o fold)
  BY <1>7, <1>8, SoundBoth
<1> QED BY <1>1, <1>9

-----------------------------------------------------------------------------
(* The pane *)

Shaped(p) ==
  /\ DOMAIN p = {"view", "entry", "unfolded", "folded", "grown", "split", "notes", "threads",
                 "opened", "rows", "cursor", "focus"}
  /\ p.view = "groups"
  /\ DOMAIN p.entry = {"groups", "files"} /\ p.entry.groups \in DOMAIN Groups
  /\ p.grown \in [Hunk -> Growth]
  /\ NotesOK(p.notes) /\ ThreadsOK(p.threads)

PaneOK(p) == Shaped(p) /\ Sound(p.rows)

\* Where the reader goes changes no note and no thread.
Keeps(p, q) == PaneOK(q) /\ q.notes = p.notes /\ q.threads = p.threads

LEMMA KeepsItself ==
  ASSUME NEW p, PaneOK(p)
  PROVE  Keeps(p, p)
BY DEF Keeps

LEMMA KeepsBoth ==
  ASSUME NEW p, NEW q, NEW r, Keeps(p, q), Keeps(q, r)
  PROVE  Keeps(p, r)
BY DEF Keeps

LEMMA CursorIsKept ==
  ASSUME NEW p, PaneOK(p), NEW c, NEW s
  PROVE  Keeps(p, [p EXCEPT !.cursor = c]) /\ Keeps(p, [p EXCEPT !.cursor = c, !.focus = s])
         /\ Keeps(p, [p EXCEPT !.focus = s])
BY DEF Keeps, PaneOK, Shaped

LEMMA RebuiltIsKept ==
  ASSUME NEW p, Shaped(p)
  PROVE  Keeps(p, Rebuilt(p)) /\ Entry(p) \in DOMAIN Groups
<1> DEFINE rows == RowsOf(p)
           c == IF Selectable(rows[Min({p.cursor, Len(rows)})]) THEN Min({p.cursor, Len(rows)})
                ELSE First(NextSelectable(rows, 1), 1)
<1>1. Rebuilt(p) = [p EXCEPT !.rows = rows, !.cursor = c]
  BY DEF Rebuilt, LaidOut, Placed
<1>2. Entry(p) \in DOMAIN Groups
  BY DEF Entry, Shaped
<1>3. Sound(rows)
  <2>1. rows = GroupRows(Entry(p), p)
    BY DEF RowsOf, Shaped
  <2>2. p.grown \in [Hunk -> Growth] /\ NotesOK(p.notes) /\ ThreadsOK(p.threads)
    BY DEF Shaped
  <2> HIDE DEF rows
  <2> QED BY <1>2, <2>1, <2>2, GroupIsSound
<1> HIDE DEF rows, c
<1> DEFINE q == [p EXCEPT !.rows = rows, !.cursor = c]
<1>4. q.rows = rows /\ q.notes = p.notes /\ q.threads = p.threads /\ Shaped(q)
  BY DEF Shaped
<1> HIDE DEF q
<1>5. Keeps(p, q)
  BY <1>3, <1>4 DEF Keeps, PaneOK
<1> QED BY <1>1, <1>2, <1>5 DEF q

LEMMA EntryIsKept ==
  ASSUME NEW p, PaneOK(p), NEW e \in Nat \ {0}
  PROVE  Keeps(p, SelectEntry(p, e))
<1> DEFINE n == Min({e, Cardinality(EntriesOf(p))})
           q == [p EXCEPT !.entry[p.view] = n, !.cursor = 1]
<1>1. SelectEntry(p, e) = Rebuilt(q)
  BY DEF SelectEntry
<1>2. n \in DOMAIN Groups
  <2>1. EntriesOf(p) = DOMAIN Groups
    BY DEF EntriesOf, PaneOK, Shaped
  <2>2. Len(Groups) \in Nat \ {0} /\ DOMAIN Groups = 1..Len(Groups)
    BY RowsAssumption
  <2>3. Cardinality(1..Len(Groups)) = Len(Groups)
    <3>1. 1 \in Int /\ Len(Groups) \in Int
      BY <2>2
    <3>2. Cardinality(1..Len(Groups)) = IF 1 > Len(Groups) THEN 0 ELSE Len(Groups) - 1 + 1
      BY <3>1, FS_Interval
    <3> QED BY <2>2, <3>2
  <2> DEFINE l == Len(Groups)
  <2>4. n = Min({e, l})
    BY <2>1, <2>2, <2>3
  <2>5. Min({e, l}) = IF e <= l THEN e ELSE l
    <3>1. e \in Int /\ l \in Int
      BY <2>2
    <3> HIDE DEF l
    <3> QED BY <3>1, MinOfTwo
  <2> HIDE DEF n
  <2> QED BY <2>2, <2>4, <2>5
<1> HIDE DEF n
<1>3. Shaped(q) /\ q.notes = p.notes /\ q.threads = p.threads
  BY <1>2 DEF PaneOK, Shaped
<1> HIDE DEF q
<1>4. Keeps(q, Rebuilt(q))
  BY <1>3, RebuiltIsKept
<1> QED BY <1>1, <1>3, <1>4 DEF Keeps

LEMMA FoldIsKept ==
  ASSUME NEW p, PaneOK(p)
  PROVE  Keeps(p, ToggleFold(p)) /\ \A id : Keeps(p, ToggleThread(p, id)) /\ Keeps(p, Rebuilt(p))
<1>1. Keeps(p, ToggleFold(p))
  <2> DEFINE u == IF Entry(p) \in p.unfolded THEN p.unfolded \ {Entry(p)} ELSE p.unfolded \cup {Entry(p)}
             q == [p EXCEPT !.unfolded = u]
  <2>1. ToggleFold(p) = Rebuilt(q)
    BY DEF ToggleFold, PaneOK, Shaped
  <2> HIDE DEF u
  <2>2. Shaped(q) /\ q.notes = p.notes /\ q.threads = p.threads
    BY DEF PaneOK, Shaped
  <2> HIDE DEF q
  <2>3. Keeps(q, Rebuilt(q))
    BY <2>2, RebuiltIsKept
  <2> QED BY <2>1, <2>2, <2>3 DEF Keeps
<1>2. ASSUME NEW id PROVE Keeps(p, ToggleThread(p, id))
  <2> DEFINE o == IF id \in p.opened THEN p.opened \ {id} ELSE p.opened \cup {id}
             q == [p EXCEPT !.opened = o]
  <2>1. ToggleThread(p, id) = Rebuilt(q)
    BY DEF ToggleThread, PaneOK, Shaped
  <2> HIDE DEF o
  <2>2. Shaped(q) /\ q.notes = p.notes /\ q.threads = p.threads
    BY DEF PaneOK, Shaped
  <2> HIDE DEF q
  <2>3. Keeps(q, Rebuilt(q))
    BY <2>2, RebuiltIsKept
  <2> QED BY <2>1, <2>2, <2>3 DEF Keeps
<1>3. Keeps(p, Rebuilt(p))
  BY RebuiltIsKept DEF PaneOK
<1> QED BY <1>1, <1>2, <1>3

\* A gap pulled open leaves the others as they are.
LEMMA GrownIsKept ==
  ASSUME NEW p, PaneOK(p), NEW h, NEW g, h \in Hunk => g \in Growth
  PROVE  Keeps(p, Rebuilt([p EXCEPT !.grown[h] = g]))
<1> DEFINE q == [p EXCEPT !.grown[h] = g]
<1>1. p.grown \in [Hunk -> Growth] /\ [p.grown EXCEPT ![h] = g] \in [Hunk -> Growth]
  BY DEF PaneOK, Shaped
<1>2. q.grown = [p.grown EXCEPT ![h] = g]
  BY DEF PaneOK, Shaped
<1>3. Shaped(q) /\ q.notes = p.notes /\ q.threads = p.threads
  BY <1>1, <1>2 DEF PaneOK, Shaped
<1> HIDE DEF q
<1>4. Keeps(q, Rebuilt(q))
  BY <1>3, RebuiltIsKept
<1>5. Keeps(p, Rebuilt(q))
  BY <1>3, <1>4 DEF Keeps
<1> QED BY <1>5 DEF q

LEMMA ExpandIsKept ==
  ASSUME NEW p, PaneOK(p), RowAt(p).kind = "edge"
  PROVE  Keeps(p, Expand(p))
<1> DEFINE edge == RowAt(p)
           h == edge.hunk
           g == Expansion(p.grown[h], edge.side, edge.crossing)
           q == Rebuilt([p EXCEPT !.grown[h] = g])
<1>1. Expand(p) = OnEdge(q, edge)
  BY DEF Expand, ExpandedAt
<1>2. edge.side \in {"up", "down"} /\ edge.crossing \in BOOLEAN
  <2>1. p.cursor \in DOMAIN p.rows
    <3>1. Row("blank", 0, NoHunk).kind = "blank"
      BY DEF Row
    <3> QED BY <3>1 DEF RowAt
  <2>2. SoundRow(edge)
    BY <2>1 DEF PaneOK, Sound, RowAt
  <2> QED BY <2>2 DEF SoundRow
<1> HIDE DEF edge
<1>3. h \in Hunk => g \in Growth
  <2> SUFFICES ASSUME h \in Hunk PROVE g \in Growth
    OBVIOUS
  <2> DEFINE e == p.grown[h]
  <2>1. e \in Growth
    BY DEF PaneOK, Shaped
  <2> HIDE DEF e
  <2>2. PICK x \in Growth : x = e
    BY <2>1
  <2>3. e.up \in Nat /\ e.down \in Nat /\ e.crossed_up \in Nat /\ e.crossed_down \in Nat
    BY <2>1 DEF Growth
  <2>4. Step \in Nat
    BY RowsAssumption
  <2>5. /\ [e EXCEPT !.up = @ + Step] \in Growth /\ [e EXCEPT !.down = @ + Step] \in Growth
        /\ [e EXCEPT !.crossed_up = @ + 1, !.up = 0] \in Growth
        /\ [e EXCEPT !.crossed_down = @ + 1, !.down = 0] \in Growth
    <3> DEFINE a == e.up + Step
               b == e.down + Step
               c == e.crossed_up + 1
               d == e.crossed_down + 1
    <3>1. a \in Nat /\ b \in Nat /\ c \in Nat /\ d \in Nat
      BY <2>3, <2>4
    <3> HIDE DEF a, b, c, d
    <3>2. /\ [e EXCEPT !.up = a] \in Growth /\ [e EXCEPT !.down = b] \in Growth
          /\ [e EXCEPT !.crossed_up = c, !.up = 0] \in Growth
          /\ [e EXCEPT !.crossed_down = d, !.down = 0] \in Growth
      BY <2>1, <3>1 DEF Growth
    <3> QED BY <3>2 DEF a, b, c, d
  <2>6. g = Expansion(e, edge.side, edge.crossing)
    BY DEF e
  <2> HIDE DEF g
  <2> QED BY <1>2, <2>5, <2>6 DEF Expansion
<1> HIDE DEF g
<1>4. Keeps(p, q)
  BY <1>3, GrownIsKept
<1> HIDE DEF q
<1>5. Keeps(q, OnEdge(q, edge))
  BY <1>4, CursorIsKept DEF OnEdge, Keeps
<1> QED BY <1>1, <1>4, <1>5, KeepsBoth

-----------------------------------------------------------------------------
(* Jumps *)

LEMMA GroupOfIsAGroup ==
  ASSUME NEW h \in Hunk
  PROVE  GroupOf(h) \in DOMAIN Groups
<1>1. Hunks[h].class \in Class
  BY DEF Class
<1>2. \E g \in DOMAIN Groups : Hunks[h].class \in Groups[g].classes
  BY <1>1, RowsAssumption
<1> QED BY <1>2 DEF GroupOf

LEMMA GroupsAreNumbered == DOMAIN Groups \subseteq Nat \ {0}
<1>1. DOMAIN Groups = 1..Len(Groups) /\ Len(Groups) \in Nat
  BY RowsAssumption
<1> QED BY <1>1

LEMMA OwnerIsAGroup ==
  ASSUME NEW f, NEW line, GroupOfLine(f, line) # {}
  PROVE  First(GroupOfLine(f, line), NoHunk) \in DOMAIN Groups
<1> DEFINE holding == {h \in HunksOf(f) : Within(h, line)}
           owners == {GroupOf(h) : h \in HunksOf(f)}
           S == GroupOfLine(f, line)
<1>1. HunksOf(f) \subseteq Hunk
  BY DEF HunksOf
<1>2. holding # {} => GroupOf(Min(holding)) \in DOMAIN Groups
  <2> SUFFICES ASSUME holding # {} PROVE GroupOf(Min(holding)) \in DOMAIN Groups
    OBVIOUS
  <2>1. holding \subseteq Hunk /\ holding \subseteq Nat
    BY <1>1, HunkIsNumbered
  <2> HIDE DEF holding
  <2>2. Min(holding) \in Hunk
    BY <2>1, MinIsLeast
  <2> QED BY <2>2, GroupOfIsAGroup
<1>3. owners \subseteq DOMAIN Groups
  BY <1>1, GroupOfIsAGroup
<1>4. owners # {} => Min(owners) \in DOMAIN Groups
  <2>1. owners \subseteq Nat
    BY <1>3, GroupsAreNumbered
  <2> HIDE DEF owners
  <2> QED BY <1>3, <2>1, MinIsLeast
<1>5. S = IF holding # {} THEN {GroupOf(Min(holding))} ELSE IF owners # {} THEN {Min(owners)} ELSE {}
  BY DEF GroupOfLine
<1> HIDE DEF holding, owners, S
<1>6. S # {}
  BY DEF S
<1>7. PICK g \in DOMAIN Groups : S = {g}
  BY <1>2, <1>4, <1>5, <1>6
<1>8. Min(S) = g
  <2>1. g \in Nat
    BY GroupsAreNumbered
  <2>2. S \subseteq Nat
    BY <1>7, <2>1
  <2>3. Min(S) \in S
    BY <1>6, <2>2, MinIsLeast
  <2> QED BY <1>7, <2>3
<1> QED BY <1>6, <1>8 DEF First, S

LEMMA RevealIsKept ==
  ASSUME NEW p, PaneOK(p), NEW f, NEW line \in Int
  PROVE  Keeps(p, RevealLine(p, f, line))
<1> DEFINE top(h)  == Max({Hunks[h].new.start, 1})
           bot(h)  == top(h) + Max({Hunks[h].new.count, 1})
           away(h) == IF bot(h) <= line THEN line + 1 - bot(h) ELSE top(h) - line
           h == Min({x \in HunksOf(f) : \A g \in HunksOf(f) : away(x) <= away(g)})
           still == \/ HunksOf(f) = {}
                    \/ \E g \in HunksOf(f) : line \in top(g) .. bot(g) - 1
                    \/ away(h) > MostRevealed
           d == Max({p.grown[h].down, away(h)})
           u == Max({p.grown[h].up, away(h)})
           down == [p.grown[h] EXCEPT !.down = d]
           up == [p.grown[h] EXCEPT !.up = u]
<1>1. RevealLine(p, f, line) =
        IF still THEN p
        ELSE Rebuilt(IF bot(h) <= line THEN [p EXCEPT !.grown[h].down = d] ELSE [p EXCEPT !.grown[h].up = u])
  BY DEF RevealLine
<1>2. p.grown \in [Hunk -> Growth]
  BY DEF PaneOK, Shaped
<1>3. h \in Hunk => away(h) \in Int
  <2> SUFFICES ASSUME h \in Hunk PROVE away(h) \in Int
    OBVIOUS
  <2>1. Hunks[h]["new"].start \in Nat /\ Hunks[h]["new"].count \in Nat
    <3>1. "new" \in Sides
      BY DEF Sides
    <3> HIDE DEF h
    <3> QED BY <3>1, HunksAreRanges
  <2> HIDE DEF h
  <2>2. top(h) \in Int
    BY <2>1, MaxOfTwo
  <2>3. bot(h) \in Int
    <3>1. Max({Hunks[h].new.count, 1}) \in Int
      BY <2>1, MaxOfTwo
    <3> HIDE DEF top
    <3> QED BY <2>2, <3>1
  <2> HIDE DEF top, bot
  <2> QED BY <2>2, <2>3
<1> HIDE DEF away
<1>4. h \in Hunk => down \in Growth /\ up \in Growth
  <2> SUFFICES ASSUME h \in Hunk PROVE down \in Growth /\ up \in Growth
    OBVIOUS
  <2> HIDE DEF h
  <2>1. p.grown[h] \in Growth /\ away(h) \in Int
    BY <1>2, <1>3 DEF h
  <2>2. p.grown[h].up \in Nat /\ p.grown[h].down \in Nat
    BY <2>1 DEF Growth
  <2>3. d \in Nat /\ u \in Nat
    BY <2>1, <2>2, MaxOfTwo
  <2> HIDE DEF d, u
  <2> QED BY <2>1, <2>3 DEF Growth
<1> HIDE DEF still, h, d, u, bot
<1>5. [p EXCEPT !.grown[h].down = d] = [p EXCEPT !.grown[h] = down]
  BY DEF PaneOK, Shaped
<1>6. [p EXCEPT !.grown[h].up = u] = [p EXCEPT !.grown[h] = up]
  BY DEF PaneOK, Shaped
<1> HIDE DEF down, up
<1>7. Keeps(p, Rebuilt([p EXCEPT !.grown[h] = down])) /\ Keeps(p, Rebuilt([p EXCEPT !.grown[h] = up]))
  BY <1>4, GrownIsKept
<1>8. Keeps(p, p)
  BY KeepsItself
<1> QED BY <1>1, <1>5, <1>6, <1>7, <1>8

LEMMA LandingIsKept ==
  ASSUME NEW p, PaneOK(p)
  PROVE  /\ \A row : Keeps(p, LandOn(p, row))
         /\ \A f : Keeps(p, LandNear(p, f))
         /\ \A f, line : Keeps(p, LandOnLine(p, f, line))
         /\ \A kind, id : Keeps(p, LandOnNote(p, kind, id))
<1>1. Keeps(p, p)
  BY KeepsItself
<1>2. ASSUME NEW row PROVE Keeps(p, LandOn(p, row))
  BY CursorIsKept DEF LandOn
<1>3. ASSUME NEW f PROVE Keeps(p, LandNear(p, f))
  BY <1>1, <1>2 DEF LandNear
<1>4. ASSUME NEW f, NEW line PROVE Keeps(p, LandOnLine(p, f, line))
  BY <1>2, <1>3 DEF LandOnLine
<1>5. ASSUME NEW kind, NEW id PROVE Keeps(p, LandOnNote(p, kind, id))
  BY <1>1, <1>2 DEF LandOnNote
<1> QED BY <1>2, <1>3, <1>4, <1>5

LEMMA ThroughIsKept ==
  ASSUME NEW p, PaneOK(p), NEW f, NEW owner \in DOMAIN Groups
  PROVE  Keeps(p, Through(p, f, owner))
<1>1. Through(p, f, owner) = SelectEntry(p, owner)
  BY DEF Through, ToGroup, PaneOK, Shaped
<1>2. owner \in Nat \ {0}
  BY GroupsAreNumbered
<1> QED BY <1>1, <1>2, EntryIsKept

LEMMA UnfoldedIsKept ==
  ASSUME NEW p, PaneOK(p), NEW shown
  PROVE  Keeps(p, Unfolded(p, shown))
BY FoldIsKept, KeepsItself DEF Unfolded

LEMMA JumpToLineIsKept ==
  ASSUME NEW p, PaneOK(p), NEW f, NEW line \in Int
  PROVE  Keeps(p, JumpToLine(p, f, line))
<1>1. CASE GroupOfLine(f, line) = {}
  <2>1. JumpToLine(p, f, line) = p
    BY <1>1 DEF JumpToLine, PaneOK, Shaped
  <2> QED BY <2>1, KeepsItself
<1>2. CASE GroupOfLine(f, line) # {}
  <2> DEFINE owner == First(GroupOfLine(f, line), NoHunk)
             q == Through(p, f, owner)
             r == OpenToLine(q, f, line)
             s == IF RowsOfLine(r, f, "new", line) # {} THEN r ELSE RevealLine(r, f, line)
  <2>1. JumpToLine(p, f, line) = LandOnLine(s, f, line)
    BY <1>2 DEF JumpToLine, ToLine, PaneOK, Shaped
  <2>2. owner \in DOMAIN Groups
    BY <1>2, OwnerIsAGroup
  <2> HIDE DEF owner
  <2>3. Keeps(p, q)
    BY <2>2, ThroughIsKept
  <2> HIDE DEF q
  <2>4. Keeps(q, r)
    BY <2>3, UnfoldedIsKept DEF OpenToLine, Keeps
  <2> HIDE DEF r
  <2>5. Keeps(r, s)
    BY <2>4, KeepsItself, RevealIsKept DEF Keeps
  <2> HIDE DEF s
  <2>6. Keeps(s, LandOnLine(s, f, line))
    BY <2>5, LandingIsKept DEF Keeps
  <2> QED BY <2>1, <2>3, <2>4, <2>5, <2>6 DEF Keeps
<1> QED BY <1>1, <1>2

LEMMA JumpToNoteIsKept ==
  ASSUME NEW p, PaneOK(p), NEW kind, NEW id, NEW at, at.hunk \in Hunk
  PROVE  Keeps(p, JumpToNote(p, kind, id, at))
<1> DEFINE q == Through(p, at.file, GroupOf(at.hunk))
           r == OpenToNote(q, kind, id)
           s == IF RowsOfNote(p, kind, id) # {} THEN p ELSE r
<1>1. JumpToNote(p, kind, id, at) = LandOnNote(s, kind, id)
  BY DEF JumpToNote
<1>2. Keeps(p, q)
  BY GroupOfIsAGroup, ThroughIsKept
<1> HIDE DEF q
<1>3. Keeps(q, r)
  BY <1>2, UnfoldedIsKept DEF OpenToNote, Keeps
<1> HIDE DEF r
<1>4. Keeps(p, s)
  BY <1>2, <1>3, KeepsItself, KeepsBoth
<1> HIDE DEF s
<1>5. Keeps(s, LandOnNote(s, kind, id))
  BY <1>4, LandingIsKept DEF Keeps
<1> QED BY <1>1, <1>4, <1>5 DEF Keeps

LEMMA ReturnIsKept ==
  ASSUME NEW p, PaneOK(p), NEW place, place.entry \in Nat \ {0}
  PROVE  Keeps(p, Returned(p, place))
<1> DEFINE q == Reselected(p, place.entry)
<1>1. Keeps(p, q)
  BY EntryIsKept, KeepsItself DEF Reselected
<1>2. Returned(p, place) = StoodAgain(q, place)
  BY DEF Returned
<1> HIDE DEF q
<1>3. Keeps(q, StoodAgain(q, place))
  <2> DEFINE S == IF place.at = <<>> THEN {} ELSE RowsOfLine(q, place.at[1], place.at[2], place.at[3])
             c == First(S, Min({place.row, Len(q.rows)}))
  <2>1. StoodAgain(q, place) = [q EXCEPT !.cursor = c, !.focus = "detail"]
    BY DEF StoodAgain
  <2> HIDE DEF c
  <2>2. Keeps(q, [q EXCEPT !.cursor = c, !.focus = "detail"])
    <3>1. PaneOK(q)
      BY <1>1 DEF Keeps
    <3> QED BY <3>1, CursorIsKept
  <2> QED BY <2>1, <2>2
<1> QED BY <1>1, <1>2, <1>3 DEF Keeps

-----------------------------------------------------------------------------
(* What keys and answers make of the notes and of the threads *)

LEMMA NotedIsOK ==
  ASSUME NEW notes, NotesOK(notes), NEW n, NoteOK(n)
  PROVE  NotesOK(Append(notes, n)) /\ Last(Append(notes, n)) = n
<1>1. IsSeq(notes)
  BY DEF NotesOK
<1>2. /\ IsSeq(Append(notes, n)) /\ DOMAIN Append(notes, n) = 1..(Len(notes) + 1)
      /\ Len(Append(notes, n)) = Len(notes) + 1
      /\ \A k \in DOMAIN notes : k \in DOMAIN Append(notes, n) /\ Append(notes, n)[k] = notes[k]
      /\ Append(notes, n)[Len(notes) + 1] = n
  BY <1>1, AppendIsSeq
<1>3. Len(notes) \in Nat /\ DOMAIN notes = 1..Len(notes)
  BY <1>1, SeqIs
<1>4. ASSUME NEW k \in DOMAIN Append(notes, n) PROVE NoteOK(Append(notes, n)[k])
  <2>1. CASE k = Len(notes) + 1
    BY <2>1, <1>2
  <2>2. CASE k # Len(notes) + 1
    <3>1. k \in DOMAIN notes
      BY <2>2, <1>2, <1>3
    <3>2. NoteOK(notes[k]) /\ Append(notes, n)[k] = notes[k]
      BY <3>1, <1>2 DEF NotesOK
    <3> QED BY <3>2
  <2> QED BY <2>1, <2>2
<1>5. Last(Append(notes, n)) = n
  BY <1>2 DEF Last
<1> QED BY <1>2, <1>4, <1>5 DEF NotesOK

LEMMA SomeNotesAreOK ==
  ASSUME NEW notes, NotesOK(notes), NEW places \in SUBSET DOMAIN notes
  PROVE  /\ NotesOK(Taken(notes, places))
         /\ \A k \in places : \E l \in DOMAIN Taken(notes, places) : Taken(notes, places)[l] = notes[k]
<1>1. IsSeq(notes) /\ \A k \in DOMAIN notes : NoteOK(notes[k])
  BY DEF NotesOK
<1> DEFINE t == Taken(notes, places)
<1>2. /\ IsSeq(t) /\ \A k \in DOMAIN t : \E i \in places : t[k] = notes[i]
      /\ \A i \in places : \E k \in DOMAIN t : t[k] = notes[i]
  BY <1>1, TakenIsSeq
<1> HIDE DEF t
<1>3. NotesOK(t)
  BY <1>1, <1>2 DEF NotesOK
<1> QED BY <1>2, <1>3 DEF t

LEMMA SomeThreadsAreOK ==
  ASSUME NEW threads, ThreadsOK(threads), NEW places \in SUBSET DOMAIN threads
  PROVE  ThreadsOK(Taken(threads, places))
<1>1. IsSeq(threads) /\ \A k \in DOMAIN threads : ThreadOK(threads[k])
  BY DEF ThreadsOK
<1> DEFINE t == Taken(threads, places)
<1>2. IsSeq(t) /\ \A k \in DOMAIN t : \E i \in places : t[k] = threads[i]
  BY <1>1, TakenIsSeq
<1> HIDE DEF t
<1>3. ThreadsOK(t)
  BY <1>1, <1>2 DEF ThreadsOK
<1> QED BY <1>3 DEF t

\* Notes that differ only in what they are linked to.
Relinks(notes, other) ==
  NotesOK(other) /\ \A k \in DOMAIN notes : k \in DOMAIN other /\ other[k].id = notes[k].id

LEMMA RelinkedIsOK ==
  ASSUME NEW notes, NotesOK(notes), NEW which, NEW to
  PROVE  Relinks(notes, [k \in DOMAIN notes |->
           IF k \in which THEN [notes[k] EXCEPT !.sent = to[k]] ELSE notes[k]])
<1> DEFINE other == [k \in DOMAIN notes |->
                      IF k \in which THEN [notes[k] EXCEPT !.sent = to[k]] ELSE notes[k]]
<1>1. IsSeq(notes) /\ \A k \in DOMAIN notes : NoteOK(notes[k])
  BY DEF NotesOK
<1>2. Len(notes) \in Nat /\ DOMAIN notes = 1..Len(notes)
  BY <1>1, SeqIs
<1>3. ASSUME NEW k \in DOMAIN notes PROVE NoteOK(other[k]) /\ other[k].id = notes[k].id
  <2>1. NoteOK(notes[k])
    BY <1>1
  <2>2. \A x : NoteOK([notes[k] EXCEPT !.sent = x]) /\ [notes[k] EXCEPT !.sent = x].id = notes[k].id
    BY <2>1 DEF NoteOK
  <2> QED BY <2>1, <2>2
<1>4. other = [k \in 1..Len(notes) |-> other[k]]
  BY <1>2
<1> HIDE DEF other
<1>5. IsSeq(other) /\ DOMAIN other = 1..Len(notes)
  BY <1>2, <1>4, FunctionIsSeq
<1>6. Relinks(notes, other)
  BY <1>2, <1>3, <1>5 DEF Relinks, NotesOK
<1> QED BY <1>6 DEF other

LEMMA WithThreadsIsOK ==
  ASSUME NEW p, Shaped(p), NEW threads, ThreadsOK(threads)
  PROVE  Shaped(WithThreads(p, threads)) /\ Relinks(p.notes, WithThreads(p, threads).notes)
<1> DEFINE Carrier(n) == {t \in DOMAIN threads : n.id \in threads[t].notes}
           which == {k \in DOMAIN p.notes : p.notes[k].sent = 0 /\ Carrier(p.notes[k]) # {}}
           to == [k \in DOMAIN p.notes |-> threads[Min(Carrier(p.notes[k]))].id]
           notes == [k \in DOMAIN p.notes |->
                      IF k \in which THEN [p.notes[k] EXCEPT !.sent = to[k]] ELSE p.notes[k]]
<1>1. WithThreads(p, threads) = [p EXCEPT !.threads = threads, !.notes = notes]
  BY DEF WithThreads
<1>2. Relinks(p.notes, notes)
  <2>1. NotesOK(p.notes)
    BY DEF Shaped
  <2> HIDE DEF which, to
  <2> DEFINE ns == p.notes
             linked == [k \in DOMAIN ns |-> IF k \in which THEN [ns[k] EXCEPT !.sent = to[k]] ELSE ns[k]]
  <2>2. notes = linked
    OBVIOUS
  <2> HIDE DEF ns, notes
  <2>3. Relinks(ns, linked)
    BY <2>1, RelinkedIsOK DEF ns
  <2> HIDE DEF linked
  <2> QED BY <2>2, <2>3 DEF ns
<1> HIDE DEF notes
<1> QED BY <1>1, <1>2 DEF Shaped, Relinks

LEMMA SentIsOK ==
  ASSUME NEW p, Shaped(p), NEW landed
  PROVE  Shaped(Sent(p, landed)) /\ Relinks(p.notes, Sent(p, landed).notes)
<1> DEFINE which == {k \in DOMAIN p.notes : p.notes[k].id \in landed}
           to == [k \in DOMAIN p.notes |->
                   IF p.notes[k].reply = 0 THEN CommentOf(p.notes[k].id) ELSE p.notes[k].reply]
           notes == [k \in DOMAIN p.notes |->
                      IF k \in which THEN [p.notes[k] EXCEPT !.sent = to[k]] ELSE p.notes[k]]
<1>1. Sent(p, landed) = [p EXCEPT !.notes = notes]
  BY DEF Sent
<1>2. Relinks(p.notes, notes)
  <2> HIDE DEF which, to
  <2> QED BY RelinkedIsOK DEF Shaped
<1> HIDE DEF notes
<1> QED BY <1>1, <1>2 DEF Shaped, Relinks

LEMMA RelinksBoth ==
  ASSUME NEW a, NEW b, NEW c, Relinks(a, b), Relinks(b, c)
  PROVE  Relinks(a, c)
BY DEF Relinks

\* Each thread with its number and its place, and some comments.
LEMMA ChangedThreadsAreOK ==
  ASSUME NEW threads, ThreadsOK(threads), NEW other, DOMAIN other = DOMAIN threads,
         other = [t \in DOMAIN threads |-> other[t]],
         \A t \in DOMAIN threads : ThreadOK(other[t])
  PROVE  ThreadsOK(other)
<1>1. Len(threads) \in Nat /\ DOMAIN threads = 1..Len(threads)
  BY SeqIs DEF ThreadsOK
<1>2. IsSeq(other)
  BY <1>1, FunctionIsSeq
<1> QED BY <1>2 DEF ThreadsOK

LEMMA PostedIsOK ==
  ASSUME NEW threads, ThreadsOK(threads), NEW notes, NotesOK(notes)
  PROVE  ThreadsOK(Posted(threads, notes))
<1> DEFINE places(id) == {n \in DOMAIN notes : notes[n].reply = id}
           Answering(id) == Taken(notes, places(id))
           Ids(t) == {n.id : n \in Range(Answering(threads[t].id))}
           roots == Answering(0)
           more(t) == [n \in DOMAIN Answering(threads[t].id) |-> CommentOf(Answering(threads[t].id)[n].id)]
           mine(t) == {CommentOf(id) : id \in Ids(t)}
           old == [t \in DOMAIN threads |->
                    [threads[t] EXCEPT !.comments = @ \o more(t), !.notes = @ \cup Ids(t), !.mine = @ \cup mine(t)]]
           c(n) == CommentOf(roots[n].id)
           new == [n \in DOMAIN roots |->
                    [id |-> c(n), at |-> roots[n].at, resolved |-> FALSE, comments |-> <<c(n)>>,
                     notes |-> {roots[n].id}, mine |-> {c(n)}]]
<1>1. Posted(threads, notes) = old \o new
  BY DEF Posted
<1>2. ASSUME NEW id PROVE NotesOK(Answering(id))
  <2>1. places(id) \in SUBSET DOMAIN notes
    OBVIOUS
  <2> HIDE DEF places
  <2> QED BY <2>1, SomeNotesAreOK
<1> HIDE DEF Answering
<1>3. ASSUME NEW t \in DOMAIN threads PROVE ThreadOK(old[t])
  <2>1. ThreadOK(threads[t])
    BY DEF ThreadsOK
  <2>2. IsSeq(more(t))
    <3>1. Len(Answering(threads[t].id)) \in Nat
          /\ DOMAIN Answering(threads[t].id) = 1..Len(Answering(threads[t].id))
      BY <1>2, SeqIs DEF NotesOK
    <3>2. more(t) = [n \in 1..Len(Answering(threads[t].id)) |-> more(t)[n]]
      BY <3>1
    <3> HIDE DEF more
    <3> QED BY <3>1, <3>2, FunctionIsSeq
  <2>3. IsSeq(threads[t].comments \o more(t))
    <3>1. IsSeq(threads[t].comments)
      BY <2>1 DEF ThreadOK
    <3> HIDE DEF more
    <3> QED BY <2>2, <3>1, ConcatIsSeq
  <2>4. old[t] = [threads[t] EXCEPT !.comments = @ \o more(t), !.notes = @ \cup Ids(t), !.mine = @ \cup mine(t)]
    OBVIOUS
  <2> DEFINE cs == threads[t].comments \o more(t)
             ns == threads[t].notes \cup Ids(t)
             ms == threads[t].mine \cup mine(t)
  <2>5. old[t] = [threads[t] EXCEPT !.comments = cs, !.notes = ns, !.mine = ms]
    BY <2>4
  <2> HIDE DEF old, cs, ns, ms
  <2>6. IsSeq(cs)
    BY <2>3 DEF cs
  <2> QED BY <2>1, <2>5, <2>6 DEF ThreadOK
<1>4. ThreadsOK(old)
  <2>1. DOMAIN old = DOMAIN threads /\ old = [t \in DOMAIN threads |-> old[t]]
    OBVIOUS
  <2> HIDE DEF old
  <2> QED BY <1>3, <2>1, ChangedThreadsAreOK
<1>5. NotesOK(roots)
  BY <1>2
<1> HIDE DEF old, roots
<1>6. Len(roots) \in Nat /\ DOMAIN roots = 1..Len(roots)
  BY <1>5, SeqIs DEF NotesOK
<1>7. ASSUME NEW n \in DOMAIN roots PROVE ThreadOK(new[n])
  <2>1. roots[n].id \in Nat /\ roots[n].at.hunk \in Hunk
    BY <1>5 DEF NotesOK, NoteOK
  <2>2. c(n) \in Nat \ {0}
    BY <2>1 DEF CommentOf
  <2> DEFINE x == c(n)
  <2>3. new[n] = [id |-> x, at |-> roots[n].at, resolved |-> FALSE, comments |-> <<x>>,
                  notes |-> {roots[n].id}, mine |-> {x}]
    OBVIOUS
  <2>4. IsSeq(<<x>>)
    BY OneIsSeq
  <2> HIDE DEF new, x
  <2> QED BY <2>1, <2>2, <2>3, <2>4 DEF ThreadOK, x
<1>8. ThreadsOK(new)
  <2>1. new = [n \in 1..Len(roots) |-> new[n]] /\ DOMAIN new = DOMAIN roots
    BY <1>6
  <2> HIDE DEF new
  <2>2. IsSeq(new)
    BY <1>6, <2>1, FunctionIsSeq
  <2> QED BY <1>7, <2>1, <2>2 DEF ThreadsOK
<1> HIDE DEF new
<1>9. IsSeq(old) /\ IsSeq(new)
  BY <1>4, <1>8 DEF ThreadsOK
<1>10. /\ IsSeq(old \o new)
       /\ \A k \in DOMAIN (old \o new) :
            \/ k \in DOMAIN old /\ (old \o new)[k] = old[k]
            \/ k - Len(old) \in DOMAIN new /\ (old \o new)[k] = new[k - Len(old)]
  BY ONLY <1>9, ConcatIsSeq
<1>11. ASSUME NEW k \in DOMAIN (old \o new) PROVE ThreadOK((old \o new)[k])
  <2>1. CASE k \in DOMAIN old /\ (old \o new)[k] = old[k]
    <3>1. ThreadOK(old[k])
      BY <1>4, <2>1 DEF ThreadsOK
    <3> QED BY <2>1, <3>1
  <2>2. CASE k - Len(old) \in DOMAIN new /\ (old \o new)[k] = new[k - Len(old)]
    <3>1. ThreadOK(new[k - Len(old)])
      BY <1>8, <2>2 DEF ThreadsOK
    <3> QED BY <2>2, <3>1
  <2> QED BY <1>10, <2>1, <2>2
<1>12. ThreadsOK(old \o new)
  BY <1>10, <1>11 DEF ThreadsOK
<1> QED BY <1>1, <1>12

LEMMA ResolvedIsOK ==
  ASSUME NEW threads, ThreadsOK(threads)
  PROVE  ThreadsOK(Resolved(threads))
<1> DEFINE other == Resolved(threads)
<1>1. DOMAIN other = DOMAIN threads /\ other = [t \in DOMAIN threads |-> other[t]]
  BY DEF Resolved
<1>2. ASSUME NEW t \in DOMAIN threads PROVE ThreadOK(other[t])
  <2>1. ThreadOK(threads[t])
    BY DEF ThreadsOK
  <2>2. \A x : ThreadOK([threads[t] EXCEPT !.resolved = x])
    BY <2>1 DEF ThreadOK
  <2>3. other[t] = IF threads[t].id = inflight.thread THEN [threads[t] EXCEPT !.resolved = inflight.to]
                   ELSE threads[t]
    BY DEF Resolved
  <2> HIDE DEF other
  <2> QED BY <2>1, <2>2, <2>3
<1> HIDE DEF other
<1>3. ThreadsOK(other)
  BY <1>1, <1>2, ChangedThreadsAreOK
<1> QED BY <1>3 DEF other

LEMMA GoneIsOK ==
  ASSUME NEW threads, ThreadsOK(threads), NEW comment
  PROVE  ThreadsOK(Gone(threads, comment))
<1> DEFINE Left(t) == {c \in DOMAIN threads[t].comments : threads[t].comments[c] # comment}
           ns(t) == {n \in threads[t].notes : CommentOf(n) # comment}
           other == [t \in DOMAIN threads |->
                      [threads[t] EXCEPT !.comments = Taken(@, Left(t)), !.notes = ns(t)]]
           places == {t \in DOMAIN threads : Left(t) # {}}
<1>1. Gone(threads, comment) = Taken(other, places)
  BY DEF Gone
<1>2. ASSUME NEW t \in DOMAIN threads PROVE ThreadOK(other[t])
  <2>1. ThreadOK(threads[t])
    BY DEF ThreadsOK
  <2> DEFINE cs == Taken(threads[t].comments, Left(t))
             n == ns(t)
  <2>2. IsSeq(cs)
    <3>1. IsSeq(threads[t].comments) /\ Left(t) \in SUBSET DOMAIN threads[t].comments
      BY <2>1 DEF ThreadOK
    <3> HIDE DEF Left
    <3> QED BY <3>1, TakenIsSeq
  <2>3. other[t] = [threads[t] EXCEPT !.comments = cs, !.notes = n]
    OBVIOUS
  <2> HIDE DEF other, cs, n
  <2> QED BY <2>1, <2>2, <2>3 DEF ThreadOK
<1>3. DOMAIN other = DOMAIN threads /\ other = [t \in DOMAIN threads |-> other[t]]
  OBVIOUS
<1>4. places \in SUBSET DOMAIN threads
  OBVIOUS
<1> HIDE DEF other, places
<1>5. ThreadsOK(other)
  BY <1>2, <1>3, ChangedThreadsAreOK
<1>6. ThreadsOK(Taken(other, places))
  BY <1>3, <1>4, <1>5, SomeThreadsAreOK
<1> QED BY <1>1, <1>6

-----------------------------------------------------------------------------
(* What the boxes were opened on *)

\* A float names a declaration's line, a remembered place a group.
PeekOK(float) ==
  float = <<>> \/ \E f : /\ float = <<f>> /\ DOMAIN f = {"row", "nth", "to", "landed"}
                         /\ f.nth \in Nat \ {0} /\ f.to[2] \in Nat
JumpsOK(places) == IsSeq(places) /\ \A k \in DOMAIN places : places[k].entry \in Nat \ {0}

\* A new note would be filed where the reader was when they pressed `c`.
AsAsked(m) ==
  LET note == FiledAt(m.hunk, m.lines)
  IN  /\ note.file = m.asked.file /\ note.hunk = m.asked.hunk
      /\ m.asked.kind = "line" => m.asked[note.side] \in note.line .. note.end_line

IsList(m) ==
  /\ m.kind \in {"normal", "files", "findings"}
  /\ m.kind = "findings" => DOMAIN m = {"kind", "entries", "confirming"}

ModeOK(m, p, out) ==
  /\ m.kind = "publish" => out = NoCall /\ m.batch = BatchOf(p)
  /\ m.kind = "help" => IsList(m.from)
  /\ m.kind = "findings" => IsList(m)
  /\ m.kind = "editing" /\ m.own = {} /\ m.rewriting = {} /\ m.reply = 0 =>
       m.hunk \in Hunk /\ (m.from = <<>> => AsAsked(m))

\* The question what to publish is open only while no call is out, so no answer lands
\* under it; the composer holds what it was opened on.
RInv ==
  /\ PaneOK(pane) /\ ThreadsOK(request) /\ made \in Nat
  /\ JumpsOK(jumps) /\ PeekOK(peek)
  /\ ModeOK(mode, pane, inflight)

LEMMA SettledIsOK ==
  ASSUME NEW p, NEW float, PeekOK(float)
  PROVE  PeekOK(Settled(p, float))
BY DEF Settled, PeekOK

LEMMA OtherModesAreOK ==
  ASSUME NEW m, NEW p, NEW out, m.kind \in {"normal", "files", "search", "notice", "delete"}
  PROVE  ModeOK(m, p, out)
BY DEF ModeOK

LEMMA NormalIsOK ==
  ASSUME NEW p, NEW out
  PROVE  ModeOK(Normal, p, out) /\ Normal.kind = "normal" /\ IsList(Normal)
<1>1. Normal.kind = "normal"
  BY DEF Normal
<1>2. IsList(Normal)
  BY <1>1 DEF IsList
<1> QED BY <1>1, <1>2, OtherModesAreOK

LEMMA ListsAreOK ==
  ASSUME NEW m, NEW p, NEW out, IsList(m)
  PROVE  ModeOK(m, p, out)
BY DEF ModeOK, IsList

LEMMA ListingIsOK ==
  ASSUME NEW p, NEW confirming
  PROVE  IsList(Listing(p, confirming))
<1>1. CASE ListOf(p) = {}
  BY <1>1, NormalIsOK DEF Listing
<1>2. CASE ListOf(p) # {}
  <2> DEFINE es == ListOf(p)
  <2>1. Listing(p, confirming) = [kind |-> "findings", entries |-> es, confirming |-> confirming]
    BY <1>2 DEF Listing
  <2> HIDE DEF es
  <2> QED BY <2>1 DEF IsList
<1> QED BY <1>1, <1>2

\* The mode after an answer to a call that was out.
LEMMA LandedModeIsOK ==
  ASSUME NEW m, NEW p, NEW q, NEW out, ModeOK(m, p, out), out # NoCall
  PROVE  ModeOK(m, q, NoCall) /\ ModeOK(Reopened(m, q), q, NoCall)
<1>1. ModeOK(m, q, NoCall)
  BY DEF ModeOK
<1>2. ModeOK(Reopened(m, q), q, NoCall)
  <2>1. CASE m.kind = "findings"
    BY <2>1, ListingIsOK, ListsAreOK DEF Reopened
  <2>2. CASE m.kind # "findings"
    BY <2>2, <1>1 DEF Reopened
  <2> QED BY <2>1, <2>2
<1> QED BY <1>1, <1>2

LEMMA JumpIsRemembered ==
  ASSUME NEW js, JumpsOK(js), NEW place, place.entry \in Nat \ {0}
  PROVE  /\ JumpsOK(Append(IF Len(js) = MostPlaces THEN Tail(js) ELSE js, place))
         /\ js # <<>> => JumpsOK(Front(js)) /\ Last(js).entry \in Nat \ {0}
<1> DEFINE short == IF Len(js) = MostPlaces THEN Tail(js) ELSE js
<1>1. IsSeq(js) /\ \A k \in DOMAIN js : js[k].entry \in Nat \ {0}
  BY DEF JumpsOK
<1>2. ASSUME js # <<>>
      PROVE  /\ IsSeq(Tail(js)) /\ \A k \in DOMAIN Tail(js) : k + 1 \in DOMAIN js /\ Tail(js)[k] = js[k + 1]
             /\ IsSeq(Front(js)) /\ \A k \in DOMAIN Front(js) : k \in DOMAIN js /\ Front(js)[k] = js[k]
             /\ Len(js) \in DOMAIN js /\ Last(js) = js[Len(js)]
  BY <1>1, <1>2, PartsAreSeqs
<1>3. Len(js) = MostPlaces => js # <<>>
  <2>1. Len(<<>>) = 0
    OBVIOUS
  <2>2. MostPlaces \in Nat \ {0}
    BY ReviewerAssumption
  <2> QED BY <2>1, <2>2
<1>4. IsSeq(short) /\ \A k \in DOMAIN short : short[k].entry \in Nat \ {0}
  <2>1. CASE Len(js) = MostPlaces
    <3>1. short = Tail(js)
      BY <2>1
    <3> HIDE DEF short
    <3> QED BY <1>1, <1>2, <1>3, <2>1, <3>1
  <2>2. CASE Len(js) # MostPlaces
    <3>1. short = js
      BY <2>2
    <3> HIDE DEF short
    <3> QED BY <1>1, <3>1
  <2> QED BY <2>1, <2>2
<1> HIDE DEF short
<1>5. /\ IsSeq(Append(short, place)) /\ DOMAIN Append(short, place) = 1..(Len(short) + 1)
      /\ \A k \in DOMAIN short : Append(short, place)[k] = short[k]
      /\ Append(short, place)[Len(short) + 1] = place
  BY <1>4, AppendIsSeq
<1>6. Len(short) \in Nat /\ DOMAIN short = 1..Len(short)
  BY <1>4, SeqIs
<1>7. JumpsOK(Append(short, place))
  <2>1. ASSUME NEW k \in 1..(Len(short) + 1) PROVE Append(short, place)[k].entry \in Nat \ {0}
    <3>1. CASE k = Len(short) + 1
      BY <3>1, <1>5
    <3>2. CASE k # Len(short) + 1
      <4>1. k \in DOMAIN short
        BY <3>2, <1>6
      <4> QED BY <4>1, <1>4, <1>5
    <3> QED BY <3>1, <3>2
  <2> QED BY <1>5, <2>1 DEF JumpsOK
<1>8. js # <<>> => JumpsOK(Front(js)) /\ Last(js).entry \in Nat \ {0}
  <2> SUFFICES ASSUME js # <<>> PROVE JumpsOK(Front(js)) /\ Last(js).entry \in Nat \ {0}
    OBVIOUS
  <2> QED BY <1>1, <1>2 DEF JumpsOK
<1> QED BY <1>7, <1>8 DEF short

LEMMA PlaceIsOK ==
  ASSUME NEW p, PaneOK(p)
  PROVE  Place(p).entry \in Nat \ {0}
<1>1. Entry(p) \in DOMAIN Groups
  BY RebuiltIsKept DEF PaneOK
<1>2. Place(p).entry = Entry(p)
  BY DEF Place
<1> QED BY <1>1, <1>2, GroupsAreNumbered

\* What `z` puts up as a float is a symbol of the row, and has a declaration.
LEMMA SteppedPeekIsOK ==
  ASSUME PeekOK(peek)
  PROVE  PeekOK(StepPeek)
<1> DEFINE nth == IF peek # <<>> /\ peek[1].row = pane.cursor THEN peek[1].nth + 1 ELSE 1
           syms == Peekable(pane)
           float == <<[row |-> pane.cursor, nth |-> nth, to |-> syms[nth], landed |-> FALSE]>>
<1>1. StepPeek = IF nth > Len(syms) THEN <<>> ELSE float
  BY DEF StepPeek
<1>2. nth \in Nat \ {0}
  <2>1. CASE peek # <<>>
    <3>1. PICK f : peek = <<f>> /\ f.nth \in Nat \ {0}
      BY <2>1 DEF PeekOK
    <3>2. peek[1].nth = f.nth
      BY <3>1
    <3> QED BY <3>1, <3>2
  <2>2. CASE peek = <<>>
    BY <2>2
  <2> QED BY <2>1, <2>2
<1>3. CASE nth > Len(syms)
  BY <1>1, <1>3 DEF PeekOK
<1>4. CASE ~ (nth > Len(syms))
  <2> DEFINE row == RowAt(pane)
             at  == <<row.file, row.new>>
  <2>1. syms = IF row.kind = "line" /\ at \in DOMAIN Uses THEN Uses[at] ELSE <<>>
    BY DEF Peekable
  <2> HIDE DEF at, nth, syms
  <2>2. at \in DOMAIN Uses /\ syms = Uses[at]
    <3> SUFFICES ASSUME syms = <<>> PROVE FALSE
      BY <2>1
    <3>1. Len(syms) = 0
      OBVIOUS
    <3> QED BY <3>1, <1>2, <1>4
  <2>3. Len(syms) \in Nat /\ \A n \in 1 .. Len(syms) : syms[n][2] \in Nat
    BY <2>2, ReviewerAssumption
  <2>4. syms[nth][2] \in Nat
    BY <1>2, <1>4, <2>3
  <2>5. StepPeek = float
    BY <1>1, <1>4
  <2> DEFINE f == [row |-> pane.cursor, nth |-> nth, to |-> syms[nth], landed |-> FALSE]
  <2>6. float = <<f>> /\ DOMAIN f = {"row", "nth", "to", "landed"} /\ f.nth = nth /\ f.to = syms[nth]
    OBVIOUS
  <2> HIDE DEF f, float
  <2>7. f.nth \in Nat \ {0} /\ f.to[2] \in Nat
    BY <1>2, <2>4, <2>6
  <2> QED BY <2>5, <2>6, <2>7 DEF PeekOK
<1> QED BY <1>3, <1>4

\* The lines of a row, of a header and of the selection that is not there.
LEMMA OwnLine ==
  ASSUME PaneOK(pane), pane.cursor \in DOMAIN pane.rows
  PROVE  LET row == pane.rows[pane.cursor]
             s   == SideOf(row)
         IN  /\ row.kind # "line" => SelectedLines(pane, pane.cursor) = {}
             /\ row.kind = "line" =>
                  SelectedLines(pane, pane.cursor) = {[side |-> s, start |-> row[s], end |-> row[s]]}
<1> DEFINE c   == pane.cursor
           row == pane.rows[c]
           s   == SideOf(row)
           run == SelectedRun(pane, c)
<1>1. RowAt(pane) = row
  BY DEF RowAt
<1>2. CASE row.kind # "line"
  BY <1>2 DEF SelectedLines
<1>3. CASE row.kind = "line"
  <2>1. SoundRow(row) /\ c \in Nat
    <3>1. IsSeq(pane.rows) /\ SoundRow(row)
      BY DEF PaneOK, Sound
    <3> QED BY <3>1, SeqIs
  <2>2. row[s] \in Nat \ {0}
    BY <2>1, <1>3 DEF SoundRow, SideOf
  <2>3. ~Breaks(row)
    BY <1>3 DEF Breaks
  <2> DEFINE Stopping(S) == {k \in S : k \notin DOMAIN pane.rows \/ Breaks(pane.rows[k])}
             up   == c .. Min({c} \cup {k - 1 : k \in Stopping(c .. c)})
             down == Max({c} \cup {k + 1 : k \in Stopping(c .. c)}) .. c
             t    == IF row[SideOf(row)] # 0 THEN SideOf(row) ELSE SideOf(row)
  <2>4. run = [side |-> t, lines |-> {pane.rows[i][t] : i \in up \cup down} \ {0}]
    BY <1>1 DEF SelectedRun
  <2>5. Stopping(c .. c) = {}
    BY <2>1, <2>3
  <2>6. {c} \cup {k - 1 : k \in Stopping(c .. c)} = {c, c} /\ {c} \cup {k + 1 : k \in Stopping(c .. c)} = {c, c}
    BY <2>5
  <2>7. Min({c, c}) = c /\ Max({c, c}) = c
    BY <2>1, MinOfTwo, MaxOfTwo
  <2>8. up \cup down = {c}
    <3>1. up = c .. Min({c, c}) /\ down = Max({c, c}) .. c
      BY <2>6
    <3> HIDE DEF up, down
    <3>2. up = c .. c /\ down = c .. c
      BY <2>7, <3>1
    <3>3. c .. c = {c}
      <4> HIDE DEF c
      <4> QED BY <2>1
    <3> QED BY <3>2, <3>3
  <2>9. t = s
    OBVIOUS
  <2> HIDE DEF up, down, t
  <2>10. {pane.rows[i][t] : i \in up \cup down} \ {0} = {row[s]}
    BY <2>2, <2>8, <2>9
  <2>11. run.side = s /\ run.lines = {row[s]}
    BY <2>4, <2>9, <2>10
  <2> HIDE DEF run, s
  <2> DEFINE n == row[s]
  <2>12. Min({n}) = n /\ Max({n}) = n
    <3>1. {n} = {n, n}
      OBVIOUS
    <3> HIDE DEF n
    <3>2. n \in Int
      BY <2>2 DEF n
    <3> QED BY <3>1, <3>2, MinOfTwo, MaxOfTwo
  <2>13. SelectedLines(pane, c) =
           IF row.kind # "line" \/ run.lines = {} THEN {}
           ELSE {[side |-> run.side, start |-> Min(run.lines), end |-> Max(run.lines)]}
    BY DEF SelectedLines, run
  <2> QED BY <1>3, <2>11, <2>12, <2>13 DEF s, n
<1> QED BY <1>2, <1>3

\* `c` on a line or a header: what it will file is about that row.
LEMMA ComposerIsOK ==
  ASSUME PaneOK(pane), OwnAtCursor = {}, Cursor.kind # "thread", HunkAt(Cursor) # NoHunk,
         NEW p, NEW out
  PROVE  ModeOK(Editing(HunkAt(Cursor), SelectedLines(pane, Anchor),
                        IF visual = <<>> THEN NoteAtCursor ELSE {}, 0, {}), p, out)
<1> DEFINE row == Cursor
           h   == HunkAt(row)
           ls  == SelectedLines(pane, Anchor)
           re  == IF visual = <<>> THEN NoteAtCursor ELSE {}
           m   == Editing(h, ls, re, 0, {})
<1>1. pane.cursor \in DOMAIN pane.rows /\ row = pane.rows[pane.cursor] /\ SoundRow(row)
  <2>1. HunkAt(Row("blank", 0, NoHunk)) = NoHunk
    BY DEF Row, HunkAt
  <2> QED BY <2>1 DEF Cursor, RowAt, PaneOK, Sound
<1>2. h \in Hunk
  BY <1>1, ActsOnAHunk
<1>3. /\ m.kind = "editing" /\ m.hunk = h /\ m.lines = ls /\ m.rewriting = re
      /\ m.asked = row /\ m.from = visual
  BY DEF Editing
<1>4. ASSUME visual = <<>>, re = {} PROVE AsAsked(m)
  <2>1. row.kind # "note"
    BY <1>4 DEF NoteAtCursor
  <2>2. row.kind \in {"hunk", "line"} /\ h = row.hunk /\ row.file = Hunks[h].file
    BY <1>1, <2>1 DEF SoundRow, HunkAt
  <2>3. Anchor = pane.cursor
    BY <1>4 DEF Anchor
  <2> DEFINE note == FiledAt(h, ls)
             s == IF Hunks[h].new.count > 0 THEN "new" ELSE "old"
             first == Max({Hunks[h][s].start, 1})
             l == IF ls = {} THEN [side |-> s, start |-> first, end |-> first] ELSE CHOOSE x \in ls : TRUE
  <2>4. note = [file |-> Hunks[h].file, side |-> l.side, line |-> l.start, end_line |-> l.end, hunk |-> h]
    BY DEF FiledAt
  <2>5. ASSUME row.kind = "line" PROVE row[note.side] \in note.line .. note.end_line
    <3> DEFINE t == SideOf(row)
               x == [side |-> t, start |-> row[t], end |-> row[t]]
    <3>1. ls = {x}
      BY <1>1, <2>3, <2>5, OwnLine
    <3>2. l = x
      BY <3>1
    <3>3. row[t] \in Nat
      BY <1>1, <2>5 DEF SoundRow, SideOf
    <3> HIDE DEF t, ls, l, note
    <3>4. note.side = t /\ note.line = row[t] /\ note.end_line = row[t]
      BY <2>4, <3>2
    <3> QED BY <3>3, <3>4
  <2>6. note.file = row.file /\ note.hunk = row.hunk
    BY <2>2, <2>4
  <2> HIDE DEF note
  <2>7. FiledAt(m.hunk, m.lines) = note
    BY <1>3 DEF note
  <2> HIDE DEF m
  <2> QED BY <1>3, <2>5, <2>6, <2>7 DEF AsAsked
<1> HIDE DEF m
<1>5. ModeOK(m, p, out)
  BY <1>2, <1>3, <1>4 DEF ModeOK
<1> QED BY <1>5 DEF m

\* A comment of the reader's, or a reply.
LEMMA OtherComposersAreOK ==
  ASSUME NEW hunk, NEW lines, NEW reply, NEW own, reply # 0 \/ own # {}, NEW p, NEW out
  PROVE  ModeOK(Editing(hunk, lines, {}, reply, own), p, out)
BY DEF ModeOK, Editing

-----------------------------------------------------------------------------
(* The invariant holds at the start, and every key and every answer keeps it *)

LEMMA ShownIsOK ==
  ASSUME NEW p, NEW float, PaneOK(p), PeekOK(float), Shows(p, float)
  PROVE  PaneOK(pane') /\ pane' = p /\ PeekOK(peek')
BY SettledIsOK DEF Shows

LEMMA StaysOK ==
  ASSUME RInv, Stays
  PROVE  ThreadsOK(request') /\ made' \in Nat /\ inflight' = inflight
BY DEF RInv, Stays

LEMMA FoundIsOK ==
  ASSUME PaneOK(pane), NEW id
  PROVE  /\ Note(id) # <<>> => NoteOK(Note(id)[1])
         /\ Thread(id) # <<>> => ThreadOK(Thread(id)[1])
<1> DEFINE ns == {n \in DOMAIN pane.notes : pane.notes[n].id = id}
           ts == {t \in DOMAIN pane.threads : pane.threads[t].id = id}
           n == Taken(pane.notes, ns)
           t == Taken(pane.threads, ts)
<1>1. Note(id) = n /\ Thread(id) = t
  BY DEF Note, Thread
<1>2. NotesOK(n)
  <2>1. NotesOK(pane.notes) /\ ns \in SUBSET DOMAIN pane.notes
    BY DEF PaneOK, Shaped
  <2> HIDE DEF ns
  <2> QED BY <2>1, SomeNotesAreOK
<1>3. ThreadsOK(t)
  <2>1. ThreadsOK(pane.threads) /\ ts \in SUBSET DOMAIN pane.threads
    BY DEF PaneOK, Shaped
  <2> HIDE DEF ts
  <2> QED BY <2>1, SomeThreadsAreOK
<1> HIDE DEF n, t
<1>4. n # <<>> => 1 \in DOMAIN n
  <2>1. IsSeq(n)
    BY <1>2 DEF NotesOK
  <2> QED BY <2>1 DEF IsSeq
<1>5. t # <<>> => 1 \in DOMAIN t
  <2>1. IsSeq(t)
    BY <1>3 DEF ThreadsOK
  <2> QED BY <2>1 DEF IsSeq
<1>6. n # <<>> => NoteOK(n[1])
  BY <1>2, <1>4 DEF NotesOK
<1>7. t # <<>> => ThreadOK(t[1])
  BY <1>3, <1>5 DEF ThreadsOK
<1> QED BY <1>1, <1>6, <1>7

LEMMA WithNotesIsOK ==
  ASSUME NEW p, PaneOK(p), NEW notes, NotesOK(notes)
  PROVE  /\ PaneOK(WithNotes(p, notes))
         /\ WithNotes(p, notes).notes = notes /\ WithNotes(p, notes).threads = p.threads
<1> DEFINE q == [p EXCEPT !.notes = notes]
<1>1. WithNotes(p, notes) = Rebuilt(q)
  BY DEF WithNotes
<1>2. Shaped(q) /\ q.notes = notes /\ q.threads = p.threads
  BY DEF PaneOK, Shaped
<1> HIDE DEF q
<1>3. Keeps(q, Rebuilt(q))
  BY <1>2, RebuiltIsKept
<1> QED BY <1>1, <1>2, <1>3 DEF Keeps

LEMMA WithoutIsOK ==
  ASSUME NEW notes, NotesOK(notes), NEW id
  PROVE  NotesOK(Without(notes, id))
<1> DEFINE places == {n \in DOMAIN notes : notes[n].id # id}
<1>1. Without(notes, id) = Taken(notes, places) /\ places \in SUBSET DOMAIN notes
  BY DEF Without
<1> HIDE DEF places
<1> QED BY <1>1, SomeNotesAreOK

\* An answer lays the pane out again, and no float is lost.
LEMMA LandedIsOK ==
  ASSUME NEW p, NEW m, Shaped(p), PeekOK(peek), JumpsOK(jumps), made \in Nat, Lands(p, m)
  PROVE  /\ PaneOK(pane') /\ pane'.notes = p.notes
         /\ PeekOK(peek') /\ JumpsOK(jumps') /\ made' \in Nat
         /\ mode' = m /\ inflight' = NoCall
<1>1. Keeps(p, Rebuilt(p))
  BY RebuiltIsKept
<1>2. PaneOK(pane') /\ pane'.notes = p.notes
  BY <1>1 DEF Lands, Keeps
<1>3. PeekOK(peek')
  <2>1. CASE peek = <<>>
    BY <2>1 DEF Lands
  <2>2. CASE peek # <<>>
    <3>1. PICK f : /\ peek = <<f>> /\ DOMAIN f = {"row", "nth", "to", "landed"}
                   /\ f.nth \in Nat \ {0} /\ f.to[2] \in Nat
      BY <2>2 DEF PeekOK
    <3> DEFINE g == [f EXCEPT !.landed = TRUE]
    <3>2. peek[1] = f /\ peek' = <<[peek[1] EXCEPT !.landed = TRUE]>>
      BY <2>2, <3>1 DEF Lands
    <3>3. peek' = <<g>>
      BY <3>2
    <3>4. DOMAIN g = {"row", "nth", "to", "landed"} /\ g.nth = f.nth /\ g.to = f.to
      BY <3>1
    <3> HIDE DEF g
    <3> QED BY <3>1, <3>3, <3>4 DEF PeekOK
  <2> QED BY <2>1, <2>2
<1> QED BY <1>2, <1>3 DEF Lands

LEMMA JumpedIsOK ==
  ASSUME RInv, NEW q, PaneOK(q), Jumping(q)
  PROVE  PaneOK(pane') /\ PeekOK(peek') /\ JumpsOK(jumps')
<1>1. PaneOK(pane) /\ PeekOK(peek) /\ JumpsOK(jumps)
  BY DEF RInv
<1>2. Shows(q, peek)
  BY DEF Jumping
<1>3. PaneOK(pane') /\ PeekOK(peek')
  BY <1>1, <1>2, ShownIsOK
<1>4. Place(pane).entry \in Nat \ {0}
  BY <1>1, PlaceIsOK
<1> DEFINE more == Append(IF Len(jumps) = MostPlaces THEN Tail(jumps) ELSE jumps, Place(pane))
<1>5. JumpsOK(more)
  BY <1>1, <1>4, JumpIsRemembered
<1>6. jumps' = IF ~Jumped(pane, q) THEN jumps ELSE more
  BY DEF Jumping
<1> HIDE DEF more
<1> QED BY <1>1, <1>3, <1>5, <1>6

LEMMA StartsOK ==
  ASSUME Init
  PROVE  RInv
<1> DEFINE p == [view |-> "groups", entry |-> [groups |-> 1, files |-> 1], unfolded |-> {}, folded |-> {},
                 grown |-> [h \in Hunk |-> AsItIs], split |-> FALSE, notes |-> <<>>, threads |-> <<>>,
                 opened |-> {}, rows |-> <<>>, cursor |-> 1, focus |-> "detail"]
<1>1. Shaped(p)
  <2>1. 1 \in DOMAIN Groups
    BY RowsAssumption
  <2>2. AsItIs \in Growth
    BY DEF AsItIs, Growth
  <2>3. NotesOK(<<>>) /\ ThreadsOK(<<>>)
    BY NoneIsSeq DEF NotesOK, ThreadsOK
  <2>4. [h \in Hunk |-> AsItIs] \in [Hunk -> Growth]
    BY <2>2
  <2> DEFINE grown == [h \in Hunk |-> AsItIs]
  <2>5. p.grown = grown
    OBVIOUS
  <2> QED BY <2>1, <2>3, <2>4 DEF Shaped
<1>2. pane = Rebuilt(p)
  BY DEF Init
<1> HIDE DEF p
<1>3. PaneOK(pane)
  BY <1>1, <1>2, RebuiltIsKept DEF Keeps
<1>4. ThreadsOK(request)
  <2>1. request = Threads /\ Threads \in Seq(Range(Threads))
    BY ReviewerAssumption DEF Init
  <2>2. IsSeq(Threads)
    BY <2>1 DEF IsSeq
  <2>3. ASSUME NEW k \in DOMAIN Threads PROVE ThreadOK(Threads[k])
    <3>1. Threads[k] \in Range(Threads)
      BY DEF Range
    <3> DEFINE t == Threads[k]
    <3>2. /\ DOMAIN t = {"id", "at", "resolved", "comments", "notes", "mine"}
          /\ t.id \in Nat \ {0} /\ t.comments \in Seq(Nat)
          /\ t.at # <<>> => t.at.hunk \in Hunk
      BY <3>1, ReviewerAssumption
    <3> HIDE DEF t
    <3>3. IsSeq(t.comments)
      BY <3>2 DEF IsSeq
    <3>4. ThreadOK(t)
      BY <3>2, <3>3 DEF ThreadOK
    <3> QED BY <3>4 DEF t
  <2> QED BY <2>1, <2>2, <2>3 DEF ThreadsOK
<1>5. JumpsOK(jumps) /\ PeekOK(peek)
  BY NoneIsSeq DEF Init, JumpsOK, PeekOK
<1>6. ModeOK(mode, pane, inflight)
  BY NormalIsOK DEF Init
<1>7. made \in Nat
  BY DEF Init
<1> QED BY <1>3, <1>4, <1>5, <1>6, <1>7 DEF RInv

\* Moving, folding, jumping: nothing is open and nothing is opened.
LEMMA MovesKeep ==
  ASSUME RInv, Move \/ LeftPane \/ Fold \/ JumpToDeclaration \/ GoBack \/ Select \/ Close
  PROVE  RInv'
<1>1. PaneOK(pane) /\ PeekOK(peek) /\ JumpsOK(jumps)
  BY DEF RInv
<1>2. mode = Normal /\ mode' = mode /\ Stays
  BY DEF Move, LeftPane, Fold, JumpToDeclaration, GoBack, Select, Close
<1>3. ModeOK(mode', pane', inflight')
  BY <1>2, NormalIsOK
<1> SUFFICES PaneOK(pane') /\ PeekOK(peek') /\ JumpsOK(jumps')
  BY <1>2, <1>3, StaysOK DEF RInv
<1>4. CASE Move
  <2>1. jumps' = jumps
    BY <1>4 DEF Move
  <2>2. PICK p : Shows(p, peek) /\ PaneOK(p)
    <3>1. CASE \E r \in NextSelectable(pane.rows, 1) :
                 Shows([pane EXCEPT !.cursor = r, !.focus = "detail"], peek)
      BY <1>1, <3>1, CursorIsKept DEF Keeps
    <3>2. CASE Shows([pane EXCEPT !.cursor = First(NextSelectable(pane.rows, 1), 1)], peek)
      BY <1>1, <3>2, CursorIsKept DEF Keeps
    <3> QED BY <1>4, <3>1, <3>2 DEF Move
  <2> QED BY <1>1, <2>1, <2>2, ShownIsOK
<1>5. CASE LeftPane
  <2>1. jumps' = jumps
    BY <1>5 DEF LeftPane
  <2>2. PICK p : Shows(p, peek) /\ PaneOK(p)
    <3>1. EntriesOf(pane) \subseteq Nat \ {0}
      BY <1>1, GroupsAreNumbered DEF PaneOK, Shaped, EntriesOf
    <3>2. CASE \E e \in EntriesOf(pane) : Shows(SelectEntry(pane, e), peek)
      BY <1>1, <3>1, <3>2, EntryIsKept DEF Keeps
    <3>3. CASE Shows([pane EXCEPT !.focus = IF Detail THEN "groups" ELSE "detail"], peek)
      <4> DEFINE s == IF Detail THEN "groups" ELSE "detail"
      <4>1. Shows([pane EXCEPT !.focus = s], peek)
        BY <3>3
      <4> HIDE DEF s
      <4>2. PaneOK([pane EXCEPT !.focus = s])
        BY <1>1, CursorIsKept DEF Keeps
      <4> QED BY <4>1, <4>2
    <3> QED BY <1>5, <3>2, <3>3 DEF LeftPane
  <2> QED BY <1>1, <2>1, <2>2, ShownIsOK
<1>6. CASE Fold
  <2>1. jumps' = jumps
    BY <1>6 DEF Fold
  <2>2. \/ Cursor.kind = "edge" /\ Shows(Expand(pane), peek)
        \/ Shows(ToggleThread(pane, Cursor.note), peek)
        \/ Shows(pane, StepPeek)
        \/ Shows(ToggleFold(pane), peek)
    BY <1>6 DEF Fold
  <2>3. CASE Cursor.kind = "edge" /\ Shows(Expand(pane), peek)
    <3>1. PaneOK(Expand(pane))
      BY <1>1, <2>3, ExpandIsKept DEF Keeps, Cursor
    <3> QED BY <1>1, <2>1, <2>3, <3>1, ShownIsOK
  <2>4. CASE Shows(ToggleThread(pane, Cursor.note), peek)
    <3>1. PaneOK(ToggleThread(pane, Cursor.note))
      BY <1>1, FoldIsKept DEF Keeps
    <3> QED BY <1>1, <2>1, <2>4, <3>1, ShownIsOK
  <2>5. CASE Shows(pane, StepPeek)
    BY <1>1, <2>1, <2>5, SteppedPeekIsOK, ShownIsOK
  <2>6. CASE Shows(ToggleFold(pane), peek)
    <3>1. PaneOK(ToggleFold(pane))
      BY <1>1, FoldIsKept DEF Keeps
    <3> QED BY <1>1, <2>1, <2>6, <3>1, ShownIsOK
  <2> QED BY <2>2, <2>3, <2>4, <2>5, <2>6
<1>7. CASE JumpToDeclaration
  <2> DEFINE q == JumpToLine(pane, peek[1].to[1], peek[1].to[2])
             more == Append(IF Len(jumps) = MostPlaces THEN Tail(jumps) ELSE jumps, Place(pane))
  <2>1. peek # <<>> /\ pane' = q /\ peek' = <<>> /\ jumps' = IF Jumped(pane, q) THEN more ELSE jumps
    BY <1>7 DEF JumpToDeclaration
  <2>2. peek[1].to[2] \in Nat
    <3>1. PICK f : peek = <<f>> /\ f.to[2] \in Nat
      BY <1>1, <2>1 DEF PeekOK
    <3>2. peek[1].to = f.to
      BY <3>1
    <3> QED BY <3>1, <3>2
  <2>3. PaneOK(q)
    BY <1>1, <2>2, JumpToLineIsKept DEF Keeps
  <2>4. JumpsOK(more)
    BY <1>1, PlaceIsOK, JumpIsRemembered
  <2>5. PeekOK(<<>>)
    BY DEF PeekOK
  <2> HIDE DEF q, more
  <2> QED BY <1>1, <2>1, <2>3, <2>4, <2>5
<1>8. CASE GoBack
  <2>1. jumps # <<>> /\ Shows(Returned(pane, Last(jumps)), peek) /\ jumps' = Front(jumps)
    BY <1>8 DEF GoBack
  <2>2. \E place : place.entry \in Nat \ {0}
    BY <1>1, PlaceIsOK
  <2>3. JumpsOK(Front(jumps)) /\ Last(jumps).entry \in Nat \ {0}
    BY <1>1, <2>1, <2>2, JumpIsRemembered
  <2>4. PaneOK(Returned(pane, Last(jumps)))
    BY <1>1, <2>3, ReturnIsKept DEF Keeps
  <2> QED BY <1>1, <2>1, <2>3, <2>4, ShownIsOK
<1>9. CASE Select
  <2>1. Shows(pane, peek) /\ jumps' = jumps
    BY <1>9 DEF Select
  <2> QED BY <1>1, <2>1, ShownIsOK
<1>10. CASE Close
  <2>1. pane' = pane /\ peek' = <<>> /\ jumps' = jumps
    BY <1>10 DEF Close
  <2> QED BY <1>1, <2>1 DEF PeekOK
<1> QED BY <1>4, <1>5, <1>6, <1>7, <1>8, <1>9, <1>10

\* The composer and the questions.
LEMMA AsksKeep ==
  ASSUME RInv, EditAtCursor \/ ReplyAtCursor \/ Leave \/ Publish \/ PublishListed \/ Call
                 \/ \E yes \in BOOLEAN : Answer(yes)
  PROVE  RInv'
<1>1. PaneOK(pane) /\ PeekOK(peek) /\ JumpsOK(jumps) /\ ThreadsOK(request) /\ made \in Nat
  BY DEF RInv
<1>2. Shows(pane, peek) /\ jumps' = jumps /\ request' = request /\ made' = made
  BY DEF EditAtCursor, ReplyAtCursor, Leave, Publish, PublishListed, Call, Answer, Stays
<1>3. PaneOK(pane') /\ pane' = pane /\ PeekOK(peek')
  BY <1>1, <1>2, ShownIsOK
<1> SUFFICES ModeOK(mode', pane', inflight')
  BY <1>1, <1>2, <1>3 DEF RInv
<1>4. CASE EditAtCursor
  <2>1. CASE OwnAtCursor # {}
    <3>1. mode' = Editing(HunkAt(Cursor), {}, {}, 0, OwnAtCursor)
      BY <1>4, <2>1 DEF EditAtCursor
    <3> QED BY <2>1, <3>1, OtherComposersAreOK
  <2>2. CASE OwnAtCursor = {}
    <3>1. /\ Cursor.kind # "thread" /\ HunkAt(Cursor) # NoHunk
          /\ mode' = Editing(HunkAt(Cursor), SelectedLines(pane, Anchor),
                             IF visual = <<>> THEN NoteAtCursor ELSE {}, 0, {})
      BY <1>4, <2>2 DEF EditAtCursor
    <3>2. \A p, out :
            ModeOK(Editing(HunkAt(Cursor), SelectedLines(pane, Anchor),
                           IF visual = <<>> THEN NoteAtCursor ELSE {}, 0, {}), p, out)
      BY <1>1, <2>2, <3>1, ComposerIsOK
    <3> QED BY <3>1, <3>2
  <2> QED BY <2>1, <2>2
<1>5. CASE ReplyAtCursor
  <2>1. Cursor.kind = "thread" /\ mode' = Editing(HunkAt(Cursor), {}, {}, Cursor.note, {})
    BY <1>5 DEF ReplyAtCursor
  <2>2. Cursor.note # 0
    <3>1. Row("blank", 0, NoHunk).kind = "blank"
      BY DEF Row
    <3>2. SoundRow(Cursor)
      BY <1>1, <2>1, <3>1 DEF Cursor, RowAt, PaneOK, Sound
    <3> QED BY <2>1, <3>2 DEF SoundRow
  <2> QED BY <2>1, <2>2, OtherComposersAreOK
<1>6. CASE Leave
  BY <1>6, NormalIsOK DEF Leave
<1>7. CASE Publish \/ PublishListed
  <2>1. mode' = (IF Ready /\ BatchOf(pane) # {} THEN [kind |-> "publish", batch |-> BatchOf(pane)] ELSE Normal)
        /\ inflight' = inflight
    BY <1>7 DEF Publish, PublishListed, OfferPublish, Stays
  <2>2. CASE Ready /\ BatchOf(pane) # {}
    <3> DEFINE b == BatchOf(pane)
    <3>1. mode' = [kind |-> "publish", batch |-> b] /\ inflight' = NoCall
      BY <2>1, <2>2 DEF Ready
    <3>2. b = BatchOf(pane')
      BY <1>3
    <3> HIDE DEF b
    <3> QED BY <3>1, <3>2 DEF ModeOK
  <2>3. CASE ~(Ready /\ BatchOf(pane) # {})
    BY <2>1, <2>3, NormalIsOK
  <2> QED BY <2>2, <2>3
<1>8. CASE Call
  BY <1>8, NormalIsOK DEF Call
<1>9. CASE \E yes \in BOOLEAN : Answer(yes)
  BY <1>9, NormalIsOK DEF Answer
<1> QED BY <1>4, <1>5, <1>6, <1>7, <1>8, <1>9

\* `enter` in the composer.
LEMMA SaveKeeps ==
  ASSUME RInv, Save
  PROVE  RInv'
<1> DEFINE m == mode
           own == IF m.own # {} THEN m.own ELSE UNION {OwnOfFinding(id) : id \in m.rewriting}
           thread == Thread(m.reply)
           lost == m.rewriting # {} \/ (m.reply # 0 /\ (thread = <<>> \/ thread[1].at = <<>>))
           at == IF m.reply = 0 THEN FiledAt(m.hunk, m.lines) ELSE thread[1].at
           more == Noted(at, m.reply)
<1>1. PaneOK(pane) /\ PeekOK(peek) /\ JumpsOK(jumps) /\ ThreadsOK(request) /\ made \in Nat
  BY DEF RInv
<1>2. m.kind = "editing" /\ mode' = Normal /\ jumps' = jumps /\ request' = request
  BY DEF Save
<1>3. \/ Shows(pane, peek) /\ made' = made
      \/ Shows(Rebuilt(pane), peek) /\ made' = made
      \/ own = {} /\ ~lost /\ made' = made + 1 /\ Shows(WithNotes(pane, more), peek)
  BY DEF Save
<1>4. ModeOK(mode', pane', inflight')
  BY <1>2, NormalIsOK
<1>5. CASE Shows(pane, peek) /\ made' = made
  BY <1>1, <1>2, <1>4, <1>5, ShownIsOK DEF RInv
<1>6. CASE Shows(Rebuilt(pane), peek) /\ made' = made
  <2>1. PaneOK(Rebuilt(pane))
    BY <1>1, FoldIsKept DEF Keeps
  <2> QED BY <1>1, <1>2, <1>4, <1>6, <2>1, ShownIsOK DEF RInv
<1>7. CASE own = {} /\ ~lost /\ made' = made + 1 /\ Shows(WithNotes(pane, more), peek)
  <2>1. at.hunk \in Hunk
    <3>1. CASE m.reply = 0
      <4>1. m.own = {} /\ m.rewriting = {}
        BY <1>7
      <4>2. m.hunk \in Hunk
        BY <1>2, <3>1, <4>1 DEF RInv, ModeOK
      <4>3. FiledAt(m.hunk, m.lines).hunk = m.hunk
        BY DEF FiledAt
      <4> QED BY <3>1, <4>2, <4>3
    <3>2. CASE m.reply # 0
      <4>1. thread # <<>> /\ thread[1].at # <<>>
        BY <1>7, <3>2
      <4>2. ThreadOK(thread[1])
        BY <1>1, <4>1, FoundIsOK
      <4> QED BY <3>2, <4>1, <4>2 DEF ThreadOK
    <3> QED BY <3>1, <3>2
  <2> HIDE DEF at, m
  <2> DEFINE n == [id |-> made + 1, at |-> at, reply |-> m.reply, sent |-> 0]
  <2>2. NoteOK(n)
    BY <1>1, <2>1 DEF NoteOK
  <2>3. more = Append(pane.notes, n)
    BY DEF Noted
  <2> HIDE DEF n, more
  <2>4. NotesOK(more)
    BY <1>1, <2>2, <2>3, NotedIsOK DEF PaneOK, Shaped
  <2>5. PaneOK(WithNotes(pane, more))
    BY <1>1, <2>4, WithNotesIsOK
  <2>6. made' \in Nat
    BY <1>1, <1>7
  <2> QED BY <1>1, <1>2, <1>4, <1>7, <2>5, <2>6, ShownIsOK DEF RInv
<1> QED BY <1>3, <1>5, <1>6, <1>7

\* The lists, the search and help.
LEMMA ListsKeep ==
  ASSUME RInv, DeleteAtCursor \/ Open \/ Shut \/ Jump \/ DeleteListed \/ ClearNotes
  PROVE  RInv'
<1>1. /\ PaneOK(pane) /\ PeekOK(peek) /\ JumpsOK(jumps) /\ ThreadsOK(request) /\ made \in Nat
      /\ NotesOK(pane.notes) /\ ModeOK(mode, pane, inflight)
  BY DEF RInv, PaneOK, Shaped
<1>2. Stays
  BY DEF DeleteAtCursor, Open, Shut, Jump, DeleteListed, ClearNotes
<1>3. ThreadsOK(request') /\ made' \in Nat /\ inflight' = inflight
  BY <1>2, StaysOK
<1> SUFFICES PaneOK(pane') /\ PeekOK(peek') /\ JumpsOK(jumps') /\ ModeOK(mode', pane', inflight')
  BY <1>3 DEF RInv
<1>4. \A own, p, out : ModeOK(Asks(own), p, out)
  <2>1. \A own : Asks(own).kind = "delete"
    BY DEF Asks
  <2> QED BY <2>1, OtherModesAreOK
<1>5. \A p, q, out, confirming : ModeOK(Listing(p, confirming), q, out)
  BY ListingIsOK, ListsAreOK
<1>6. CASE DeleteAtCursor
  <2>1. jumps' = jumps
    BY <1>6 DEF DeleteAtCursor
  <2>2. CASE OwnAtCursor # {}
    <3>1. mode' = Asks(OwnAtCursor) /\ Shows(pane, peek)
      BY <1>6, <2>2 DEF DeleteAtCursor
    <3> QED BY <1>1, <1>4, <2>1, <3>1, ShownIsOK
  <2>3. CASE OwnAtCursor = {}
    <3> DEFINE left == Without(pane.notes, Cursor.note)
    <3>1. mode' = Normal /\ Shows(WithNotes(pane, left), peek)
      BY <1>6, <2>3 DEF DeleteAtCursor
    <3>2. NotesOK(left)
      BY <1>1, WithoutIsOK
    <3> HIDE DEF left
    <3>3. PaneOK(WithNotes(pane, left))
      BY <1>1, <3>2, WithNotesIsOK
    <3> QED BY <1>1, <2>1, <3>1, <3>3, ShownIsOK, NormalIsOK
  <2> QED BY <2>2, <2>3
<1>7. CASE Open
  <2>1. Shows(pane, peek) /\ jumps' = jumps
    BY <1>7 DEF Open
  <2>2. \/ mode' = [kind |-> "files", entries |-> Files(pane)]
        \/ mode' = Listing(pane, FALSE)
        \/ mode' = [kind |-> "search"]
        \/ mode' = [kind |-> "help", from |-> mode]
    BY <1>7 DEF Open
  <2>3. ModeOK(mode', pane', inflight')
    <3>1. CASE mode' = [kind |-> "files", entries |-> Files(pane)]
      <4>1. mode'.kind = "files"
        BY <3>1
      <4> QED BY <4>1, OtherModesAreOK
    <3>2. CASE mode' = Listing(pane, FALSE)
      BY <1>5, <3>2
    <3>3. CASE mode' = [kind |-> "search"]
      <4>1. mode'.kind = "search"
        BY <3>3
      <4> QED BY <4>1, OtherModesAreOK
    <3>4. CASE mode' = [kind |-> "help", from |-> mode]
      <4>1. mode.kind \in {"normal", "files", "findings"}
        BY <1>7 DEF Open
      <4>2. IsList(mode)
        BY <1>1, <4>1 DEF ModeOK, IsList
      <4>3. mode'.kind = "help" /\ mode'.from = mode
        BY <3>4
      <4> QED BY <4>2, <4>3 DEF ModeOK
    <3> QED BY <2>2, <3>1, <3>2, <3>3, <3>4
  <2> QED BY <1>1, <2>1, <2>3, ShownIsOK
<1>8. CASE Shut
  <2>1. Shows(pane, peek) /\ jumps' = jumps
    BY <1>8 DEF Shut
  <2>2. mode' = Normal \/ (mode.kind = "help" /\ mode' = mode.from)
    BY <1>8 DEF Shut
  <2>3. ModeOK(mode', pane', inflight')
    <3>1. CASE mode' = Normal
      BY <3>1, NormalIsOK
    <3>2. CASE mode.kind = "help" /\ mode' = mode.from
      <4>1. IsList(mode')
        BY <1>1, <3>2 DEF ModeOK
      <4> QED BY <4>1, ListsAreOK
    <3> QED BY <2>2, <3>1, <3>2
  <2> QED BY <1>1, <2>1, <2>3, ShownIsOK
<1>9. CASE Jump
  <2>1. ModeOK(mode', pane', inflight')
    BY <1>9, NormalIsOK DEF Jump
  <2>2. PICK q : PaneOK(q) /\ Jumping(q)
    <3>1. CASE \E e \in mode.entries : Jumping(LandOn(pane, e.row))
      BY <1>1, <3>1, LandingIsKept DEF Keeps
    <3>2. CASE \E e \in mode.entries :
                 LET item == IF e.kind = "note" THEN Note(e.id) ELSE Thread(e.id) IN
                 Jumping(IF item = <<>> \/ e.at = <<>> \/ item[1].at = <<>> THEN pane
                         ELSE JumpToNote(pane, e.kind, e.id, item[1].at))
      <4>1. PICK e \in mode.entries :
                 LET item == IF e.kind = "note" THEN Note(e.id) ELSE Thread(e.id) IN
                 Jumping(IF item = <<>> \/ e.at = <<>> \/ item[1].at = <<>> THEN pane
                         ELSE JumpToNote(pane, e.kind, e.id, item[1].at))
        BY <3>2
      <4> DEFINE item == IF e.kind = "note" THEN Note(e.id) ELSE Thread(e.id)
                 q == IF item = <<>> \/ e.at = <<>> \/ item[1].at = <<>> THEN pane
                      ELSE JumpToNote(pane, e.kind, e.id, item[1].at)
      <4>2. Jumping(q)
        BY <4>1
      <4>3. CASE item = <<>> \/ e.at = <<>> \/ item[1].at = <<>>
        <5>1. q = pane
          BY <4>3
        <5> HIDE DEF q
        <5> QED BY <1>1, <4>2, <5>1
      <4>4. CASE ~(item = <<>> \/ e.at = <<>> \/ item[1].at = <<>>)
        <5>1. q = JumpToNote(pane, e.kind, e.id, item[1].at)
          BY <4>4
        <5>2. item[1].at.hunk \in Hunk
          <6>1. NoteOK(item[1]) \/ ThreadOK(item[1])
            BY <1>1, <4>4, FoundIsOK
          <6> HIDE DEF item
          <6> QED BY <4>4, <6>1 DEF NoteOK, ThreadOK
        <5> HIDE DEF q, item
        <5>3. PaneOK(q)
          BY <1>1, <5>1, <5>2, JumpToNoteIsKept DEF Keeps
        <5> QED BY <4>2, <5>3
      <4> QED BY <4>3, <4>4
    <3>3. CASE \E f \in File : \E line \in 1 .. FileLen[f].new : Jumping(JumpToLine(pane, f, line))
      <4>1. PICK f \in File : \E line \in 1 .. FileLen[f].new : Jumping(JumpToLine(pane, f, line))
        BY <3>3
      <4>2. PICK line \in 1 .. FileLen[f].new : Jumping(JumpToLine(pane, f, line))
        BY <4>1
      <4>3. PaneOK(JumpToLine(pane, f, line))
        BY <1>1, JumpToLineIsKept DEF Keeps
      <4> QED BY <4>2, <4>3
    <3> QED BY <1>9, <3>1, <3>2, <3>3 DEF Jump
  <2> QED BY <2>1, <2>2, JumpedIsOK
<1>10. CASE DeleteListed
  <2>1. jumps' = jumps /\ mode.kind = "findings"
    BY <1>10 DEF DeleteListed
  <2>2. PICK e \in mode.entries :
          \/ Shows(pane, peek) /\ \E own : mode' = Asks(own)
          \/ LET p == WithNotes(pane, Without(pane.notes, e.id))
             IN  Shows(p, peek) /\ mode' = Reopened(mode, p)
    BY <1>10 DEF DeleteListed
  <2>3. CASE Shows(pane, peek) /\ \E own : mode' = Asks(own)
    BY <1>1, <1>4, <2>1, <2>3, ShownIsOK
  <2>4. CASE LET p == WithNotes(pane, Without(pane.notes, e.id))
             IN  Shows(p, peek) /\ mode' = Reopened(mode, p)
    <3> DEFINE left == Without(pane.notes, e.id)
               p == WithNotes(pane, left)
    <3>1. Shows(p, peek) /\ mode' = Listing(p, FALSE)
      BY <2>1, <2>4 DEF Reopened
    <3>2. NotesOK(left)
      BY <1>1, WithoutIsOK
    <3> HIDE DEF left
    <3>3. PaneOK(p)
      BY <1>1, <3>2, WithNotesIsOK
    <3> HIDE DEF p
    <3> QED BY <1>1, <1>5, <2>1, <3>1, <3>3, ShownIsOK
  <2> QED BY <2>2, <2>3, <2>4
<1>11. CASE ClearNotes
  <2>1. jumps' = jumps /\ mode.kind = "findings" /\ IsList(mode)
    BY <1>1, <1>11 DEF ClearNotes, ModeOK
  <2>2. \A c : IsList([mode EXCEPT !.confirming = c])
    BY <2>1 DEF IsList
  <2> DEFINE places == {n \in DOMAIN pane.notes : pane.notes[n].sent # 0}
             left == Taken(pane.notes, places)
             p == WithNotes(pane, left)
  <2>3. \/ Shows(pane, peek) /\ \E c : mode' = [mode EXCEPT !.confirming = c]
        \/ Shows(p, peek) /\ mode' = Listing(p, FALSE)
    BY <1>11, <2>1 DEF ClearNotes, Reopened
  <2>4. places \in SUBSET DOMAIN pane.notes
    OBVIOUS
  <2> HIDE DEF places
  <2>5. NotesOK(left)
    BY <1>1, <2>4, SomeNotesAreOK
  <2> HIDE DEF left
  <2>6. PaneOK(p)
    BY <1>1, <2>5, WithNotesIsOK
  <2> HIDE DEF p
  <2>7. CASE Shows(pane, peek) /\ \E c : mode' = [mode EXCEPT !.confirming = c]
    BY <1>1, <2>1, <2>2, <2>7, ListsAreOK, ShownIsOK
  <2>8. CASE Shows(p, peek) /\ mode' = Listing(p, FALSE)
    BY <1>1, <1>5, <2>1, <2>6, <2>8, ShownIsOK
  <2> QED BY <2>3, <2>7, <2>8
<1> QED BY <1>6, <1>7, <1>8, <1>9, <1>10, <1>11

\* Of the reader's notes an answer leaves each, whatever it links it to, or is of the
\* note's comment deleted.
Spared(notes) ==
  \/ Relinks(pane.notes, notes)
  \/ /\ inflight.kind = "delete"
     /\ \E own \in inflight.own : \A k \in DOMAIN pane.notes :
          \/ \E l \in DOMAIN notes : notes[l] = pane.notes[k]
          \/ pane.notes[k].sent # 0 /\ CommentOf(pane.notes[k].id) = own.comment

LEMMA AnswersLand ==
  ASSUME RInv, Answers
  PROVE  /\ inflight # NoCall /\ ThreadsOK(request')
         /\ \E p, m : /\ Shaped(p) /\ Spared(p.notes) /\ Lands(p, m)
                      /\ m = mode \/ m = Notice \/ m = Reopened(mode, p)
<1>1. PaneOK(pane) /\ Shaped(pane) /\ ThreadsOK(request) /\ NotesOK(pane.notes) /\ ThreadsOK(pane.threads)
  BY DEF RInv, PaneOK, Shaped
<1>2. inflight # NoCall
  <2>1. NoCall.kind = "none"
    BY DEF NoCall
  <2>2. inflight # NoCall \/ inflight.kind \in {"fetch", "resolve", "publish", "edit", "delete"}
    BY DEF Answers, Fails, Fetched, ResolveLands, PublishLands, EditLands, DeleteLands
  <2> QED BY <2>1, <2>2
<1>3. Relinks(pane.notes, pane.notes)
  BY <1>1 DEF Relinks
<1>4. CASE Fails
  BY <1>1, <1>2, <1>3, <1>4 DEF Fails, Spared
<1>5. CASE Fetched
  <2> DEFINE p == WithThreads(pane, request)
  <2>1. Lands(p, mode) /\ request' = request
    BY <1>5 DEF Fetched
  <2>2. Shaped(p) /\ Relinks(pane.notes, p.notes)
    BY <1>1, WithThreadsIsOK
  <2> HIDE DEF p
  <2> QED BY <1>1, <1>2, <2>1, <2>2 DEF Spared
<1>6. CASE ResolveLands
  <2> DEFINE ts == Resolved(pane.threads)
             p == [pane EXCEPT !.threads = ts]
  <2>1. Lands(p, mode) /\ request' = Resolved(request)
    BY <1>6 DEF ResolveLands
  <2>2. ThreadsOK(ts) /\ ThreadsOK(request')
    BY <1>1, <2>1, ResolvedIsOK
  <2> HIDE DEF ts
  <2>3. Shaped(p) /\ p.notes = pane.notes
    BY <1>1, <2>2 DEF Shaped
  <2> HIDE DEF p
  <2> QED BY <1>2, <1>3, <2>1, <2>2, <2>3 DEF Spared
<1>7. CASE PublishLands
  <2>1. PICK landed \in SUBSET inflight.batch : \E refetched \in BOOLEAN :
          LET sent == Taken(pane.notes, {n \in DOMAIN pane.notes : pane.notes[n].id \in landed})
              posted == Posted(request, sent)
              p == Sent(pane, landed)
          IN  /\ request' = posted
              /\ Lands(IF refetched THEN WithThreads(p, posted) ELSE p,
                       IF landed = inflight.batch THEN mode ELSE Notice)
    BY <1>7 DEF PublishLands
  <2> DEFINE places == {n \in DOMAIN pane.notes : pane.notes[n].id \in landed}
             sent == Taken(pane.notes, places)
             posted == Posted(request, sent)
             p == Sent(pane, landed)
             q == WithThreads(p, posted)
             m == IF landed = inflight.batch THEN mode ELSE Notice
  <2>2. request' = posted /\ (Lands(q, m) \/ Lands(p, m))
    BY <2>1
  <2>3. places \in SUBSET DOMAIN pane.notes
    OBVIOUS
  <2> HIDE DEF places
  <2>4. NotesOK(sent)
    BY <1>1, <2>3, SomeNotesAreOK
  <2> HIDE DEF sent
  <2>5. ThreadsOK(posted)
    BY <1>1, <2>4, PostedIsOK
  <2> HIDE DEF posted
  <2>6. Shaped(p) /\ Relinks(pane.notes, p.notes)
    BY <1>1, SentIsOK
  <2> HIDE DEF p
  <2>7. Shaped(q) /\ Relinks(p.notes, q.notes)
    BY <2>5, <2>6, WithThreadsIsOK
  <2> HIDE DEF q
  <2>8. Relinks(pane.notes, q.notes)
    BY <2>6, <2>7, RelinksBoth
  <2>9. m = mode \/ m = Notice
    OBVIOUS
  <2> HIDE DEF m
  <2> QED BY <1>2, <2>2, <2>5, <2>6, <2>7, <2>8, <2>9 DEF Spared
<1>8. CASE EditLands
  BY <1>1, <1>2, <1>3, <1>8 DEF EditLands, Spared
<1>9. CASE DeleteLands
  <2>1. PICK own \in inflight.own :
          LET p == [pane EXCEPT !.threads = Gone(@, own.comment),
                                !.notes = Taken(@, {n \in DOMAIN @ : ~Linked(pane.notes[n], own)})]
          IN  Lands(p, Reopened(mode, p)) /\ request' = Gone(request, own.comment)
    BY <1>9 DEF DeleteLands
  <2> DEFINE places == {n \in DOMAIN pane.notes : ~Linked(pane.notes[n], own)}
             left == Taken(pane.notes, places)
             ts == Gone(pane.threads, own.comment)
             p == [pane EXCEPT !.threads = ts, !.notes = left]
  <2>2. Lands(p, Reopened(mode, p)) /\ request' = Gone(request, own.comment)
    BY <2>1
  <2>3. ThreadsOK(ts) /\ ThreadsOK(request')
    BY <1>1, <2>2, GoneIsOK
  <2> HIDE DEF ts
  <2>4. places \in SUBSET DOMAIN pane.notes
    OBVIOUS
  <2>5. \A k \in DOMAIN pane.notes : k \in places \/
          (pane.notes[k].sent # 0 /\ CommentOf(pane.notes[k].id) = own.comment)
    BY DEF Linked
  <2> HIDE DEF places
  <2>6. NotesOK(left) /\ \A k \in places : \E l \in DOMAIN left : left[l] = pane.notes[k]
    BY <1>1, <2>4, SomeNotesAreOK
  <2> HIDE DEF left
  <2>7. Shaped(p) /\ p.notes = left
    BY <1>1, <2>3, <2>6 DEF Shaped
  <2> HIDE DEF p
  <2>8. inflight.kind = "delete"
    BY <1>9 DEF DeleteLands
  <2>9. Spared(p.notes)
    BY <2>5, <2>6, <2>7, <2>8 DEF Spared
  <2> QED BY <1>2, <2>2, <2>3, <2>7, <2>9
<1> QED BY <1>4, <1>5, <1>6, <1>7, <1>8, <1>9 DEF Answers

\* An answer leaves the mode with what it was opened on.
LEMMA AnswersKeep ==
  ASSUME RInv, Answers
  PROVE  RInv'
<1>1. PICK p, m : /\ Shaped(p) /\ Lands(p, m)
                  /\ m = mode \/ m = Notice \/ m = Reopened(mode, p)
  BY AnswersLand
<1>2. inflight # NoCall /\ ThreadsOK(request')
  BY AnswersLand
<1>3. PeekOK(peek) /\ JumpsOK(jumps) /\ made \in Nat /\ ModeOK(mode, pane, inflight)
  BY DEF RInv
<1>4. /\ PaneOK(pane') /\ PeekOK(peek') /\ JumpsOK(jumps') /\ made' \in Nat
      /\ mode' = m /\ inflight' = NoCall
  BY <1>1, <1>3, LandedIsOK
<1>5. \A q : ModeOK(m, q, NoCall)
  <2>1. CASE m = mode
    BY <1>2, <1>3, <2>1, LandedModeIsOK
  <2>2. CASE m = Notice
    <3>1. m.kind = "notice"
      BY <2>2 DEF Notice
    <3> QED BY <3>1, OtherModesAreOK
  <2>3. CASE m = Reopened(mode, p)
    <3>1. CASE mode.kind = "findings"
      BY <2>3, <3>1, ListingIsOK, ListsAreOK DEF Reopened
    <3>2. CASE mode.kind # "findings"
      BY <1>2, <1>3, <2>3, <3>2, LandedModeIsOK DEF Reopened
    <3> QED BY <3>1, <3>2
  <2> QED BY <1>1, <2>1, <2>2, <2>3
<1> QED BY <1>2, <1>4, <1>5 DEF RInv

LEMMA StepsKeep == RInv /\ [Next]_vars => RInv'
<1> SUFFICES ASSUME RInv, [Next]_vars PROVE RInv'
  OBVIOUS
<1>1. CASE Next
  <2>1. CASE Keys
    BY <2>1, MovesKeep, AsksKeep, SaveKeeps, ListsKeep DEF Keys
  <2>2. CASE Answers
    BY <2>2, AnswersKeep
  <2> QED BY <1>1, <2>1, <2>2 DEF Next
<1>2. CASE UNCHANGED vars
  BY <1>2 DEF vars, RInv
<1> QED BY <1>1, <1>2

-----------------------------------------------------------------------------
(* What the reviewer may count on *)

\* Whatever the reader presses and whatever the forge answers: the pane's rows say
\* where they are, every note and thread drawn is about a hunk, the question what to
\* publish is open over what there is to send and with no call out, and the composer
\* holds what it was opened on (`handle_key`, `poll_forge`).
THEOREM ReviewerInvariant == Spec => []RInv
<1>1. Init => RInv
  BY StartsOK
<1> QED BY <1>1, StepsKeep, PTL DEF Spec

\* A `y` sends the batch the question showed, and it is all there is to send.
THEOREM PublishedIsWhatWasAsked == Spec => OnlyWhatWasAsked
<1> DEFINE A == \A b \in {inflight'.kind} :
                  b = "publish" /\ inflight.kind # "publish" =>
                    /\ mode.kind = "publish" /\ inflight'.batch = mode.batch
                    /\ mode.batch = BatchOf(pane)
<1>1. RInv /\ [Next]_vars => [A]_vars
  <2> SUFFICES ASSUME RInv, Next, inflight'.kind = "publish", inflight.kind # "publish"
               PROVE  /\ mode.kind = "publish" /\ inflight'.batch = mode.batch
                      /\ mode.batch = BatchOf(pane)
    OBVIOUS
  <2>1. ~Answers
    <3> SUFFICES ASSUME Answers PROVE FALSE
      OBVIOUS
    <3>1. inflight' = NoCall
      BY DEF Answers, Fails, Fetched, ResolveLands, PublishLands, EditLands, DeleteLands, Lands
    <3> QED BY <3>1 DEF NoCall
  <2>2. inflight' # inflight
    OBVIOUS
  <2>3. Call \/ Save \/ \E yes \in BOOLEAN : Answer(yes)
    BY <2>1, <2>2 DEF Next, Keys, Stays, Move, LeftPane, Fold, JumpToDeclaration, GoBack, Select, Close,
       EditAtCursor, ReplyAtCursor, Leave, DeleteAtCursor, Publish, Open, Shut, Jump, DeleteListed,
       ClearNotes, PublishListed
  <2>4. ~Call
    BY DEF Call
  <2>5. ~Save
    <3> SUFFICES ASSUME Save PROVE FALSE
      OBVIOUS
    <3>1. \E own : SendsEdit(own)
      BY <2>2 DEF Save
    <3>2. PICK own : SendsEdit(own)
      BY <3>1
    <3>3. inflight' = [kind |-> "edit", own |-> own]
      BY <2>2, <3>2 DEF SendsEdit
    <3> QED BY <3>3
  <2>6. PICK yes \in BOOLEAN : Answer(yes)
    BY <2>3, <2>4, <2>5
  <2>7. mode.kind = "publish" /\ inflight' = [kind |-> "publish", batch |-> mode.batch]
    <3>1. inflight' = IF mode.kind = "publish" THEN [kind |-> "publish", batch |-> mode.batch]
                      ELSE [kind |-> "delete", own |-> mode.own]
      BY <2>2, <2>6 DEF Answer
    <3> QED BY <3>1
  <2>8. mode.batch = BatchOf(pane)
    BY <2>7 DEF RInv, ModeOK
  <2> QED BY <2>7, <2>8
<1> QED BY <1>1, ReviewerInvariant, PTL DEF Spec, OnlyWhatWasAsked

\* The forge takes no words from the reader.
THEOREM NotesAreTheReaders == Spec => NotesGoByHand
<1> DEFINE Kept(n) ==
             \/ \E k \in Range(pane'.notes) : k.id = n.id
             \/ /\ inflight.kind = "delete" /\ n.sent # 0
                /\ \E own \in inflight.own : own.comment = CommentOf(n.id)
<1>1. RInv /\ [Next]_vars =>
        [(inflight # NoCall /\ inflight' = NoCall) => \A n \in Range(pane.notes) : Kept(n)]_vars
  <2> SUFFICES ASSUME RInv, Next, inflight # NoCall, inflight' = NoCall,
                      NEW n \in Range(pane.notes)
               PROVE  Kept(n)
    OBVIOUS
  <2>1. Answers
    <3> SUFFICES ASSUME Keys PROVE FALSE
      BY DEF Next
    <3>1. inflight' # inflight
      OBVIOUS
    <3>2. Call \/ Save \/ \E yes \in BOOLEAN : Answer(yes)
      BY <3>1 DEF Keys, Stays, Move, LeftPane, Fold, JumpToDeclaration, GoBack, Select, Close,
         EditAtCursor, ReplyAtCursor, Leave, DeleteAtCursor, Publish, Open, Shut, Jump, DeleteListed,
         ClearNotes, PublishListed
    <3>3. ~Ready
      BY DEF Ready
    <3>4. ~Call
      BY <3>3 DEF Call
    <3>5. ~Save
      BY <3>1, <3>3 DEF Save, SendsEdit
    <3>6. ~ \E yes \in BOOLEAN : Answer(yes)
      BY <3>1, <3>3 DEF Answer
    <3> QED BY <3>2, <3>4, <3>5, <3>6
  <2>2. PICK p, m : Shaped(p) /\ Spared(p.notes) /\ Lands(p, m)
    BY <2>1, AnswersLand
  <2>3. pane'.notes = p.notes
    BY <2>2, LandedIsOK DEF RInv
  <2>4. PICK k \in DOMAIN pane.notes : n = pane.notes[k]
    BY DEF Range
  <2>5. \A l \in DOMAIN p.notes : p.notes[l] \in Range(pane'.notes)
    BY <2>3 DEF Range
  <2>6. CASE Relinks(pane.notes, p.notes)
    BY <2>4, <2>5, <2>6 DEF Relinks
  <2>7. CASE /\ inflight.kind = "delete"
             /\ \E own \in inflight.own : \A j \in DOMAIN pane.notes :
                  \/ \E l \in DOMAIN p.notes : p.notes[l] = pane.notes[j]
                  \/ pane.notes[j].sent # 0 /\ CommentOf(pane.notes[j].id) = own.comment
    BY <2>4, <2>5, <2>7
  <2> QED BY <2>2, <2>6, <2>7 DEF Spared
<1> QED BY <1>1, ReviewerInvariant, PTL DEF Spec, NotesGoByHand

\* A new note is filed where the reader was when they pressed `c`.
THEOREM NotesAreFiledThere == Spec => NotesAreFiledWhereAsked
<1> DEFINE note == Last(pane'.notes).at
           row  == mode.asked
           There == /\ note.file = row.file /\ note.hunk = row.hunk
                    /\ row.kind = "line" => row[note.side] \in note.line .. note.end_line
<1>1. RInv /\ [Next]_vars => [made' > made /\ mode.reply = 0 /\ mode.from = <<>> => There]_vars
  <2> SUFFICES ASSUME RInv, Next, made' > made, mode.reply = 0, mode.from = <<>>
               PROVE  There
    OBVIOUS
  <2>1. PaneOK(pane) /\ made \in Nat /\ ModeOK(mode, pane, inflight)
    BY DEF RInv
  <2>2. Save
    <3>1. made' # made
      BY <2>1
    <3> QED BY <3>1 DEF Next, Keys, Answers, Stays, Move, LeftPane, Fold, JumpToDeclaration, GoBack, Select,
         Close, EditAtCursor, ReplyAtCursor, Leave, DeleteAtCursor, Publish, Open, Shut, Jump, DeleteListed,
         ClearNotes, PublishListed, Call, Answer, Fails, Fetched, ResolveLands, PublishLands, EditLands,
         DeleteLands, Lands
  <2> DEFINE at == FiledAt(mode.hunk, mode.lines)
             n == [id |-> made + 1, at |-> at, reply |-> 0, sent |-> 0]
             more == Append(pane.notes, n)
  <2>3. /\ mode.kind = "editing" /\ mode.own = {} /\ mode.rewriting = {}
        /\ Shows(WithNotes(pane, more), peek)
    <3>1. made' # made
      BY <2>1
    <3>2. Noted(at, 0) = more
      BY DEF Noted
    <3>3. Shows(WithNotes(pane, Noted(at, 0)), peek) /\ mode.own = {} /\ mode.rewriting = {} /\ mode.kind = "editing"
      BY <2>2, <3>1 DEF Save
    <3> HIDE DEF more, at
    <3> QED BY <3>2, <3>3
  <2>4. mode.hunk \in Hunk /\ AsAsked(mode)
    BY <2>1, <2>3 DEF ModeOK
  <2>5. at.hunk \in Hunk
    BY <2>4 DEF FiledAt
  <2> HIDE DEF at
  <2>6. NoteOK(n) /\ n.at = at
    BY <2>1, <2>5 DEF NoteOK
  <2> HIDE DEF n
  <2>7. NotesOK(more) /\ Last(more) = n
    BY <2>1, <2>6, NotedIsOK DEF PaneOK, Shaped
  <2> HIDE DEF more
  <2>8. pane'.notes = more
    BY <2>1, <2>3, <2>7, WithNotesIsOK DEF Shows
  <2>9. note = at
    BY <2>6, <2>7, <2>8
  <2> HIDE DEF note
  <2> QED BY <2>4, <2>9 DEF AsAsked, at
<1> QED BY <1>1, ReviewerInvariant, PTL DEF Spec, NotesAreFiledWhereAsked

=============================================================================
