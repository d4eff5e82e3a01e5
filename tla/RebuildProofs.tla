--------------------------- MODULE RebuildProofs ---------------------------
(***************************************************************************)
(* What the renderer promises of a stack, proved for any paths, entries    *)
(* and edits, for hunks carried in any order and any number at a time.     *)
(*                                                                         *)
(* First the applier, which knows nothing of commits.  A report is read as *)
(* runs between the lines that stay (Lined), and the applier as a pass     *)
(* over its hunks (Passes).  The two are walked together, run by run, with *)
(* the invariant Written: what has been written, and what is left of the   *)
(* base up to the end of run k, are the words of the lines chosen so far.  *)
(* The end of the file is settled by the last run alone (EndIsRight), as   *)
(* no line before it can lack a newline.                                   *)
(*                                                                         *)
(* Then the stack, where every tree staged is some set of hunks applied.   *)
(*                                                                         *)
(* Last the request's page (RequestLines).  A diff is its runs laid end to *)
(* end (Stands), so the lines of each side count up down it (Counted), the *)
(* hunks are where their numbers say (InDiff), and from that alone follows *)
(* which lines are on the page, which number a line has on the other side  *)
(* and where a thread is shown.                                            *)
(***************************************************************************)
EXTENDS RequestLines, FiniteInduction, SequenceTheorems

----------------------------------------------------------------------------
(* Lines of a content *)

LineRec == [text : Line, nl : BOOLEAN]

LEMMA BlankIsALine == Blank \in Line
  BY DEF Line

\* Every line but the last ends with a newline, and a last one that does not is not blank.
AreLines(ls) ==
  /\ \A i \in 1..Len(ls) : i < Len(ls) => ls[i].nl
  /\ ls # <<>> /\ ~ls[Len(ls)].nl => ls[Len(ls)].text # Blank

\* What a content has after the words of its lines.
Ending(ls) == IF ls = <<>> \/ ls[Len(ls)].nl THEN <<Blank>> ELSE <<>>

LEMMA TextsType ==
  ASSUME NEW ls \in Seq(LineRec)
  PROVE  /\ Texts(ls) \in Seq(Line) /\ Len(Texts(ls)) = Len(ls)
         /\ \A i \in 1..Len(ls) : Texts(ls)[i] = ls[i].text
<1>1. DOMAIN ls = 1..Len(ls) /\ Len(ls) \in Nat /\ \A i \in 1..Len(ls) : ls[i] \in LineRec
  OBVIOUS
<1>2. Texts(ls) \in [1..Len(ls) -> Line]
  BY <1>1 DEF Texts, LineRec
<1> QED
  BY <1>1, <1>2 DEF Texts

LEMMA TextsConcat ==
  ASSUME NEW x \in Seq(LineRec), NEW y \in Seq(LineRec)
  PROVE  Texts(x \o y) = Texts(x) \o Texts(y)
<1>1. /\ x \o y \in Seq(LineRec) /\ Len(x \o y) = Len(x) + Len(y)
      /\ \A i \in 1..(Len(x) + Len(y)) : (x \o y)[i] = IF i <= Len(x) THEN x[i] ELSE y[i - Len(x)]
  BY ConcatProperties
<1>2. /\ Texts(x) \in Seq(Line) /\ Len(Texts(x)) = Len(x)
      /\ \A i \in 1..Len(x) : Texts(x)[i] = x[i].text
  BY TextsType
<1>3. /\ Texts(y) \in Seq(Line) /\ Len(Texts(y)) = Len(y)
      /\ \A i \in 1..Len(y) : Texts(y)[i] = y[i].text
  BY TextsType
<1>4. /\ Texts(x \o y) \in Seq(Line) /\ Len(Texts(x \o y)) = Len(x) + Len(y)
      /\ \A i \in 1..(Len(x) + Len(y)) : Texts(x \o y)[i] = (x \o y)[i].text
  BY <1>1, TextsType
<1>5. /\ Texts(x) \o Texts(y) \in Seq(Line) /\ Len(Texts(x) \o Texts(y)) = Len(x) + Len(y)
      /\ \A i \in 1..(Len(x) + Len(y)) :
           (Texts(x) \o Texts(y))[i] = IF i <= Len(x) THEN Texts(x)[i] ELSE Texts(y)[i - Len(x)]
  <2>1. PICK s \in Seq(Line) : s = Texts(x)
    BY <1>2
  <2>2. PICK t \in Seq(Line) : t = Texts(y)
    BY <1>3
  <2>3. /\ s \o t \in Seq(Line) /\ Len(s \o t) = Len(s) + Len(t)
        /\ \A i \in 1..(Len(s) + Len(t)) : (s \o t)[i] = IF i <= Len(s) THEN s[i] ELSE t[i - Len(s)]
    BY ConcatProperties
  <2> QED BY <2>1, <2>2, <2>3, <1>2, <1>3
<1>6. ASSUME NEW i \in 1..(Len(x) + Len(y)) PROVE Texts(x \o y)[i] = (Texts(x) \o Texts(y))[i]
  <2>0. Len(x) \in Nat /\ Len(y) \in Nat
    OBVIOUS
  <2>1. CASE i <= Len(x)
    <3>1. i \in 1..Len(x)
      BY <2>0, <2>1
    <3>2. (x \o y)[i] = x[i] /\ (Texts(x) \o Texts(y))[i] = Texts(x)[i]
      BY <1>1, <1>5, <2>1
    <3> QED BY <1>2, <1>4, <3>1, <3>2
  <2>2. CASE ~(i <= Len(x))
    <3>1. i - Len(x) \in 1..Len(y)
      BY <2>0, <2>2
    <3>2. (x \o y)[i] = y[i - Len(x)] /\ (Texts(x) \o Texts(y))[i] = Texts(y)[i - Len(x)]
      BY <1>1, <1>5, <2>2
    <3> QED BY <1>3, <1>4, <3>1, <3>2
  <2> QED BY <2>1, <2>2
<1> QED
  BY <1>4, <1>5, <1>6, SeqEqual

\* A part of the words is the words of that part.
LEMMA TextsPart ==
  ASSUME NEW ls \in Seq(LineRec), NEW a \in Nat, NEW b \in 0..Len(ls)
  PROVE  /\ SubSeq(ls, a + 1, b) \in Seq(LineRec)
         /\ Texts(SubSeq(ls, a + 1, b)) = SubSeq(Texts(ls), a + 1, b)
<1>0. a + 1 \in Int /\ b \in Int /\ b \in Nat /\ Len(ls) \in Nat
  OBVIOUS
<1>1. \A i \in (a + 1)..b : i \in 1..Len(ls) /\ ls[i] \in LineRec
  BY <1>0
<1>2. /\ SubSeq(ls, a + 1, b) \in Seq(LineRec)
      /\ Len(SubSeq(ls, a + 1, b)) = IF a + 1 <= b THEN b - (a + 1) + 1 ELSE 0
      /\ \A i \in 1..(b - (a + 1) + 1) : SubSeq(ls, a + 1, b)[i] = ls[(a + 1) + i - 1]
  BY <1>0, <1>1, SubSeqProperties
<1>3. /\ Texts(ls) \in Seq(Line) /\ Len(Texts(ls)) = Len(ls)
      /\ \A i \in 1..Len(ls) : Texts(ls)[i] = ls[i].text
  BY TextsType
<1>4. \A i \in (a + 1)..b : Texts(ls)[i] \in Line
  BY <1>0, <1>1, <1>3 DEF LineRec
<1>5. /\ SubSeq(Texts(ls), a + 1, b) \in Seq(Line)
      /\ Len(SubSeq(Texts(ls), a + 1, b)) = IF a + 1 <= b THEN b - (a + 1) + 1 ELSE 0
      /\ \A i \in 1..(b - (a + 1) + 1) : SubSeq(Texts(ls), a + 1, b)[i] = Texts(ls)[(a + 1) + i - 1]
  BY <1>0, <1>4, SubSeqProperties
<1>6. PICK s \in Seq(LineRec) : s = SubSeq(ls, a + 1, b)
  BY <1>2
<1>7. /\ Texts(s) \in Seq(Line) /\ Len(Texts(s)) = Len(s)
      /\ \A i \in 1..Len(s) : Texts(s)[i] = s[i].text
  BY TextsType
<1>8. ASSUME NEW i \in 1..Len(s) PROVE Texts(s)[i] = SubSeq(Texts(ls), a + 1, b)[i]
  <2>1. i \in 1..(b - (a + 1) + 1) /\ (a + 1) + i - 1 \in 1..Len(ls)
    BY <1>0, <1>2, <1>6
  <2> QED BY <2>1, <1>2, <1>3, <1>5, <1>6, <1>7
<1>9. Texts(s) = SubSeq(Texts(ls), a + 1, b)
  BY <1>2, <1>5, <1>6, <1>7, <1>8, SeqEqual
<1> QED
  BY <1>2, <1>6, <1>9

\* A content is its lines' words and what they end with.
LEMMA ContentIs ==
  ASSUME NEW ls \in Seq(LineRec)
  PROVE  /\ Ending(ls) \in Seq(Line) /\ Content(ls) \in Seq(Line)
         /\ Content(ls) = Texts(ls) \o Ending(ls)
<1>1. Texts(ls) \in Seq(Line) /\ Blank \in Line
  BY TextsType, BlankIsALine
<1>2. Append(Texts(ls), Blank) = Texts(ls) \o <<Blank>>
  BY <1>1, AppendIsConcat
<1>3. Texts(ls) \o <<>> = Texts(ls)
  BY <1>1, ConcatEmptySeq
<1>4. <<Blank>> \in Seq(Line) /\ <<>> \in Seq(Line)
  BY <1>1
<1> QED
  BY <1>1, <1>2, <1>3, <1>4 DEF Content, Ending, Last

\* Splitting a content into lines loses nothing.
LEMMA LinesOfContent ==
  ASSUME NEW content \in Seq(Line), content # <<>>
  PROVE  Lines(content) \in Seq(LineRec) /\ AreLines(Lines(content)) /\ Content(Lines(content)) = content
<1> DEFINE n == Len(content)
           all == [i \in 1..n |-> [text |-> content[i], nl |-> i < n]]
<1>1. n \in Nat /\ n # 0 /\ \A i \in 1..n : content[i] \in Line
  OBVIOUS
<1>2. /\ all \in Seq(LineRec) /\ Len(all) = n
      /\ \A i \in 1..n : all[i].text = content[i] /\ (all[i].nl <=> i < n)
  <2>1. all \in [1..n -> LineRec]
    BY <1>1 DEF LineRec
  <2>2. all \in Seq(LineRec) /\ Len(all) = n
    <3> HIDE DEF all
    <3> QED BY <1>1, <2>1
  <2>3. ASSUME NEW i \in 1..n PROVE all[i].text = content[i] /\ (all[i].nl <=> i < n)
    OBVIOUS
  <2> HIDE DEF all
  <2> QED
    BY <2>2, <2>3
<1>3. content = [i \in 1..n |-> content[i]]
  OBVIOUS
<1>4. CASE content[n] = Blank
  <2>1. Lines(content) = SubSeq(all, 1, n - 1)
    BY <1>2, <1>4 DEF Lines, Front, Last
  <2>2. PICK ls : ls = SubSeq(all, 1, n - 1)
    OBVIOUS
  <2>3. 1 \in Int /\ n - 1 \in Int /\ \A i \in 1..(n - 1) : all[i] \in LineRec
    BY <1>1, <1>2
  <2> HIDE DEF all
  <2>4. /\ ls \in Seq(LineRec) /\ Len(ls) = n - 1
        /\ \A i \in 1..(n - 1) : ls[i] = all[i]
    <3>1. /\ ls \in Seq(LineRec) /\ Len(ls) = IF 1 <= n - 1 THEN (n - 1) - 1 + 1 ELSE 0
          /\ \A i \in 1..((n - 1) - 1 + 1) : ls[i] = all[1 + i - 1]
      BY <2>2, <2>3, SubSeqProperties
    <3> HIDE DEF n
    <3> QED BY <3>1, <1>1
  <2>5. \A i \in 1..(n - 1) : ls[i].nl /\ ls[i].text = content[i]
    <3>1. \A i \in 1..(n - 1) : i \in 1..n /\ i < n
      BY <1>1
    <3> HIDE DEF n
    <3> QED BY <1>2, <2>4, <3>1
  <2>6. AreLines(ls)
    BY <1>1, <2>4, <2>5 DEF AreLines
  <2>7. ls = <<>> \/ ls[Len(ls)].nl
    BY <1>1, <2>4, <2>5
  <2>8. Content(ls) = Append(Texts(ls), Blank)
    BY <2>7 DEF Content, Last
  <2>9. /\ Texts(ls) \in Seq(Line) /\ Len(Texts(ls)) = n - 1 /\ Blank \in Line
        /\ \A i \in 1..(n - 1) : Texts(ls)[i] = content[i]
    BY <2>4, <2>5, TextsType, BlankIsALine
  <2>10. /\ Append(Texts(ls), Blank) \in Seq(Line)
         /\ Len(Append(Texts(ls), Blank)) = n
         /\ \A i \in 1..n : Append(Texts(ls), Blank)[i] = content[i]
    <3> HIDE DEF n
    <3>1. /\ Append(Texts(ls), Blank) \in Seq(Line)
          /\ Len(Append(Texts(ls), Blank)) = (n - 1) + 1
          /\ \A i \in 1..(n - 1) : Append(Texts(ls), Blank)[i] = Texts(ls)[i]
          /\ Append(Texts(ls), Blank)[(n - 1) + 1] = Blank
      BY <2>9, AppendProperties
    <3>2. (n - 1) + 1 = n /\ \A i \in 1..n : i \in 1..(n - 1) \/ i = n
      BY <1>1
    <3> QED BY <3>1, <3>2, <2>9, <1>4
  <2>11. Append(Texts(ls), Blank) = content
    BY <2>10, SeqEqual
  <2> QED
    BY <2>1, <2>2, <2>4, <2>6, <2>8, <2>11
<1>5. CASE content[n] # Blank
  <2>1. Lines(content) = all
    BY <1>5 DEF Lines, Last
  <2>2. all # <<>> /\ ~all[Len(all)].nl /\ all[Len(all)].text = content[n]
    <3>1. Len(all) = n /\ n \in 1..n /\ ~(n < n) /\ all \in Seq(LineRec)
      BY <1>1, <1>2
    <3> HIDE DEF all, n
    <3> QED BY <1>2, <3>1
  <2>3. AreLines(all)
    <3> HIDE DEF all, n
    <3> QED BY <1>1, <1>2, <1>5, <2>2 DEF AreLines
  <2>4. Content(all) = Texts(all)
    <3> HIDE DEF all, n
    <3> QED BY <2>2 DEF Content, Last
  <2>5. /\ Texts(all) \in Seq(Line) /\ Len(Texts(all)) = n
        /\ \A i \in 1..n : Texts(all)[i] = content[i]
    <3> HIDE DEF all
    <3> QED BY <1>2, TextsType
  <2>6. Texts(all) = content
    <3> HIDE DEF all
    <3> QED BY <2>5, SeqEqual
  <2> HIDE DEF all
  <2> QED
    BY <1>2, <2>1, <2>3, <2>4, <2>6
<1> QED
  BY <1>4, <1>5

----------------------------------------------------------------------------
(* What git reports *)

\* The places of the lines that stay, between one before the first and one after the last.
Cuts(at, m, old, new) ==
  /\ m \in Nat \ {0} /\ at \in [1..(m + 1) -> Nat \X Nat]
  /\ at[1] = <<0, 0>> /\ at[m + 1] = <<Len(old) + 1, Len(new) + 1>>
  /\ \A k \in 1..m : at[k][1] < at[k + 1][1] /\ at[k][2] < at[k + 1][2]
  /\ \A k \in 2..m : /\ at[k][1] \in 1..Len(old) /\ at[k][2] \in 1..Len(new)
                     /\ old[at[k][1]] = new[at[k][2]]

CutRun(at, k, old, new) ==
  [after |-> at[k][1],
   removed |-> SubSeq(old, at[k][1] + 1, at[k + 1][1] - 1),
   added |-> SubSeq(new, at[k][2] + 1, at[k + 1][2] - 1),
   kept |-> IF at[k + 1][1] \in DOMAIN old THEN <<old[at[k + 1][1]]>> ELSE <<>>]

LEMMA ReportIsCut ==
  ASSUME NEW old \in Seq(LineRec), NEW new \in Seq(LineRec), NEW stay \in Alignments(old, new)
  PROVE  \E m, at : Cuts(at, m, old, new) /\ Runs(old, new, stay) = [k \in 1..m |-> CutRun(at, k, old, new)]
<1> DEFINE before == {s \in stay \X stay : s[1][1] < s[2][1]}
           M == Cardinality(stay)
           mid == Ranked(stay, before)
           Ends == <<<<Len(old) + 1, Len(new) + 1>>>>
           at == <<<<0, 0>>>> \o mid \o Ends
           m == M + 1
<1>1. /\ stay \in SUBSET ((1..Len(old)) \X (1..Len(new)))
      /\ \A p \in stay : old[p[1]] = new[p[2]]
      /\ \A p, q \in stay : p = q \/ (p[1] < q[1] /\ p[2] < q[2]) \/ (q[1] < p[1] /\ q[2] < p[2])
  BY DEF Alignments
<1>2. IsFiniteSet(stay)
  <2>1. 1 \in Int /\ Len(old) \in Int /\ Len(new) \in Int
    OBVIOUS
  <2>2. IsFiniteSet(1..Len(old)) /\ IsFiniteSet(1..Len(new))
    BY <2>1, FS_Interval
  <2>3. IsFiniteSet((1..Len(old)) \X (1..Len(new)))
    BY <2>2, FS_Product
  <2> QED BY <2>3, <1>1, FS_Subset
<1>3. \A p \in stay : p[1] \in Nat /\ p[2] \in Nat /\ p[1] \in 1..Len(old) /\ p[2] \in 1..Len(new)
  BY <1>1
<1>4. Orders(before, stay)
  <2>1. \A x, y \in stay : <<x, y>> \in before <=> x[1] < y[1]
    OBVIOUS
  <2> HIDE DEF before
  <2> QED BY <2>1, <1>1, <1>3 DEF Orders
<1>5. Names(mid, stay, before)
  <2> HIDE DEF before
  <2> QED BY <1>2, <1>4, RankedNamesEach
<1>6. mid = [k \in 1..M |-> mid[k]] /\ M \in Nat
  <2> HIDE DEF before
  <2> QED BY <1>5, RankedIsAFunction DEF Names
<1>7. /\ \A k \in 1..M : mid[k] \in stay
      /\ \A k, l \in 1..M : k < l => mid[k][1] < mid[l][1]
  BY <1>5 DEF Names
<1> HIDE DEF before, mid, M
<1>8. mid \in Seq(Nat \X Nat) /\ Len(mid) = M
  <2>1. \A k \in 1..M : mid[k] \in Nat \X Nat
    BY <1>1, <1>7
  <2> QED BY <2>1, <1>6
<1>9. /\ at \in [1..(m + 1) -> Nat \X Nat] /\ Len(at) = m + 1
      /\ at[1] = <<0, 0>> /\ at[m + 1] = <<Len(old) + 1, Len(new) + 1>>
      /\ \A k \in 2..m : at[k] = mid[k - 1]
  <2>1. <<<<0, 0>>>> \in Seq(Nat \X Nat) /\ Len(<<<<0, 0>>>>) = 1
    OBVIOUS
  <2>2. Ends \in Seq(Nat \X Nat) /\ Len(Ends) = 1 /\ Ends[1] = <<Len(old) + 1, Len(new) + 1>>
    OBVIOUS
  <2>3. PICK one \in Seq(Nat \X Nat) : one = <<<<0, 0>>>>
    BY <2>1
  <2>4. one[1] = <<0, 0>> /\ Len(one) = 1
    BY <2>3
  <2> HIDE DEF Ends
  <2>5. /\ one \o mid \in Seq(Nat \X Nat) /\ Len(one \o mid) = 1 + M
        /\ \A k \in 1..(1 + M) : (one \o mid)[k] = IF k <= 1 THEN one[k] ELSE mid[k - 1]
    <3>1. /\ one \o mid \in Seq(Nat \X Nat) /\ Len(one \o mid) = Len(one) + Len(mid)
          /\ \A k \in 1..(Len(one) + Len(mid)) : (one \o mid)[k] = IF k <= Len(one) THEN one[k] ELSE mid[k - Len(one)]
      BY <1>8, ConcatProperties
    <3> QED BY <3>1, <2>4, <1>8
  <2>6. PICK two \in Seq(Nat \X Nat) : two = one \o mid
    BY <2>5
  <2>7. /\ two \o Ends \in Seq(Nat \X Nat) /\ Len(two \o Ends) = (1 + M) + 1
        /\ \A k \in 1..((1 + M) + 1) : (two \o Ends)[k] = IF k <= 1 + M THEN two[k] ELSE Ends[k - (1 + M)]
    <3>1. /\ two \o Ends \in Seq(Nat \X Nat) /\ Len(two \o Ends) = Len(two) + Len(Ends)
          /\ \A k \in 1..(Len(two) + Len(Ends)) :
               (two \o Ends)[k] = IF k <= Len(two) THEN two[k] ELSE Ends[k - Len(two)]
      BY <2>2, ConcatProperties
    <3>2. Len(two) = 1 + M /\ Len(Ends) = 1
      BY <2>2, <2>5, <2>6
    <3> QED BY <3>1, <3>2
  <2>8. at = two \o Ends
    BY <2>3, <2>6
  <2> HIDE DEF at
  <2>9. at \in Seq(Nat \X Nat) /\ Len(at) = m + 1
    BY <2>7, <2>8, <1>6
  <2>10. at[1] = <<0, 0>>
    BY <2>4, <2>5, <2>6, <2>7, <2>8, <1>6
  <2>11. at[m + 1] = Ends[1]
    <3>1. m + 1 \in 1..((1 + M) + 1) /\ ~(m + 1 <= 1 + M) /\ (m + 1) - (1 + M) = 1
      BY <1>6
    <3> HIDE DEF m
    <3> QED BY <2>7, <2>8, <3>1
  <2>12. ASSUME NEW k \in 2..m PROVE at[k] = mid[k - 1]
    <3>1. k \in 1..((1 + M) + 1) /\ k \in 1..(1 + M) /\ k <= 1 + M /\ ~(k <= 1)
      BY <1>6
    <3>2. at[k] = two[k]
      BY <2>7, <2>8, <3>1
    <3> HIDE DEF m
    <3> QED BY <2>5, <2>6, <3>1, <3>2
  <2> QED BY <2>2, <2>9, <2>10, <2>11, <2>12
<1>10. Runs(old, new, stay) = [k \in 1..m |-> CutRun(at, k, old, new)]
  <2>1. Len(at) - 1 = m
    BY <1>9, <1>6
  <2>2. Runs(old, new, stay) = [k \in 1..(Len(at) - 1) |-> CutRun(at, k, old, new)]
    BY DEF Runs, CutRun, mid, before
  <2> HIDE DEF at, m
  <2> QED BY <2>1, <2>2
<1> HIDE DEF at
<1>11. \A k \in 2..m : /\ at[k][1] \in 1..Len(old) /\ at[k][2] \in 1..Len(new)
                       /\ old[at[k][1]] = new[at[k][2]]
  <2>1. \A k \in 2..m : k - 1 \in 1..M
    BY <1>6
  <2> QED BY <2>1, <1>1, <1>3, <1>7, <1>9
<1>12. ASSUME NEW k \in 1..m PROVE at[k][1] < at[k + 1][1] /\ at[k][2] < at[k + 1][2]
  <2>0. Len(old) \in Nat /\ Len(new) \in Nat
    OBVIOUS
  <2>1. CASE k = 1 /\ m = 1
    BY <2>0, <2>1, <1>9
  <2>2. CASE k = 1 /\ m # 1
    <3>1. k + 1 \in 2..m
      BY <2>2, <1>6
    <3> QED BY <2>0, <2>2, <3>1, <1>9, <1>11
  <2>3. CASE k # 1 /\ k = m
    <3>1. k \in 2..m
      BY <2>3, <1>6
    <3> QED BY <2>0, <2>3, <3>1, <1>9, <1>11
  <2>4. CASE k # 1 /\ k # m
    <3>1. k \in 2..m /\ k + 1 \in 2..m /\ k - 1 \in 1..M /\ k \in 1..M /\ (k + 1) - 1 = k /\ k - 1 < k
      BY <2>4, <1>6
    <3>2. at[k] = mid[k - 1] /\ at[k + 1] = mid[k]
      BY <3>1, <1>9
    <3>3. mid[k - 1] \in stay /\ mid[k] \in stay /\ mid[k - 1][1] < mid[k][1]
      BY <3>1, <1>7
    <3>4. PICK p \in stay, q \in stay : p = mid[k - 1] /\ q = mid[k]
      BY <3>3
    <3>5. p[1] < q[1] /\ p[1] \in Nat /\ q[1] \in Nat
      BY <1>3, <3>3, <3>4
    <3>6. p # q /\ ~(q[1] < p[1])
      BY <3>5
    <3>7. p[2] < q[2]
      BY <1>1, <3>6
    <3> QED BY <3>2, <3>4, <3>5, <3>7
  <2> QED BY <2>1, <2>2, <2>3, <2>4
<1>13. m \in Nat \ {0}
  BY <1>6
<1> HIDE DEF m
<1>14. Cuts(at, m, old, new)
  BY <1>9, <1>11, <1>12, <1>13 DEF Cuts
<1> QED
  BY <1>10, <1>14

\* How runs stand to the lines of both sides: each takes up where the one before it ended,
\* and after each but the last there is a line that stays.
Lined(runs, old, new, eo, en) ==
  LET m == Len(runs) IN
  /\ m \in Nat \ {0} /\ runs \in Seq(Run)
  /\ eo \in [0..m -> Nat] /\ eo[0] = 0 /\ eo[m] = Len(old)
  /\ en \in [0..m -> Nat] /\ en[0] = 0 /\ en[m] = Len(new)
  /\ \A k \in 1..m :
       /\ eo[k - 1] <= eo[k] /\ eo[k] <= Len(old) /\ en[k - 1] <= en[k] /\ en[k] <= Len(new)
       /\ runs[k].after = eo[k - 1]
       /\ runs[k].removed \o runs[k].kept = SubSeq(old, eo[k - 1] + 1, eo[k])
       /\ runs[k].added \o runs[k].kept = SubSeq(new, en[k - 1] + 1, en[k])
       /\ Len(runs[k].kept) = IF k = m THEN 0 ELSE 1

\* One side of a run, and the line that stays.
LEMMA SideOfRun ==
  ASSUME NEW s \in Seq(LineRec), NEW a \in Nat, NEW b \in Nat, a < b, b <= Len(s) + 1,
         NEW kept, kept = IF b \in DOMAIN s THEN <<s[b]>> ELSE <<>>
  PROVE  /\ SubSeq(s, a + 1, b - 1) \in Seq(LineRec) /\ kept \in Seq(LineRec)
         /\ SubSeq(s, a + 1, b - 1) \o kept = SubSeq(s, a + 1, IF b = Len(s) + 1 THEN Len(s) ELSE b)
         /\ Len(kept) = IF b = Len(s) + 1 THEN 0 ELSE 1
<1>0. DOMAIN s = 1..Len(s) /\ Len(s) \in Nat /\ b - 1 \in 0..Len(s)
  OBVIOUS
<1>1. SubSeq(s, a + 1, b - 1) \in Seq(LineRec)
  BY <1>0, TextsPart
<1>2. CASE b = Len(s) + 1
  <2>1. kept = <<>> /\ b - 1 = Len(s)
    BY <1>0, <1>2
  <2>2. SubSeq(s, a + 1, b - 1) \o <<>> = SubSeq(s, a + 1, b - 1)
    BY <1>1, ConcatEmptySeq
  <2>3. (IF b = Len(s) + 1 THEN Len(s) ELSE b) = b - 1 /\ (IF b = Len(s) + 1 THEN 0 ELSE 1) = 0
    BY <1>2, <2>1
  <2>4. kept \in Seq(LineRec) /\ Len(kept) = 0
    BY <2>1
  <2> QED BY <1>1, <2>1, <2>2, <2>3, <2>4
<1>3. CASE b # Len(s) + 1
  <2>1. b \in 1..Len(s) /\ b \in (a + 1)..Len(s) /\ a + 1 \in 1..Len(s) /\ kept = <<s[b]>>
    BY <1>0, <1>3
  <2>2. SubSeq(s, a + 1, b) = SubSeq(s, a + 1, b - 1) \o <<s[b]>>
    BY <2>1, SubSeqRecursiveSecond
  <2>3. kept \in Seq(LineRec) /\ Len(kept) = 1
    BY <2>1
  <2>4. (IF b = Len(s) + 1 THEN Len(s) ELSE b) = b /\ (IF b = Len(s) + 1 THEN 0 ELSE 1) = 1
    BY <1>3
  <2> QED BY <1>1, <2>1, <2>2, <2>3, <2>4
<1> QED BY <1>2, <1>3

LEMMA ReportIsLined ==
  ASSUME NEW old \in Seq(LineRec), NEW new \in Seq(LineRec), NEW runs \in {Runs(old, new, stay) : stay \in Alignments(old, new)}
  PROVE  \E eo, en : Lined(runs, old, new, eo, en)
<1>1. PICK m, at : Cuts(at, m, old, new) /\ runs = [k \in 1..m |-> CutRun(at, k, old, new)]
  BY ReportIsCut
<1> DEFINE End(n, len) == IF n = len + 1 THEN len ELSE n
           eo == [k \in 0..m |-> End(at[k + 1][1], Len(old))]
           en == [k \in 0..m |-> End(at[k + 1][2], Len(new))]
<1>0. Len(old) \in Nat /\ Len(new) \in Nat /\ m \in Nat \ {0} /\ DOMAIN old = 1..Len(old) /\ DOMAIN new = 1..Len(new)
  BY <1>1 DEF Cuts
<1>2. \A k \in 1..(m + 1) : at[k] \in Nat \X Nat
  BY <1>1 DEF Cuts
<1>3. ASSUME NEW k \in 1..m
      PROVE  /\ k \in 1..(m + 1) /\ k + 1 \in 1..(m + 1) /\ k \in 0..m /\ k - 1 \in 0..m /\ (k - 1) + 1 = k
             /\ at[k][1] < at[k + 1][1] /\ at[k][2] < at[k + 1][2]
             /\ at[k][1] \in Nat /\ at[k][2] \in Nat /\ at[k + 1][1] \in Nat /\ at[k + 1][2] \in Nat
             /\ at[k][1] <= Len(old) /\ at[k][2] <= Len(new)
             /\ k = m => at[k + 1][1] = Len(old) + 1 /\ at[k + 1][2] = Len(new) + 1
             /\ k # m => /\ at[k + 1][1] \in 1..Len(old) /\ at[k + 1][2] \in 1..Len(new)
                         /\ old[at[k + 1][1]] = new[at[k + 1][2]]
  <2>1. k \in 1..(m + 1) /\ k + 1 \in 1..(m + 1) /\ k \in 0..m /\ k - 1 \in 0..m /\ (k - 1) + 1 = k
    BY <1>0
  <2>2. at[k] \in Nat \X Nat /\ at[k + 1] \in Nat \X Nat
    BY <2>1, <1>2
  <2>3. at[k][1] < at[k + 1][1] /\ at[k][2] < at[k + 1][2]
    BY <1>1 DEF Cuts
  <2>4. k = m => at[k + 1] = <<Len(old) + 1, Len(new) + 1>>
    BY <1>1 DEF Cuts
  <2>5. k # m => k + 1 \in 2..m
    BY <1>0
  <2>6. k # m => /\ at[k + 1][1] \in 1..Len(old) /\ at[k + 1][2] \in 1..Len(new)
                 /\ old[at[k + 1][1]] = new[at[k + 1][2]]
    BY <2>5, <1>1 DEF Cuts
  <2>7. at[k][1] \in Nat /\ at[k][2] \in Nat /\ at[k + 1][1] \in Nat /\ at[k + 1][2] \in Nat
    BY <2>2
  <2>8. at[k + 1][1] <= Len(old) + 1 /\ at[k + 1][2] <= Len(new) + 1
    BY <1>0, <2>4, <2>6
  <2>9. at[k][1] <= Len(old) /\ at[k][2] <= Len(new)
    <3>1. \A x, y, z \in Nat : x < y /\ y <= z + 1 => x <= z
      OBVIOUS
    <3>2. Len(old) \in Nat /\ Len(new) \in Nat
      BY <1>0
    <3> HIDE DEF eo, en, End
    <3> QED BY <2>3, <2>7, <2>8, <3>1, <3>2
  <2> QED BY <2>1, <2>3, <2>4, <2>6, <2>7, <2>9
<1>4. ASSUME NEW k \in 1..m
      PROVE  /\ eo[k - 1] = at[k][1] /\ eo[k] = End(at[k + 1][1], Len(old))
             /\ en[k - 1] = at[k][2] /\ en[k] = End(at[k + 1][2], Len(new))
             /\ eo[k - 1] <= eo[k] /\ eo[k] <= Len(old) /\ en[k - 1] <= en[k] /\ en[k] <= Len(new)
             /\ eo[k] \in Nat /\ en[k] \in Nat
  <2>1. eo[k - 1] = at[k][1] /\ en[k - 1] = at[k][2]
    BY <1>0, <1>3
  <2>2. eo[k] = End(at[k + 1][1], Len(old)) /\ en[k] = End(at[k + 1][2], Len(new))
    BY <1>3
  <2> HIDE DEF eo, en
  <2> QED BY <1>0, <1>3, <2>1, <2>2
<1>5. ASSUME NEW k \in 1..m
      PROVE  /\ runs[k] \in Run /\ runs[k].after = eo[k - 1]
             /\ runs[k].removed \o runs[k].kept = SubSeq(old, eo[k - 1] + 1, eo[k])
             /\ runs[k].added \o runs[k].kept = SubSeq(new, en[k - 1] + 1, en[k])
             /\ Len(runs[k].kept) = IF k = m THEN 0 ELSE 1
  <2>c. PICK a1, b1, a2, b2 : a1 = at[k][1] /\ b1 = at[k + 1][1] /\ a2 = at[k][2] /\ b2 = at[k + 1][2]
    OBVIOUS
  <2>d. /\ a1 \in Nat /\ b1 \in Nat /\ a1 < b1 /\ a2 \in Nat /\ b2 \in Nat /\ a2 < b2
        /\ k = m => b1 = Len(old) + 1 /\ b2 = Len(new) + 1
        /\ k # m => b1 \in 1..Len(old) /\ b2 \in 1..Len(new) /\ old[b1] = new[b2]
    <3>1. /\ at[k][1] < at[k + 1][1] /\ at[k][2] < at[k + 1][2]
          /\ at[k][1] \in Nat /\ at[k][2] \in Nat /\ at[k + 1][1] \in Nat /\ at[k + 1][2] \in Nat
          /\ k = m => at[k + 1][1] = Len(old) + 1 /\ at[k + 1][2] = Len(new) + 1
          /\ k # m => /\ at[k + 1][1] \in 1..Len(old) /\ at[k + 1][2] \in 1..Len(new)
                      /\ old[at[k + 1][1]] = new[at[k + 1][2]]
      BY <1>3
    <3> QED BY <2>c, <3>1
  <2>1. PICK kept : kept = IF b1 \in DOMAIN old THEN <<old[b1]>> ELSE <<>>
    OBVIOUS
  <2>2. kept = IF b2 \in DOMAIN new THEN <<new[b2]>> ELSE <<>>
    BY <1>0, <2>d, <2>1
  <2>a. b1 <= Len(old) + 1 /\ b2 <= Len(new) + 1
    BY <1>0, <2>d
  <2>b. /\ eo[k] = IF b1 = Len(old) + 1 THEN Len(old) ELSE b1
        /\ en[k] = IF b2 = Len(new) + 1 THEN Len(new) ELSE b2
    BY <1>4, <2>c
  <2>3. /\ SubSeq(old, at[k][1] + 1, at[k + 1][1] - 1) \in Seq(LineRec) /\ kept \in Seq(LineRec)
        /\ SubSeq(old, at[k][1] + 1, at[k + 1][1] - 1) \o kept = SubSeq(old, at[k][1] + 1, eo[k])
        /\ Len(kept) = IF b1 = Len(old) + 1 THEN 0 ELSE 1
    <3>1. /\ SubSeq(old, a1 + 1, b1 - 1) \in Seq(LineRec)
          /\ SubSeq(old, a1 + 1, b1 - 1) \o kept = SubSeq(old, a1 + 1, IF b1 = Len(old) + 1 THEN Len(old) ELSE b1)
      <4>1. /\ a1 \in Nat /\ b1 \in Nat /\ a1 < b1 /\ b1 <= Len(old) + 1
            /\ kept = IF b1 \in DOMAIN old THEN <<old[b1]>> ELSE <<>>
        BY <2>1, <2>a, <2>d
      <4> QED BY ONLY <4>1, old \in Seq(LineRec), SideOfRun
    <3>2. kept \in Seq(LineRec) /\ (Len(kept) = IF b1 = Len(old) + 1 THEN 0 ELSE 1)
      BY <2>1, <2>a, <2>d, SideOfRun
    <3> HIDE DEF eo, en
    <3> QED BY <2>b, <2>c, <3>1, <3>2
  <2>4. /\ SubSeq(new, at[k][2] + 1, at[k + 1][2] - 1) \in Seq(LineRec)
        /\ SubSeq(new, at[k][2] + 1, at[k + 1][2] - 1) \o kept = SubSeq(new, at[k][2] + 1, en[k])
    <3>1. /\ SubSeq(new, a2 + 1, b2 - 1) \in Seq(LineRec)
          /\ SubSeq(new, a2 + 1, b2 - 1) \o kept = SubSeq(new, a2 + 1, IF b2 = Len(new) + 1 THEN Len(new) ELSE b2)
      BY <2>2, <2>a, <2>d, SideOfRun
    <3> HIDE DEF eo, en
    <3> QED BY <2>b, <2>c, <3>1
  <2>5. /\ runs[k].after = at[k][1] /\ runs[k].kept = kept
        /\ runs[k].removed = SubSeq(old, at[k][1] + 1, at[k + 1][1] - 1)
        /\ runs[k].added = SubSeq(new, at[k][2] + 1, at[k + 1][2] - 1)
        /\ runs[k] = CutRun(at, k, old, new)
    BY <1>1, <2>1, <2>c DEF CutRun
  <2>6. runs[k] \in Run
    BY <1>3, <2>1, <2>3, <2>4, <2>5 DEF CutRun, Run, LineRec
  <2>7. b1 = Len(old) + 1 <=> k = m
    BY <1>0, <2>d
  <2> HIDE DEF eo, en
  <2> QED BY <1>4, <2>3, <2>4, <2>5, <2>6, <2>7
<1>6. eo[0] = 0 /\ en[0] = 0 /\ eo[m] = Len(old) /\ en[m] = Len(new)
  <2>1. at[1] = <<0, 0>> /\ at[m + 1] = <<Len(old) + 1, Len(new) + 1>> /\ 0 \in 0..m /\ m \in 0..m
    BY <1>1, <1>0 DEF Cuts
  <2> QED BY <2>1, <1>0
<1>7. eo \in [0..m -> Nat] /\ en \in [0..m -> Nat]
  <2>1. ASSUME NEW k \in 0..m PROVE eo[k] \in Nat /\ en[k] \in Nat
    <3>1. CASE k = 0
      BY <1>6, <3>1
    <3>2. CASE k # 0
      <4>1. k \in 1..m
        BY <1>0, <3>2
      <4> HIDE DEF eo, en
      <4> QED BY <1>4, <4>1
    <3> QED BY <3>1, <3>2
  <2> QED BY <2>1
<1>8. runs \in Seq(Run) /\ Len(runs) = m
  <2>1. runs \in [1..m -> Run]
    BY <1>1, <1>5
  <2> QED BY <2>1, <1>0
<1> HIDE DEF eo, en
<1>9. Lined(runs, old, new, eo, en)
  BY <1>0, <1>4, <1>5, <1>6, <1>7, <1>8 DEF Lined
<1> QED BY <1>9

----------------------------------------------------------------------------
(* The hunks among the runs *)

\* What is given of a change of text: the lines of both sides, the runs between them, and
\* the hunks that are taken over.
Given(old, new, runs, eo, en, A) ==
  /\ old \in Seq(LineRec) /\ AreLines(old) /\ new \in Seq(LineRec) /\ AreLines(new)
  /\ Lined(runs, old, new, eo, en)
  /\ A \subseteq 1..Len(runs) /\ \A k \in A : IsHunk(runs[k])

\* A part of a sequence that is two: what is in each.
InTwo(s, a, b, x, y) ==
  /\ s \in Seq(LineRec) /\ a \in Nat /\ b \in 0..Len(s) /\ a <= b
  /\ x \in Seq(LineRec) /\ y \in Seq(LineRec) /\ x \o y = SubSeq(s, a + 1, b)
EachIsThere(s, a, b, x, y) ==
  /\ Len(x) + Len(y) = b - a
  /\ \A i \in 1..Len(x) : x[i] = s[a + i]
  /\ \A i \in 1..Len(y) : y[i] = s[(a + Len(x)) + i]
LEMMA TwoParts ==
  ASSUME NEW s, NEW a, NEW b, NEW x, NEW y, InTwo(s, a, b, x, y)
  PROVE  EachIsThere(s, a, b, x, y)
<1>a. s \in Seq(LineRec) /\ a \in Nat /\ b \in 0..Len(s) /\ a <= b
  BY DEF InTwo
<1>b. x \in Seq(LineRec) /\ y \in Seq(LineRec) /\ x \o y = SubSeq(s, a + 1, b)
  BY DEF InTwo
<1>0. a + 1 \in Int /\ b \in Int /\ b \in Nat /\ Len(s) \in Nat /\ Len(x) \in Nat /\ Len(y) \in Nat
  BY <1>a, <1>b
<1>c. x \o y = SubSeq(s, a + 1, b)
  BY <1>b
<1>1. \A i \in (a + 1)..b : i \in 1..Len(s) /\ s[i] \in LineRec
  BY <1>0, <1>a
<1>2. /\ Len(SubSeq(s, a + 1, b)) = IF a + 1 <= b THEN b - (a + 1) + 1 ELSE 0
      /\ \A i \in 1..(b - (a + 1) + 1) : SubSeq(s, a + 1, b)[i] = s[(a + 1) + i - 1]
  BY <1>0, <1>1, <1>a, SubSeqProperties
<1>3. /\ Len(x \o y) = Len(x) + Len(y)
      /\ \A i \in 1..(Len(x) + Len(y)) : (x \o y)[i] = IF i <= Len(x) THEN x[i] ELSE y[i - Len(x)]
  BY <1>b, ConcatProperties
<1>4. Len(x) + Len(y) = b - a
  <2>1. PICK n : n = Len(SubSeq(s, a + 1, b))
    OBVIOUS
  <2>2. n = IF a + 1 <= b THEN b - (a + 1) + 1 ELSE 0
    BY <1>2, <2>1
  <2>3. n = Len(x) + Len(y)
    BY <1>3, <1>c, <2>1
  <2>4. n = b - a
    BY <1>0, <1>a, <2>2
  <2> QED BY <2>3, <2>4
<1>5. \A i \in 1..(b - a) : SubSeq(s, a + 1, b)[i] = s[a + i]
  <2>1. ASSUME NEW i \in 1..(b - a) PROVE i \in 1..(b - (a + 1) + 1) /\ (a + 1) + i - 1 = a + i
    BY <1>0, <1>a
  <2> QED BY <1>2, <2>1
<1>6. ASSUME NEW i \in 1..Len(x) PROVE x[i] = s[a + i]
  <2>1. i \in 1..(b - a) /\ i \in 1..(Len(x) + Len(y)) /\ i <= Len(x)
    BY <1>0, <1>4, <1>a
  <2> QED BY <1>3, <1>5, <1>b, <2>1
<1>7. ASSUME NEW i \in 1..Len(y) PROVE y[i] = s[(a + Len(x)) + i]
  <2>1. /\ Len(x) + i \in 1..(b - a) /\ Len(x) + i \in 1..(Len(x) + Len(y))
        /\ ~(Len(x) + i <= Len(x)) /\ (Len(x) + i) - Len(x) = i /\ a + (Len(x) + i) = (a + Len(x)) + i
    BY <1>0, <1>4, <1>a
  <2>2. (x \o y)[Len(x) + i] = y[i]
    BY <1>3, <2>1
  <2>3. SubSeq(s, a + 1, b)[Len(x) + i] = s[a + (Len(x) + i)]
    BY <1>5, <2>1
  <2> QED BY <2>1, <2>2, <2>3, <1>b
<1> QED BY <1>4, <1>6, <1>7 DEF EachIsThere

\* Where run k of m lies on both sides.
RunLies(old, new, eo, en, r, k, m) ==
  /\ m \in Nat \ {0} /\ k \in 0..m /\ k - 1 \in 0..m
  /\ eo[k - 1] \in Nat /\ eo[k] \in Nat /\ en[k - 1] \in Nat /\ en[k] \in Nat
  /\ eo[k - 1] <= eo[k] /\ eo[k] <= Len(old) /\ en[k - 1] <= en[k] /\ en[k] <= Len(new)
  /\ r.after = eo[k - 1] /\ r.removed \in Seq(LineRec) /\ r.added \in Seq(LineRec) /\ r.kept \in Seq(LineRec)
  /\ r.removed \o r.kept = SubSeq(old, eo[k - 1] + 1, eo[k])
  /\ r.added \o r.kept = SubSeq(new, en[k - 1] + 1, en[k])
  /\ Len(r.removed) + Len(r.kept) = eo[k] - eo[k - 1]
  /\ Len(r.added) + Len(r.kept) = en[k] - en[k - 1]
  /\ \A i \in 1..Len(r.removed) : r.removed[i] = old[eo[k - 1] + i]
  /\ \A i \in 1..Len(r.added) : r.added[i] = new[en[k - 1] + i]
  /\ k = m => r.kept = <<>> /\ eo[k] = Len(old) /\ en[k] = Len(new)
  /\ k # m => Len(r.kept) = 1 /\ r.kept[1] = old[eo[k]] /\ r.kept[1] = new[en[k]]

LEMMA RunHas ==
  ASSUME NEW old, NEW new, NEW runs, NEW eo, NEW en, NEW A, Given(old, new, runs, eo, en, A),
         NEW k \in 1..Len(runs)
  PROVE  RunLies(old, new, eo, en, runs[k], k, Len(runs))
<1>0. PICK m, r : m = Len(runs) /\ r = runs[k]
  OBVIOUS
<1>1. m \in Nat \ {0} /\ k \in 0..m /\ k - 1 \in 0..m
  BY <1>0 DEF Given, Lined
<1>2. /\ eo[k - 1] \in Nat /\ eo[k] \in Nat /\ en[k - 1] \in Nat /\ en[k] \in Nat
      /\ old \in Seq(LineRec) /\ new \in Seq(LineRec)
  BY <1>0, <1>1 DEF Given, Lined
<1>3. /\ eo[k - 1] <= eo[k] /\ eo[k] <= Len(old) /\ en[k - 1] <= en[k] /\ en[k] <= Len(new)
      /\ r.after = eo[k - 1]
      /\ r.removed \o r.kept = SubSeq(old, eo[k - 1] + 1, eo[k])
      /\ r.added \o r.kept = SubSeq(new, en[k - 1] + 1, en[k])
      /\ Len(r.kept) = IF k = m THEN 0 ELSE 1
  BY <1>0 DEF Given, Lined
<1>4. r \in Run
  <2>1. runs \in Seq(Run)
    BY DEF Given, Lined
  <2> QED BY <1>0, <2>1
<1>5. r.removed \in Seq(LineRec) /\ r.added \in Seq(LineRec) /\ r.kept \in Seq(LineRec)
  BY <1>4 DEF Run, LineRec
<1>6. PICK a, b, c, d : a = eo[k - 1] /\ b = eo[k] /\ c = en[k - 1] /\ d = en[k]
  OBVIOUS
<1>7. PICK x, y, z : x = r.removed /\ y = r.kept /\ z = r.added
  OBVIOUS
<1>8. a \in Nat /\ b \in 0..Len(old) /\ a <= b /\ c \in Nat /\ d \in 0..Len(new) /\ c <= d
  BY <1>2, <1>3, <1>6
<1>9. /\ x \in Seq(LineRec) /\ y \in Seq(LineRec) /\ z \in Seq(LineRec)
      /\ x \o y = SubSeq(old, a + 1, b) /\ z \o y = SubSeq(new, c + 1, d)
  BY <1>3, <1>5, <1>6, <1>7
<1>10. /\ Len(x) + Len(y) = b - a
       /\ \A i \in 1..Len(x) : x[i] = old[a + i]
       /\ \A i \in 1..Len(y) : y[i] = old[(a + Len(x)) + i]
  <2>1. InTwo(old, a, b, x, y)
    BY <1>2, <1>8, <1>9 DEF InTwo
  <2> QED BY <2>1, TwoParts DEF EachIsThere
<1>11. /\ Len(z) + Len(y) = d - c
       /\ \A i \in 1..Len(z) : z[i] = new[c + i]
       /\ \A i \in 1..Len(y) : y[i] = new[(c + Len(z)) + i]
  <2>1. InTwo(new, c, d, z, y)
    BY <1>2, <1>8, <1>9 DEF InTwo
  <2> QED BY <2>1, TwoParts DEF EachIsThere
<1>12. k = m => r.kept = <<>> /\ eo[k] = Len(old) /\ en[k] = Len(new)
  <2>1. eo[m] = Len(old) /\ en[m] = Len(new)
    BY <1>0 DEF Given, Lined
  <2>2. k = m => Len(y) = 0
    BY <1>3, <1>7
  <2>3. Len(y) = 0 => y = <<>>
    BY <1>9, EmptySeq
  <2> QED BY <2>1, <2>2, <2>3, <1>7
<1>13. k # m => Len(y) = 1 /\ y[1] = old[b] /\ y[1] = new[d]
  <2>1. k # m => Len(y) = 1
    BY <1>3, <1>7
  <2>2. Len(x) \in Nat /\ Len(z) \in Nat
    BY <1>9
  <2>3. Len(y) = 1 => (a + Len(x)) + 1 = b /\ (c + Len(z)) + 1 = d /\ 1 \in 1..Len(y)
    BY <2>2, <1>8, <1>10, <1>11
  <2> QED BY <2>1, <2>3, <1>10, <1>11
<1>14. RunLies(old, new, eo, en, r, k, m)
  BY <1>1, <1>2, <1>3, <1>5, <1>6, <1>7, <1>10, <1>11, <1>12, <1>13 DEF RunLies
<1> QED
  BY <1>0, <1>14

\* Only the last run can be at an end of the file that has no newline.
LEMMA UnendedIsLast ==
  ASSUME NEW old, NEW new, NEW runs, NEW eo, NEW en, NEW A, Given(old, new, runs, eo, en, A),
         NEW k \in 1..Len(runs)
  PROVE  /\ k # Len(runs) => ~Unended(runs[k].removed) /\ ~Unended(runs[k].added)
         /\ k = Len(runs) => /\ Unended(runs[k].removed) <=> runs[k].removed # <<>> /\ ~old[Len(old)].nl
                             /\ Unended(runs[k].added) <=> runs[k].added # <<>> /\ ~new[Len(new)].nl
<1>1. PICK m, r : m = Len(runs) /\ r = runs[k]
  OBVIOUS
<1>2. PICK a, b, c, d, x, y, z :
        /\ a = eo[k - 1] /\ b = eo[k] /\ c = en[k - 1] /\ d = en[k]
        /\ x = r.removed /\ y = r.kept /\ z = r.added
  OBVIOUS
<1>3. /\ m \in Nat \ {0} /\ a \in Nat /\ b \in Nat /\ c \in Nat /\ d \in Nat
      /\ b <= Len(old) /\ d <= Len(new)
      /\ x \in Seq(LineRec) /\ y \in Seq(LineRec) /\ z \in Seq(LineRec)
      /\ Len(x) + Len(y) = b - a /\ Len(z) + Len(y) = d - c
      /\ \A i \in 1..Len(x) : x[i] = old[a + i]
      /\ \A i \in 1..Len(z) : z[i] = new[c + i]
      /\ k = m => y = <<>> /\ b = Len(old) /\ d = Len(new)
      /\ k # m => Len(y) = 1
  <2>1. RunLies(old, new, eo, en, r, k, m)
    BY <1>1, RunHas
  <2> QED BY <1>2, <2>1 DEF RunLies
<1>4. Len(x) \in Nat /\ Len(z) \in Nat /\ Len(y) \in Nat
  BY <1>3
<1>5. x # <<>> => Len(x) \in 1..Len(x) /\ x[Len(x)] = old[a + Len(x)]
  BY <1>3, <1>4, EmptySeq
<1>6. z # <<>> => Len(z) \in 1..Len(z) /\ z[Len(z)] = new[c + Len(z)]
  BY <1>3, <1>4, EmptySeq
<1>7. /\ old \in Seq(LineRec) /\ AreLines(old) /\ new \in Seq(LineRec) /\ AreLines(new)
      /\ Len(old) \in Nat /\ Len(new) \in Nat
  BY DEF Given
<1>8. CASE k # m
  <2>1. Len(y) = 1
    BY <1>3, <1>8
  <2>2. x # <<>> => a + Len(x) \in 1..Len(old) /\ a + Len(x) < Len(old)
    BY <1>3, <1>4, <1>5, <1>7, <2>1
  <2>3. z # <<>> => c + Len(z) \in 1..Len(new) /\ c + Len(z) < Len(new)
    BY <1>3, <1>4, <1>6, <1>7, <2>1
  <2>4. x # <<>> => x[Len(x)].nl
    BY <1>5, <1>7, <2>2 DEF AreLines
  <2>5. z # <<>> => z[Len(z)].nl
    BY <1>6, <1>7, <2>3 DEF AreLines
  <2> QED BY <1>1, <1>2, <1>8, <2>4, <2>5 DEF Unended, Last
<1>9. CASE k = m
  <2>1. Len(y) = 0 /\ b = Len(old) /\ d = Len(new)
    BY <1>3, <1>9
  <2>2. a + Len(x) = Len(old) /\ c + Len(z) = Len(new)
    BY <1>3, <1>4, <1>7, <2>1
  <2> QED BY <1>1, <1>2, <1>5, <1>6, <1>9, <2>2 DEF Unended, Last
<1> QED BY <1>8, <1>9

\* The ends rise.
LEMMA EndsRise ==
  ASSUME NEW old, NEW new, NEW runs, NEW eo, NEW en, NEW A, Given(old, new, runs, eo, en, A),
         NEW j \in 0..Len(runs), NEW k \in 0..Len(runs), j <= k
  PROVE  eo[j] \in Nat /\ eo[k] \in Nat /\ eo[j] <= eo[k]
<1> DEFINE T == {n \in 0..Len(runs) : j <= n => eo[j] <= eo[n]}
<1>1. Len(runs) \in Nat /\ \A n \in 0..Len(runs) : eo[n] \in Nat
  BY DEF Given, Lined
<1>2. \A n \in 1..Len(runs) : eo[n - 1] <= eo[n]
  BY DEF Given, Lined
<1>3. 0 \in T
  BY <1>1
<1>4. ASSUME NEW n \in 0..(Len(runs) - 1), n \in T PROVE n + 1 \in T
  <2>1. n + 1 \in 1..Len(runs) /\ (n + 1) - 1 = n /\ n \in 0..Len(runs) /\ n + 1 \in 0..Len(runs)
    BY <1>1
  <2>2. eo[n] <= eo[n + 1]
    BY <1>2, <2>1
  <2>3. j <= n + 1 => j <= n \/ j = n + 1
    BY <1>1
  <2> QED BY <1>1, <1>4, <2>1, <2>2, <2>3
<1>5. \A n \in 0..Len(runs) : n \in T
  <2> HIDE DEF T
  <2> QED BY <1>1, <1>3, <1>4, ByInduction
<1> QED BY <1>1, <1>5

HunkAt(runs, k) == HunkOf(runs[k])
HunkRec == [old_start : Nat, old_count : Nat, added : Seq(Line), nonl_old : BOOLEAN, nonl_new : BOOLEAN]

\* A hunk starts where its run does.
LEMMA HunkStarts ==
  ASSUME NEW old, NEW new, NEW runs, NEW eo, NEW en, NEW A, Given(old, new, runs, eo, en, A),
         NEW k \in 1..Len(runs), NEW h, h = HunkAt(runs, k)
  PROVE  /\ h \in HunkRec /\ Start(h) = eo[k - 1] /\ h.old_count = Len(runs[k].removed)
         /\ h.old_start = IF runs[k].removed = <<>> THEN eo[k - 1] ELSE eo[k - 1] + 1
         /\ h.added = Texts(runs[k].added)
<1>1. PICK r : r = runs[k]
  OBVIOUS
<1>2. r.after = eo[k - 1] /\ eo[k - 1] \in Nat /\ r.removed \in Seq(LineRec) /\ r.added \in Seq(LineRec)
  <2>1. RunLies(old, new, eo, en, r, k, Len(runs))
    BY <1>1, RunHas
  <2> QED BY <2>1 DEF RunLies
<1>3. /\ h.old_start = IF r.removed = <<>> THEN r.after ELSE r.after + 1
      /\ h.old_count = Len(r.removed) /\ h.added = Texts(r.added)
      /\ h = [old_start |-> h.old_start, old_count |-> h.old_count, added |-> h.added,
              nonl_old |-> h.nonl_old, nonl_new |-> h.nonl_new]
  BY <1>1 DEF HunkAt, HunkOf
<1>4. h.nonl_old \in BOOLEAN /\ h.nonl_new \in BOOLEAN
  BY <1>1 DEF HunkAt, HunkOf, Unended
<1>5. Texts(r.added) \in Seq(Line)
  BY <1>2, TextsType
<1>6. Len(r.removed) \in Nat /\ (Len(r.removed) = 0 <=> r.removed = <<>>)
  BY <1>2, EmptySeq
<1>7. h.old_start \in Nat /\ h.old_count \in Nat
  BY <1>2, <1>3, <1>6
<1>8. h \in HunkRec
  BY <1>3, <1>4, <1>5, <1>7 DEF HunkRec
<1>9. Start(h) = eo[k - 1]
  BY <1>2, <1>3, <1>6 DEF Start
<1> QED BY <1>1, <1>2, <1>3, <1>8, <1>9

\* Of two hunks the later starts later.
LEMMA HunksRise ==
  ASSUME NEW old, NEW new, NEW runs, NEW eo, NEW en, NEW A, Given(old, new, runs, eo, en, A),
         NEW j \in 1..Len(runs), NEW k \in 1..Len(runs), j < k
  PROVE  HunkAt(runs, j).old_start < HunkAt(runs, k).old_start
<1>1. PICK g, h : g = HunkAt(runs, j) /\ h = HunkAt(runs, k)
  OBVIOUS
<1>2. PICK x, y : x = runs[j].removed /\ y = runs[j].kept
  OBVIOUS
<1>3. /\ g.old_start = IF x = <<>> THEN eo[j - 1] ELSE eo[j - 1] + 1
      /\ h.old_start \in {eo[k - 1], eo[k - 1] + 1}
  BY <1>1, <1>2, HunkStarts
<1>4. Len(runs) \in Nat /\ j # Len(runs) /\ j \in 0..Len(runs) /\ k - 1 \in 0..Len(runs) /\ j <= k - 1
  BY DEF Given, Lined
<1>5. /\ eo[j - 1] \in Nat /\ x \in Seq(LineRec) /\ Len(x) + Len(y) = eo[j] - eo[j - 1] /\ Len(y) = 1
  <2>1. RunLies(old, new, eo, en, runs[j], j, Len(runs))
    BY RunHas
  <2> QED BY <1>2, <1>4, <2>1 DEF RunLies
<1>6. eo[j] \in Nat /\ eo[k - 1] \in Nat /\ eo[j] <= eo[k - 1]
  BY <1>4, EndsRise
<1>7. Len(x) \in Nat /\ (x # <<>> => Len(x) # 0)
  BY <1>5, EmptySeq
<1>8. g.old_start < eo[k - 1]
  BY <1>3, <1>5, <1>6, <1>7
<1> QED BY <1>1, <1>3, <1>5, <1>6, <1>7, <1>8

----------------------------------------------------------------------------
(* Passes over lines *)

\* What has been written, how far the base has been read, and what the end is to be.
Pass == [out : Seq(Line), pos : Nat, eof : SUBSET BOOLEAN]
Begun == [out |-> <<>>, pos |-> 0, eof |-> {}]
Passes(done, lines, order, M) ==
  /\ done \in [0..M -> Pass] /\ done[0] = Begun
  /\ \A n \in 1..M : done[n] = Apply(lines, done[n - 1], order[n])
Finished(lines, last) ==
  LET out == WithEnd(last.out \o SubSeq(lines, last.pos + 1, Len(lines)), last.eof)
  IN  IF out = <<>> THEN Empty ELSE out

LEMMA BegunIsAPass == Begun \in Pass
<1>1. <<>> \in Seq(Line)
  BY EmptySeq
<1> QED BY <1>1 DEF Begun, Pass

\* A hunk that starts in the base takes one such state to another.
LEMMA ApplyType ==
  ASSUME NEW lines \in Seq(Line), NEW d \in Pass, NEW h \in HunkRec, Start(h) \in 0..Len(lines)
  PROVE  Apply(lines, d, h) \in Pass
<1>1. /\ d.out \in Seq(Line) /\ d.pos \in Nat /\ d.eof \in SUBSET BOOLEAN
      /\ h.added \in Seq(Line) /\ h.nonl_new \in BOOLEAN /\ h.old_count \in Nat
  BY DEF Pass, HunkRec
<1>2. PICK a, b, x, y : a = d.pos /\ b = Start(h) /\ x = d.out /\ y = h.added
  OBVIOUS
<1>3. SubSeq(lines, a + 1, b) \in Seq(Line)
  <2>1. a + 1 \in Int /\ b \in Int /\ \A i \in (a + 1)..b : lines[i] \in Line
    BY <1>1, <1>2
  <2> QED BY <2>1, SubSeqProperties
<1>4. PICK z \in Seq(Line) : z = SubSeq(lines, a + 1, b)
  BY <1>3
<1>5. x \in Seq(Line) /\ y \in Seq(Line)
  BY <1>1, <1>2
<1>6. x \o z \in Seq(Line)
  BY <1>5, ConcatProperties
<1>7. PICK w \in Seq(Line) : w = x \o z
  BY <1>6
<1>8. w \o y \in Seq(Line)
  BY <1>5, ConcatProperties
<1>9. d.out \o SubSeq(lines, d.pos + 1, Start(h)) \o h.added \in Seq(Line)
  BY <1>2, <1>4, <1>7, <1>8
<1>10. Start(h) + h.old_count \in Nat
  BY <1>1
<1>11. (IF h.nonl_old \/ h.nonl_new THEN {h.nonl_new} ELSE d.eof) \in SUBSET BOOLEAN
  BY <1>1
<1> QED BY <1>9, <1>10, <1>11 DEF Apply, Pass

\* The applier takes the hunks one after the other, each of which starts in the base.
Fit(base, hunks, lines, order, M) ==
  /\ lines \in Seq(Line) /\ lines = IF base = Absent THEN Empty ELSE base
  /\ order = Ranked(hunks, {p \in hunks \X hunks : Before(p[1], p[2])})
  /\ M \in Nat /\ M = Cardinality(hunks)
  /\ \A n \in 1..M : order[n] \in HunkRec /\ Start(order[n]) \in 0..Len(lines)
LEMMA ApplyIsAPass ==
  ASSUME NEW base, NEW hunks, NEW lines, NEW order, NEW M, Fit(base, hunks, lines, order, M)
  PROVE  \E done : Passes(done, lines, order, M) /\ ApplyHunks(base, hunks) = Finished(lines, done[M])
<1> USE DEF Fit
<1> DEFINE Def(f) == [n \in 0..M |-> IF n = 0 THEN Begun ELSE Apply(lines, f[n - 1], order[n])]
           done == CHOOSE f : f = Def(f)
           G == [n \in Nat |-> [d \in Pass |-> IF n \in 1..M THEN Apply(lines, d, order[n]) ELSE d]]
<1>1. G \in Steps(Pass)
  <2>1. ASSUME NEW n \in Nat, NEW d \in Pass
        PROVE  (IF n \in 1..M THEN Apply(lines, d, order[n]) ELSE d) \in Pass
    BY ApplyType
  <2> QED BY <2>1 DEF Steps
<1>2. PICK f : IsPass(f, M, Pass, Begun, G)
  <2> HIDE DEF G
  <2> QED BY <1>1, BegunIsAPass, Recursion
<1>3. ASSUME NEW n \in 1..M
      PROVE  f[n] = Apply(lines, f[n - 1], order[n]) /\ n - 1 \in 0..M /\ f[n - 1] \in Pass
  <2>1. n \in Nat /\ n - 1 \in 0..M
    OBVIOUS
  <2>2. f[n] = G[n][f[n - 1]] /\ f[n - 1] \in Pass
    <3> HIDE DEF G
    <3> QED BY <1>2, <2>1 DEF IsPass
  <2> QED BY <2>1, <2>2
<1>4. f[0] = Begun /\ f \in [0..M -> Pass]
  <2> HIDE DEF G
  <2> QED BY <1>2 DEF IsPass
<1> HIDE DEF G
<1>5. f = Def(f)
  <2>1. ASSUME NEW n \in 0..M PROVE f[n] = Def(f)[n]
    <3>1. n = 0 \/ n \in 1..M
      OBVIOUS
    <3> QED BY <1>3, <1>4, <3>1
  <2>2. f = [n \in 0..M |-> f[n]]
    BY <1>4
  <2>3. Def(f) = [n \in 0..M |-> Def(f)[n]]
    OBVIOUS
  <2> HIDE DEF Def
  <2> QED BY <2>1, <2>2, <2>3
<1>6. done = Def(done)
  <2> HIDE DEF Def
  <2> QED BY <1>5
<1>7. ApplyHunks(base, hunks) = Finished(lines, done[M])
  BY DEF ApplyHunks, Finished, Begun
<1> HIDE DEF done
<1> DEFINE T == {n \in 0..M : done[n] = f[n]}
<1>8. 0 \in T
  BY <1>4, <1>6
<1>9. ASSUME NEW n \in 0..(M - 1), n \in T PROVE n + 1 \in T
  <2>0. n + 1 \in 0..M /\ n + 1 # 0 /\ n + 1 \in 1..M /\ (n + 1) - 1 = n
    OBVIOUS
  <2>1. done[n + 1] = Apply(lines, done[(n + 1) - 1], order[n + 1])
    BY <1>6, <2>0
  <2>2. f[n + 1] = Apply(lines, f[(n + 1) - 1], order[n + 1])
    BY <1>3, <2>0
  <2> QED BY <1>9, <2>0, <2>1, <2>2
<1>10. \A n \in 0..M : n \in T
  <2> HIDE DEF T
  <2> QED BY <1>8, <1>9, ByInduction
<1>11. done[M] = f[M]
  BY <1>10
<1>12. Passes(f, lines, order, M)
  BY <1>3, <1>4 DEF Passes
<1> QED BY <1>7, <1>11, <1>12
HunksOf(runs, A) == {HunkAt(runs, k) : k \in A}
Earlier(H) == {p \in H \X H : Before(p[1], p[2])}

\* The M hunks of A in the order of their places.
InPlace(order, at, M, runs, A) ==
  /\ M \in Nat /\ M = Cardinality(HunksOf(runs, A)) /\ at \in [1..M -> A]
  /\ \A j \in 1..M : order[j] = HunkAt(runs, at[j])
  /\ \A k \in A : \E j \in 1..M : at[j] = k
  /\ \A i, j \in 1..M : i < j => at[i] < at[j]

\* Hunks put in the order of their starts are in the order of their runs.
LEMMA HunksInPlace ==
  ASSUME NEW old, NEW new, NEW runs, NEW eo, NEW en, NEW A, Given(old, new, runs, eo, en, A)
  PROVE  \E M, at : InPlace(Ranked(HunksOf(runs, A), Earlier(HunksOf(runs, A))), at, M, runs, A)
<1> DEFINE H == HunksOf(runs, A)
           before == Earlier(H)
           M == Cardinality(H)
           order == Ranked(H, before)
           at == [j \in 1..M |-> CHOOSE k \in A : HunkAt(runs, k) = order[j]]
<1>1. A \subseteq 1..Len(runs) /\ Len(runs) \in Nat
  BY DEF Given, Lined
<1>2. IsFiniteSet(H)
  <2>1. 1 \in Int /\ Len(runs) \in Int
    BY <1>1
  <2>2. IsFiniteSet(1..Len(runs))
    BY <2>1, FS_Interval
  <2>3. A \in SUBSET (1..Len(runs))
    BY <1>1
  <2>4. IsFiniteSet(A)
    BY <2>2, <2>3, FS_Subset
  <2> DEFINE f == [k \in A |-> HunkAt(runs, k)]
  <2>5. f \in [A -> H] /\ \A x \in H : \E k \in A : f[k] = x
    BY DEF HunksOf
  <2>6. f \in Surjection(A, H)
    <3> HIDE DEF f, H
    <3> QED BY <2>5 DEF Surjection
  <2> HIDE DEF f, H
  <2> QED BY <2>4, <2>6, FS_Surjection
<1>3. ASSUME NEW k \in A PROVE HunkAt(runs, k) \in HunkRec
  BY <1>1, HunkStarts
<1>4. ASSUME NEW j \in A, NEW k \in A, j < k
      PROVE  HunkAt(runs, j).old_start < HunkAt(runs, k).old_start
  <2>1. j \in 1..Len(runs) /\ k \in 1..Len(runs)
    BY <1>1
  <2> QED BY <1>4, <2>1, HunksRise
<1>5. ASSUME NEW j \in A, NEW k \in A
      PROVE  Before(HunkAt(runs, j), HunkAt(runs, k)) <=> j < k
  <2>1. PICK g, h : g = HunkAt(runs, j) /\ h = HunkAt(runs, k)
    OBVIOUS
  <2>2. g.old_start \in Nat /\ h.old_start \in Nat /\ g.old_count \in Nat /\ h.old_count \in Nat
    BY <1>3, <2>1 DEF HunkRec
  <2>3. j \in Nat /\ k \in Nat
    BY <1>1
  <2>4. CASE j < k
    <3>1. g.old_start < h.old_start
      BY <1>4, <2>1, <2>4
    <3> QED BY <2>1, <2>4, <3>1 DEF Before
  <2>5. CASE j = k
    <3>1. g = h
      BY <2>1, <2>5
    <3>2. ~Before(g, h)
      BY <2>2, <3>1 DEF Before
    <3> QED BY <2>1, <2>3, <2>5, <3>2
  <2>6. CASE k < j
    <3>1. h.old_start < g.old_start
      BY <1>4, <2>1, <2>6
    <3>2. ~Before(g, h)
      BY <2>2, <3>1 DEF Before
    <3> QED BY <2>1, <2>3, <2>6, <3>2
  <2> QED BY <2>3, <2>4, <2>5, <2>6
<1>6. \A x \in H : \E k \in A : x = HunkAt(runs, k)
  BY DEF HunksOf
<1>7. \A k \in A : HunkAt(runs, k) \in H
  BY DEF HunksOf
<1>8. \A x, y \in H : <<x, y>> \in before <=> Before(x, y)
  BY DEF Earlier
<1> HIDE DEF H, before
<1>9. Orders(before, H)
  <2>1. ASSUME NEW x \in H PROVE <<x, x>> \notin before
    <3>1. PICK k \in A : x = HunkAt(runs, k)
      BY <1>6
    <3>2. ~(k < k)
      BY <1>1
    <3> QED BY <1>5, <1>8, <3>1, <3>2
  <2>2. ASSUME NEW x \in H, NEW y \in H, x # y PROVE <<x, y>> \in before \/ <<y, x>> \in before
    <3>1. PICK j \in A, k \in A : x = HunkAt(runs, j) /\ y = HunkAt(runs, k)
      BY <1>6
    <3>2. j # k
      BY <2>2, <3>1
    <3>3. j < k \/ k < j
      BY <1>1, <3>2
    <3> QED BY <1>5, <1>8, <3>1, <3>3
  <2>3. ASSUME NEW x \in H, NEW y \in H, NEW z \in H, <<x, y>> \in before, <<y, z>> \in before
        PROVE  <<x, z>> \in before
    <3>1. PICK i \in A, j \in A, k \in A : x = HunkAt(runs, i) /\ y = HunkAt(runs, j) /\ z = HunkAt(runs, k)
      BY <1>6
    <3>2. i < j /\ j < k
      BY <1>5, <1>8, <2>3, <3>1
    <3>3. i < k
      BY <1>1, <3>2
    <3> QED BY <1>5, <1>8, <3>1, <3>3
  <2> QED BY <2>1, <2>2, <2>3 DEF Orders
<1>10. Names(order, H, before)
  BY <1>2, <1>9, RankedNamesEach
<1> HIDE DEF order
<1>11. /\ M \in Nat /\ \A j \in 1..M : order[j] \in H
       /\ \A x \in H : \E j \in 1..M : order[j] = x
       /\ \A i, j \in 1..M : i < j => <<order[i], order[j]>> \in before
  BY <1>10 DEF Names
<1> HIDE DEF M
<1>12. ASSUME NEW j \in 1..M PROVE at[j] \in A /\ order[j] = HunkAt(runs, at[j])
  BY <1>6, <1>11
<1>13. at \in [1..M -> A]
  BY <1>12
<1> HIDE DEF at
<1>14. ASSUME NEW k \in A PROVE \E j \in 1..M : at[j] = k
  <2>1. PICK j \in 1..M : order[j] = HunkAt(runs, k)
    BY <1>7, <1>11
  <2>2. at[j] \in A /\ HunkAt(runs, at[j]) = HunkAt(runs, k)
    BY <1>12, <2>1
  <2>3. at[j] \in A /\ k \in A /\ at[j] \in Nat /\ k \in Nat
    <3>1. \A i \in A : i \in Nat
      BY <1>1
    <3> QED BY <2>2, <3>1
  <2>4. ~(at[j] < k) /\ ~(k < at[j])
    <3>1. ~Before(HunkAt(runs, k), HunkAt(runs, k))
      BY <1>5, <2>3
    <3> QED BY <1>5, <2>2, <3>1
  <2> QED BY <2>3, <2>4
<1>15. ASSUME NEW i \in 1..M, NEW j \in 1..M, i < j PROVE at[i] < at[j]
  <2>1. Before(order[i], order[j])
    BY <1>8, <1>11, <1>15
  <2> QED BY <1>5, <1>12, <2>1
<1>16. InPlace(order, at, M, runs, A)
  BY <1>11, <1>12, <1>13, <1>14, <1>15 DEF InPlace, M, H
<1> QED BY <1>16 DEF order, H, before
----------------------------------------------------------------------------
(* What the applier has written after each run *)

\* The lines of a content, and what its words are between two places of them.
LEMMA WordsBetween ==
  ASSUME NEW old \in Seq(LineRec), NEW lines, lines = Content(old),
         NEW a \in Nat, NEW b \in 0..Len(old)
  PROVE  /\ lines \in Seq(Line) /\ Len(old) <= Len(lines)
         /\ SubSeq(old, a + 1, b) \in Seq(LineRec)
         /\ SubSeq(lines, a + 1, b) = Texts(SubSeq(old, a + 1, b))
<1>1. /\ Texts(old) \in Seq(Line) /\ Len(Texts(old)) = Len(old)
  BY TextsType
<1>2. lines = Texts(old) \o Ending(old) /\ Ending(old) \in Seq(Line)
  BY ContentIs
<1>3. PICK s \in Seq(Line), t \in Seq(Line) : s = Texts(old) /\ t = Ending(old)
  BY <1>1, <1>2
<1>4. /\ s \o t \in Seq(Line) /\ Len(s \o t) = Len(s) + Len(t)
      /\ \A i \in 1..(Len(s) + Len(t)) : (s \o t)[i] = IF i <= Len(s) THEN s[i] ELSE t[i - Len(s)]
  BY ConcatProperties
<1>5. lines = s \o t /\ Len(s) = Len(old) /\ Len(s) \in Nat /\ Len(t) \in Nat
  BY <1>1, <1>2, <1>3
<1>6. lines \in Seq(Line) /\ Len(old) <= Len(lines)
  BY <1>4, <1>5
<1>7. /\ SubSeq(old, a + 1, b) \in Seq(LineRec)
      /\ Texts(SubSeq(old, a + 1, b)) = SubSeq(Texts(old), a + 1, b)
  BY TextsPart
<1>8. a + 1 \in Int /\ b \in Int /\ \A i \in (a + 1)..b : i \in 1..Len(s) /\ i \in 1..(Len(s) + Len(t)) /\ i <= Len(s)
  BY <1>5
<1>9. \A i \in (a + 1)..b : lines[i] = s[i] /\ lines[i] \in Line /\ s[i] \in Line
  BY <1>4, <1>5, <1>8
<1>10. /\ SubSeq(lines, a + 1, b) \in Seq(Line)
       /\ Len(SubSeq(lines, a + 1, b)) = IF a + 1 <= b THEN b - (a + 1) + 1 ELSE 0
       /\ \A i \in 1..(b - (a + 1) + 1) : SubSeq(lines, a + 1, b)[i] = lines[(a + 1) + i - 1]
  BY <1>8, <1>9, SubSeqProperties
<1>11. /\ SubSeq(s, a + 1, b) \in Seq(Line)
       /\ Len(SubSeq(s, a + 1, b)) = IF a + 1 <= b THEN b - (a + 1) + 1 ELSE 0
       /\ \A i \in 1..(b - (a + 1) + 1) : SubSeq(s, a + 1, b)[i] = s[(a + 1) + i - 1]
  BY <1>8, <1>9, SubSeqProperties
<1>12. PICK x \in Seq(Line), y \in Seq(Line) : x = SubSeq(lines, a + 1, b) /\ y = SubSeq(s, a + 1, b)
  BY <1>10, <1>11
<1>13. Len(x) = Len(y) /\ \A i \in 1..Len(x) : i \in 1..(b - (a + 1) + 1) /\ (a + 1) + i - 1 \in (a + 1)..b
  BY <1>10, <1>11, <1>12
<1>14. \A i \in 1..Len(x) : x[i] = y[i]
  BY <1>9, <1>10, <1>11, <1>12, <1>13
<1>15. x = y
  BY <1>13, <1>14, SeqEqual
<1> QED BY <1>3, <1>6, <1>7, <1>12, <1>15

\* After the words of its lines a content has what it ends with.
LEMMA EndingIsTheRest ==
  ASSUME NEW old \in Seq(LineRec), NEW lines, lines = Content(old)
  PROVE  SubSeq(lines, Len(old) + 1, Len(lines)) = Ending(old) /\ Ending(old) \in Seq(Line)
<1>1. /\ Texts(old) \in Seq(Line) /\ Len(Texts(old)) = Len(old)
  BY TextsType
<1>2. lines = Texts(old) \o Ending(old) /\ Ending(old) \in Seq(Line)
  BY ContentIs
<1>3. PICK s \in Seq(Line), t \in Seq(Line) : s = Texts(old) /\ t = Ending(old)
  BY <1>1, <1>2
<1>4. /\ s \o t \in Seq(Line) /\ Len(s \o t) = Len(s) + Len(t)
      /\ \A i \in 1..(Len(s) + Len(t)) : (s \o t)[i] = IF i <= Len(s) THEN s[i] ELSE t[i - Len(s)]
  BY ConcatProperties
<1>5. PICK n, l : n = Len(s) /\ l = Len(t)
  OBVIOUS
<1>6. n \in Nat /\ l \in Nat /\ Len(old) = n /\ lines = s \o t /\ Len(lines) = n + l
  BY <1>1, <1>2, <1>3, <1>4, <1>5
<1>7. n + 1 \in Int /\ n + l \in Int /\ \A i \in (n + 1)..(n + l) : lines[i] \in Line
  <2>1. \A i \in (n + 1)..(n + l) : i \in 1..(n + l)
    BY <1>6
  <2>2. \A i \in 1..(n + l) : lines[i] \in Line
    BY <1>4, <1>6
  <2> QED BY <1>6, <2>1, <2>2
<1>8. /\ SubSeq(lines, n + 1, n + l) \in Seq(Line)
      /\ Len(SubSeq(lines, n + 1, n + l)) = IF n + 1 <= n + l THEN (n + l) - (n + 1) + 1 ELSE 0
      /\ \A i \in 1..((n + l) - (n + 1) + 1) : SubSeq(lines, n + 1, n + l)[i] = lines[(n + 1) + i - 1]
  BY <1>7, SubSeqProperties
<1>9. PICK w \in Seq(Line) : w = SubSeq(lines, n + 1, n + l)
  BY <1>8
<1>10. Len(w) = l
  BY <1>6, <1>8, <1>9
<1>11. ASSUME NEW i \in 1..l PROVE w[i] = t[i]
  <2>1. /\ i \in 1..((n + l) - (n + 1) + 1) /\ (n + 1) + i - 1 = n + i /\ n + i \in 1..(n + l)
        /\ ~(n + i <= n) /\ (n + i) - n = i
    BY <1>6
  <2>2. lines[n + i] = t[i]
    BY <1>4, <1>5, <1>6, <2>1
  <2> QED BY <1>8, <1>9, <2>1, <2>2
<1>12. w = t
  BY <1>5, <1>10, <1>11, SeqEqual
<1> QED BY <1>2, <1>3, <1>6, <1>9, <1>12

\* Between two runs: t is what has been laid out up to the place e of the base, of which a
\* lines have been read and the rest is still to be copied to `out`.
BetweenRuns(lines, old, out, a, e, f, t, removed, added, kept) ==
  /\ old \in Seq(LineRec) /\ lines = Content(old) /\ out \in Seq(Line) /\ t \in Seq(LineRec)
  /\ a \in Nat /\ e \in Nat /\ f \in Nat /\ a <= e /\ e <= f /\ f <= Len(old)
  /\ removed \in Seq(LineRec) /\ added \in Seq(LineRec) /\ kept \in Seq(LineRec)
  /\ Len(removed) + Len(kept) = f - e
  /\ removed \o kept = SubSeq(old, e + 1, f)
  /\ out \o SubSeq(lines, a + 1, e) = Texts(t)

\* When the base has been copied up to f, what has been written is the words of s.
CopiedTo(lines, out, a, f, s) == out \o SubSeq(lines, a + 1, f) = Texts(s) /\ a <= f /\ a \in Nat

\* A run that is left alone is copied with the line that stays.
LEMMA RunLeft ==
  ASSUME NEW lines, NEW old, NEW out, NEW a, NEW e, NEW f, NEW t, NEW removed, NEW added, NEW kept,
         BetweenRuns(lines, old, out, a, e, f, t, removed, added, kept)
  PROVE  CopiedTo(lines, out, a, f, t \o (removed \o kept))
<1>1. /\ old \in Seq(LineRec) /\ lines = Content(old) /\ out \in Seq(Line) /\ t \in Seq(LineRec)
      /\ a \in Nat /\ e \in Nat /\ f \in Nat /\ a <= e /\ e <= f /\ f <= Len(old)
      /\ removed \o kept = SubSeq(old, e + 1, f)
      /\ out \o SubSeq(lines, a + 1, e) = Texts(t)
  BY DEF BetweenRuns
<1>2. Len(old) \in Nat /\ e \in 0..Len(old) /\ f \in 0..Len(old)
  BY <1>1
<1>3. lines \in Seq(Line) /\ Len(old) <= Len(lines) /\ SubSeq(lines, a + 1, e) = Texts(SubSeq(old, a + 1, e))
      /\ SubSeq(old, a + 1, e) \in Seq(LineRec)
  BY <1>1, <1>2, WordsBetween
<1>4. SubSeq(lines, e + 1, f) = Texts(SubSeq(old, e + 1, f)) /\ SubSeq(old, e + 1, f) \in Seq(LineRec)
  <2>1. old \in Seq(LineRec) /\ lines = Content(old) /\ e \in Nat /\ f \in 0..Len(old)
    BY <1>1, <1>2
  <2> QED BY ONLY <2>1, WordsBetween
<1>5. PICK x, y : x = SubSeq(lines, a + 1, e) /\ y = SubSeq(lines, e + 1, f)
  OBVIOUS
<1>6. x \in Seq(Line) /\ y \in Seq(Line)
  BY <1>3, <1>4, <1>5, TextsType
<1>7. SubSeq(lines, a + 1, f) = x \o y
  <2>1. Len(lines) \in Nat
    BY <1>3
  <2>2. a + 1 \in 1..(Len(lines) + 1) /\ e \in ((a + 1) - 1)..Len(lines) /\ f \in e..Len(lines)
    BY <1>1, <1>2, <1>3, <2>1
  <2>3. SubSeq(lines, a + 1, e) \o SubSeq(lines, e + 1, f) = SubSeq(lines, a + 1, f)
    BY <1>3, <2>2, ConcatAdjacentSubSeq
  <2> QED BY <1>5, <2>3
<1>8. out \o (x \o y) = (out \o x) \o y
  <2>1. out \in Seq(Line)
    BY <1>1
  <2> QED BY ONLY <2>1, <1>6, ConcatAssociative
<1>9. Texts(t \o SubSeq(old, e + 1, f)) = Texts(t) \o Texts(SubSeq(old, e + 1, f))
  BY <1>1, <1>4, TextsConcat
<1>10. out \o SubSeq(lines, a + 1, f) = Texts(t \o (removed \o kept))
  BY <1>1, <1>4, <1>5, <1>7, <1>8, <1>9
<1>11. a <= f
  BY <1>1
<1> QED BY <1>1, <1>10, <1>11 DEF CopiedTo

\* A hunk puts its lines in place of what it removes, and the line that stays is copied.
LEMMA RunTaken ==
  ASSUME NEW lines, NEW old, NEW out, NEW a, NEW e, NEW f, NEW t, NEW removed, NEW added, NEW kept,
         BetweenRuns(lines, old, out, a, e, f, t, removed, added, kept)
  PROVE  CopiedTo(lines, out \o SubSeq(lines, a + 1, e) \o Texts(added), e + Len(removed), f, t \o (added \o kept))
<1>1. /\ old \in Seq(LineRec) /\ lines = Content(old) /\ t \in Seq(LineRec)
      /\ e \in Nat /\ f \in Nat /\ e <= f /\ f <= Len(old)
      /\ removed \in Seq(LineRec) /\ added \in Seq(LineRec) /\ kept \in Seq(LineRec)
      /\ Len(removed) + Len(kept) = f - e
      /\ removed \o kept = SubSeq(old, e + 1, f)
      /\ out \o SubSeq(lines, a + 1, e) = Texts(t)
  BY DEF BetweenRuns
<1>2. /\ Len(old) \in Nat /\ f \in 0..Len(old) /\ Len(removed) \in Nat /\ Len(kept) \in Nat
      /\ e + Len(removed) \in Nat /\ e + Len(removed) <= f /\ f - (e + Len(removed)) = Len(kept)
  BY <1>1
<1>3. PICK g \in Nat : g = e + Len(removed)
  BY <1>2
<1>4. \A i \in 1..Len(kept) : kept[i] = old[g + i]
  <2>1. InTwo(old, e, f, removed, kept)
    BY <1>1, <1>2 DEF InTwo
  <2> QED BY <1>3, <2>1, TwoParts DEF EachIsThere
<1>5. kept = SubSeq(old, g + 1, f)
  <2>1. g + 1 \in Int /\ f \in Int /\ \A i \in (g + 1)..f : i \in 1..Len(old) /\ old[i] \in LineRec
    BY <1>1, <1>2
  <2>2. /\ SubSeq(old, g + 1, f) \in Seq(LineRec)
        /\ Len(SubSeq(old, g + 1, f)) = IF g + 1 <= f THEN f - (g + 1) + 1 ELSE 0
        /\ \A i \in 1..(f - (g + 1) + 1) : SubSeq(old, g + 1, f)[i] = old[(g + 1) + i - 1]
    BY <2>1, SubSeqProperties
  <2>3. PICK w \in Seq(LineRec) : w = SubSeq(old, g + 1, f)
    BY <2>2
  <2>4. Len(w) = Len(kept)
    BY <1>1, <1>2, <1>3, <2>2, <2>3
  <2>5. \A i \in 1..Len(kept) : i \in 1..(f - (g + 1) + 1) /\ (g + 1) + i - 1 = g + i
    BY <1>1, <1>2, <1>3
  <2>6. \A i \in 1..Len(kept) : w[i] = kept[i]
    BY <1>4, <2>2, <2>3, <2>5
  <2>7. w = kept
    BY <1>1, <2>4, <2>6, SeqEqual
  <2> QED BY <2>3, <2>7
<1>6. SubSeq(lines, g + 1, f) = Texts(kept)
  <2>1. SubSeq(lines, g + 1, f) = Texts(SubSeq(old, g + 1, f))
    <3>1. old \in Seq(LineRec) /\ lines = Content(old) /\ g \in Nat /\ f \in 0..Len(old)
      BY <1>1, <1>2
    <3> QED BY ONLY <3>1, WordsBetween
  <2> QED BY <1>5, <2>1
<1>7. added \o kept \in Seq(LineRec) /\ Texts(added \o kept) = Texts(added) \o Texts(kept)
  BY <1>1, ConcatProperties, TextsConcat
<1>8. Texts(t \o (added \o kept)) = Texts(t) \o Texts(added \o kept)
  BY <1>1, <1>7, TextsConcat
<1>9. Texts(t) \in Seq(Line) /\ Texts(added) \in Seq(Line) /\ Texts(kept) \in Seq(Line)
  BY <1>1, TextsType
<1>10. Texts(t) \o (Texts(added) \o Texts(kept)) = (Texts(t) \o Texts(added)) \o Texts(kept)
  BY <1>9, ConcatAssociative
<1>11. (out \o SubSeq(lines, a + 1, e) \o Texts(added)) \o SubSeq(lines, (e + Len(removed)) + 1, f)
         = (Texts(t) \o Texts(added)) \o Texts(kept)
  BY <1>1, <1>3, <1>6
<1> QED BY <1>2, <1>7, <1>8, <1>10, <1>11 DEF CopiedTo
\* What each run comes to when the hunks of A are taken over.
Choice(runs, A) ==
  [k \in DOMAIN runs |-> (IF k \in A THEN runs[k].added ELSE runs[k].removed) \o runs[k].kept]

EachIsChosen(runs, A, seqs) ==
  /\ seqs \in Seq(Seq(LineRec)) /\ Len(seqs) = Len(runs)
  /\ Len(runs) \in Nat \ {0} /\ DOMAIN runs = 1..Len(runs)
  /\ \A k \in 1..Len(runs) :
       seqs[k] = (IF k \in A THEN runs[k].added ELSE runs[k].removed) \o runs[k].kept
LEMMA ChoiceType ==
  ASSUME NEW old, NEW new, NEW runs, NEW eo, NEW en, NEW A, Given(old, new, runs, eo, en, A)
  PROVE  EachIsChosen(runs, A, Choice(runs, A))
<1>1. Len(runs) \in Nat \ {0} /\ DOMAIN runs = 1..Len(runs)
  BY DEF Given, Lined
<1>2. ASSUME NEW k \in 1..Len(runs)
      PROVE  (IF k \in A THEN runs[k].added ELSE runs[k].removed) \o runs[k].kept \in Seq(LineRec)
  <2>1. RunLies(old, new, eo, en, runs[k], k, Len(runs))
    BY RunHas
  <2>2. PICK x, y, z : x = runs[k].added /\ y = runs[k].removed /\ z = runs[k].kept
    OBVIOUS
  <2>3. x \in Seq(LineRec) /\ y \in Seq(LineRec) /\ z \in Seq(LineRec)
    BY <2>1, <2>2 DEF RunLies
  <2>4. x \o z \in Seq(LineRec) /\ y \o z \in Seq(LineRec)
    BY ONLY <2>3, ConcatProperties
  <2> QED BY <2>2, <2>4
<1>3. Choice(runs, A) \in [1..Len(runs) -> Seq(LineRec)]
  BY <1>1, <1>2 DEF Choice
<1>4. Choice(runs, A) \in Seq(Seq(LineRec)) /\ Len(Choice(runs, A)) = Len(runs)
  BY <1>1, <1>3
<1>5. \A k \in 1..Len(runs) :
        Choice(runs, A)[k] = (IF k \in A THEN runs[k].added ELSE runs[k].removed) \o runs[k].kept
  BY <1>1 DEF Choice
<1> QED BY <1>1, <1>4, <1>5 DEF EachIsChosen

\* The applier at work on the hunks of A, and what the lines of both sides make of them.
AtWork(old, new, runs, eo, en, A, flat, lines, order, at, M, done) ==
  /\ Given(old, new, runs, eo, en, A) /\ lines = Content(old)
  /\ Flattens(flat, Choice(runs, A), LineRec)
  /\ InPlace(order, at, M, runs, A) /\ Passes(done, lines, order, M)

\* What the hunks up to run k say of the end of the file: only the last run knows of it.
EndSaid(runs, A, k) ==
  IF /\ k = Len(runs) /\ k \in A
     /\ Unended(runs[k].removed) \/ Unended(runs[k].added)
  THEN {Unended(runs[k].added)} ELSE {}

\* After the i hunks up to run k, what is written and what is left of the base up to
\* there are the words of the lines that were chosen.
Written(runs, eo, A, flat, lines, at, M, done, k, i) ==
  /\ i \in 0..M /\ \A j \in 1..M : at[j] <= k <=> j <= i
  /\ done[i].pos <= eo[k]
  /\ done[i].out \o SubSeq(lines, done[i].pos + 1, eo[k]) = Texts(flat[k])
  /\ done[i].eof = EndSaid(runs, A, k)

LEMMA OneMoreRun ==
  ASSUME NEW old, NEW new, NEW runs, NEW eo, NEW en, NEW A, NEW flat, NEW lines, NEW order, NEW at, NEW M, NEW done,
         AtWork(old, new, runs, eo, en, A, flat, lines, order, at, M, done),
         NEW k \in 0..(Len(runs) - 1), NEW i, Written(runs, eo, A, flat, lines, at, M, done, k, i)
  PROVE  \E n : Written(runs, eo, A, flat, lines, at, M, done, k + 1, n)
<1>1. Given(old, new, runs, eo, en, A) /\ lines = Content(old)
  BY DEF AtWork
<1>2. PICK q, m : q = k + 1 /\ m = Len(runs)
  OBVIOUS
<1>c. EachIsChosen(runs, A, Choice(runs, A))
  BY <1>1, ChoiceType
<1>3. m \in Nat \ {0} /\ k \in Nat /\ q \in 1..m /\ q - 1 = k /\ k # m /\ k \in 0..m /\ q \in 0..m
  BY <1>2, <1>c DEF EachIsChosen
<1>4. PICK r : r = runs[q]
  OBVIOUS
<1>5. RunLies(old, new, eo, en, r, q, m)
  <2>1. q \in 1..Len(runs)
    BY <1>2, <1>3
  <2>2. RunLies(old, new, eo, en, runs[q], q, Len(runs))
    BY ONLY <1>1, <2>1, RunHas
  <2> QED BY <1>2, <1>4, <2>2
<1>6. PICK e, f, x, y, z : e = eo[k] /\ f = eo[q] /\ x = r.removed /\ y = r.added /\ z = r.kept
  OBVIOUS
<1>7. /\ e \in Nat /\ f \in Nat /\ e <= f /\ f <= Len(old)
      /\ x \in Seq(LineRec) /\ y \in Seq(LineRec) /\ z \in Seq(LineRec)
      /\ Len(x) + Len(z) = f - e /\ x \o z = SubSeq(old, e + 1, f)
  BY <1>3, <1>5, <1>6 DEF RunLies
<1>8. i \in 0..M /\ M \in Nat /\ done[i] \in Pass
  BY DEF Written, AtWork, InPlace, Passes
<1>9. PICK d : d = done[i]
  OBVIOUS
<1>10. /\ d.pos \in Nat /\ d.out \in Seq(Line)
       /\ d.pos <= e /\ d.out \o SubSeq(lines, d.pos + 1, e) = Texts(flat[k])
       /\ d.eof = EndSaid(runs, A, k)
       /\ \A j \in 1..M : at[j] <= k <=> j <= i
  BY <1>6, <1>8, <1>9 DEF Written, Pass
<1>11. Len(Choice(runs, A)) = m /\ Choice(runs, A)[q] = (IF q \in A THEN y ELSE x) \o z
  <2>1. q \in 1..Len(runs)
    BY <1>2, <1>3
  <2>2. /\ Len(Choice(runs, A)) = Len(runs)
        /\ Choice(runs, A)[q] = (IF q \in A THEN runs[q].added ELSE runs[q].removed) \o runs[q].kept
    BY <1>c, <2>1 DEF EachIsChosen
  <2> QED BY <1>2, <1>4, <1>6, <2>2
<1>12. flat[k] \in Seq(LineRec) /\ flat[q] = flat[k] \o ((IF q \in A THEN y ELSE x) \o z)
  <2>1. Flattens(flat, Choice(runs, A), LineRec)
    BY DEF AtWork
  <2>2. flat[k] \in Seq(LineRec)
    BY <1>3, <1>11, <2>1 DEF Flattens
  <2>3. flat[q] = flat[q - 1] \o Choice(runs, A)[q]
    BY <1>3, <1>11, <2>1 DEF Flattens
  <2> QED BY <1>3, <1>11, <2>2, <2>3
<1>13. PICK a, out, t : a = d.pos /\ out = d.out /\ t = flat[k]
  OBVIOUS
<1>14. BetweenRuns(lines, old, out, a, e, f, t, x, y, z)
  <2>1. old \in Seq(LineRec)
    BY <1>1 DEF Given
  <2> QED BY <1>1, <1>7, <1>10, <1>12, <1>13, <2>1 DEF BetweenRuns
<1>15. d.eof = {}
  BY <1>2, <1>3, <1>10 DEF EndSaid
<1>16. \A j \in 1..M : at[j] \in A
  BY DEF AtWork, InPlace
<1>17. \A j \in A : j \in Nat
  <2>1. A \subseteq 1..m
    BY <1>1, <1>2 DEF Given
  <2> QED BY <2>1
<1>18. CASE q \notin A
  <2>1. CopiedTo(lines, out, a, f, t \o (x \o z))
    BY <1>14, RunLeft
  <2>2. d.out \o SubSeq(lines, d.pos + 1, f) = Texts(flat[q])
    BY <1>12, <1>13, <1>18, <2>1 DEF CopiedTo
  <2>3. \A j \in 1..M : at[j] <= q <=> j <= i
    <3>1. ASSUME NEW j \in 1..M PROVE at[j] <= q <=> at[j] <= k
      <4>1. at[j] \in Nat /\ at[j] # q
        BY <1>16, <1>17, <1>18
      <4> QED BY <1>3, <4>1
    <3> QED BY <1>10, <3>1
  <2>4. d.pos <= f
    BY <1>7, <1>10
  <2>5. EndSaid(runs, A, q) = {}
    BY <1>18 DEF EndSaid
  <2>6. Written(runs, eo, A, flat, lines, at, M, done, q, i)
    BY <1>6, <1>8, <1>9, <1>15, <2>2, <2>3, <2>4, <2>5 DEF Written
  <2> QED BY <1>2, <2>6
<1>19. CASE q \in A
  <2>1. PICK n \in 1..M : at[n] = q
    BY <1>19 DEF AtWork, InPlace
  <2>2. \A j, l \in 1..M : j < l => at[j] < at[l]
    BY DEF AtWork, InPlace
  <2>3. n = i + 1
    <3>1. ~(n <= i)
      BY <1>3, <1>10, <2>1
    <3>2. ASSUME i + 1 < n PROVE FALSE
      <4>1. i + 1 \in 1..M /\ ~(i + 1 <= i)
        BY <1>8, <3>2
      <4>2. at[i + 1] < q /\ ~(at[i + 1] <= k) /\ at[i + 1] \in Nat
        BY <1>10, <1>16, <1>17, <2>1, <2>2, <3>2, <4>1
      <4> QED BY <1>3, <4>2
    <3> QED BY <1>8, <3>1, <3>2
  <2>4. \A j \in 1..M : at[j] <= q <=> j <= n
    <3>1. ASSUME NEW j \in 1..M PROVE at[j] <= q <=> j <= n
      <4>1. at[j] \in Nat
        BY <1>16, <1>17
      <4>2. CASE j < n
        BY <1>3, <2>1, <2>2, <4>1, <4>2
      <4>3. CASE j = n
        BY <1>3, <2>1, <4>3
      <4>4. CASE n < j
        <5>1. q < at[j]
          BY <2>1, <2>2, <4>4
        <5> QED BY <1>3, <4>1, <4>4, <5>1
      <4> QED BY <4>2, <4>3, <4>4
    <3> QED BY <3>1
  <2>5. PICK h : h = HunkAt(runs, q)
    OBVIOUS
  <2>6. order[n] = h /\ n - 1 = i
    BY <1>8, <2>1, <2>3, <2>5 DEF AtWork, InPlace
  <2>7. done[n] = Apply(lines, d, h)
    BY <1>9, <2>1, <2>6 DEF AtWork, Passes
  <2>8. Start(h) = e /\ h.old_count = Len(x) /\ h.added = Texts(y)
    <3>1. q \in 1..Len(runs)
      BY <1>2, <1>3
    <3>2. /\ Start(h) = eo[q - 1] /\ h.old_count = Len(runs[q].removed) /\ h.added = Texts(runs[q].added)
      BY ONLY <1>1, <2>5, <3>1, HunkStarts
    <3> QED BY <1>3, <1>4, <1>6, <3>2
  <2>9. /\ done[n].out = out \o SubSeq(lines, a + 1, e) \o Texts(y) /\ done[n].pos = e + Len(x)
        /\ done[n].eof = IF h.nonl_old \/ h.nonl_new THEN {h.nonl_new} ELSE {}
    <3>1. /\ Apply(lines, d, h).out = d.out \o SubSeq(lines, d.pos + 1, Start(h)) \o h.added
          /\ Apply(lines, d, h).pos = Start(h) + h.old_count
          /\ Apply(lines, d, h).eof = IF h.nonl_old \/ h.nonl_new THEN {h.nonl_new} ELSE d.eof
      BY ONLY TRUE DEF Apply
    <3> QED BY ONLY <1>13, <1>15, <2>7, <2>8, <3>1
  <2>10. CopiedTo(lines, out \o SubSeq(lines, a + 1, e) \o Texts(y), e + Len(x), f, t \o (y \o z))
    BY <1>14, RunTaken
  <2>11. done[n].eof = EndSaid(runs, A, q)
    <3>1. (h.nonl_old <=> Unended(runs[q].removed)) /\ (h.nonl_new <=> Unended(runs[q].added))
          /\ h.nonl_new = Unended(runs[q].added)
      BY <2>5 DEF HunkAt, HunkOf
    <3>2. q # Len(runs) => ~Unended(runs[q].removed) /\ ~Unended(runs[q].added)
      <4>1. q \in 1..Len(runs)
        BY <1>2, <1>3
      <4> QED BY ONLY <1>1, <4>1, UnendedIsLast
    <3> QED BY <1>19, <2>9, <3>1, <3>2 DEF EndSaid
  <2>12. done[n].out \o SubSeq(lines, done[n].pos + 1, f) = Texts(flat[q]) /\ done[n].pos <= f
    BY <1>12, <1>13, <1>19, <2>9, <2>10 DEF CopiedTo
  <2>13. n \in 0..M
    BY <1>8, <2>1
  <2>14. Written(runs, eo, A, flat, lines, at, M, done, q, n)
    BY <1>6, <2>4, <2>11, <2>12, <2>13 DEF Written
  <2> QED BY <1>2, <2>14
<1> QED BY <1>18, <1>19

\* All of it, when the last run has been passed: by then no hunk is left.
LEMMA AllWritten ==
  ASSUME NEW old, NEW new, NEW runs, NEW eo, NEW en, NEW A, NEW flat, NEW lines, NEW order, NEW at, NEW M, NEW done,
         AtWork(old, new, runs, eo, en, A, flat, lines, order, at, M, done)
  PROVE  Written(runs, eo, A, flat, lines, at, M, done, Len(runs), M)
<1> DEFINE m == Len(runs)
           T == {k \in 0..m : \E i : Written(runs, eo, A, flat, lines, at, M, done, k, i)}
<1>1. Given(old, new, runs, eo, en, A) /\ lines = Content(old)
  BY DEF AtWork
<1>2. m \in Nat \ {0} /\ A \subseteq 1..m /\ eo[0] = 0 /\ old \in Seq(LineRec)
  BY <1>1 DEF Given, Lined
<1>3. M \in Nat /\ \A j \in 1..M : at[j] \in A
  BY DEF AtWork, InPlace
<1>4. \A j \in 1..M : at[j] \in 1..m /\ at[j] <= m /\ ~(at[j] <= 0)
  <2>1. \A k \in A : k \in 1..m /\ k <= m /\ ~(k <= 0)
    BY <1>2
  <2> QED BY <1>3, <2>1
<1> HIDE DEF m
<1>5. 0 \in T
  <2>1. done[0] = Begun
    BY DEF AtWork, Passes
  <2>2. flat[0] = <<>>
    BY DEF AtWork, Flattens
  <2>3. done[0].pos = 0 /\ done[0].out = <<>> /\ done[0].eof = {}
    BY <2>1 DEF Begun
  <2>4. SubSeq(lines, 0 + 1, 0) = <<>>
    BY SubSeqEmpty
  <2>5. <<>> \o <<>> = <<>> /\ Texts(<<>>) = <<>>
    <3>1. <<>> \in Seq(LineRec) /\ Len(<<>>) = 0
      OBVIOUS
    <3>2. Texts(<<>>) \in Seq(Line) /\ Len(Texts(<<>>)) = 0
      BY <3>1, TextsType
    <3> QED BY <3>1, <3>2, EmptySeq, ConcatEmptySeq
  <2>6. EndSaid(runs, A, 0) = {}
    BY <1>2 DEF EndSaid, m
  <2>7. 0 \in 0..M /\ \A j \in 1..M : at[j] <= 0 <=> j <= 0
    BY <1>3, <1>4
  <2>8. Written(runs, eo, A, flat, lines, at, M, done, 0, 0)
    <3>1. done[0].pos <= eo[0]
      BY <1>2, <2>3
    <3>2. done[0].out \o SubSeq(lines, done[0].pos + 1, eo[0]) = Texts(flat[0])
      BY ONLY <1>2, <2>2, <2>3, <2>4, <2>5
    <3> QED BY <2>3, <2>6, <2>7, <3>1, <3>2 DEF Written
  <2> QED BY <1>2, <2>8
<1>6. ASSUME NEW k \in 0..(m - 1), k \in T PROVE k + 1 \in T
  <2>1. PICK i : Written(runs, eo, A, flat, lines, at, M, done, k, i)
    BY <1>6
  <2>2. k \in 0..(Len(runs) - 1)
    BY DEF m
  <2>3. \E n : Written(runs, eo, A, flat, lines, at, M, done, k + 1, n)
    BY <2>1, <2>2, OneMoreRun
  <2>4. k + 1 \in 0..m
    BY <1>2
  <2> QED BY <2>3, <2>4
<1>7. \A k \in 0..m : k \in T
  <2> HIDE DEF T
  <2> QED BY <1>2, <1>5, <1>6, ByInduction
<1>8. PICK i : Written(runs, eo, A, flat, lines, at, M, done, m, i)
  BY <1>2, <1>7
<1>9. i \in 0..M /\ \A j \in 1..M : at[j] <= m <=> j <= i
  BY <1>8 DEF Written
<1>10. i = M
  <2>1. M # 0 => M \in 1..M
    BY <1>3
  <2>2. M # 0 => M <= i
    BY <1>4, <1>9, <2>1
  <2> QED BY <1>3, <1>9, <2>2
<1> QED BY <1>8, <1>10 DEF m
----------------------------------------------------------------------------
(* The end of the file *)

LEMMA LastOfTwo ==
  ASSUME NEW x \in Seq(LineRec), NEW y \in Seq(LineRec)
  PROVE  /\ x \o y \in Seq(LineRec)
         /\ y = <<>> => x \o y = x
         /\ y # <<>> => x \o y # <<>> /\ (x \o y)[Len(x \o y)] = y[Len(y)] /\ Len(x \o y) = Len(x) + Len(y)
<1>1. /\ x \o y \in Seq(LineRec) /\ Len(x \o y) = Len(x) + Len(y)
      /\ \A i \in 1..(Len(x) + Len(y)) : (x \o y)[i] = IF i <= Len(x) THEN x[i] ELSE y[i - Len(x)]
  BY ConcatProperties
<1>2. Len(x) \in Nat /\ Len(y) \in Nat /\ (y # <<>> => Len(y) # 0)
  BY EmptySeq
<1>3. y = <<>> => x \o y = x
  BY ConcatEmptySeq
<1>4. ASSUME y # <<>> PROVE x \o y # <<>> /\ (x \o y)[Len(x \o y)] = y[Len(y)]
  <2>1. Len(x) + Len(y) \in 1..(Len(x) + Len(y)) /\ ~(Len(x) + Len(y) <= Len(x)) /\ (Len(x) + Len(y)) - Len(x) = Len(y)
    BY <1>2, <1>4
  <2>2. (x \o y)[Len(x) + Len(y)] = y[Len(y)]
    BY <1>1, <2>1
  <2>3. Len(x \o y) # 0
    BY <1>1, <1>2, <1>4
  <2>4. PICK w \in Seq(LineRec) : w = x \o y
    BY <1>1
  <2>5. w # <<>>
    BY <2>3, <2>4, EmptySeq
  <2> QED BY <1>1, <2>2, <2>4, <2>5
<1> QED BY <1>1, <1>3, <1>4

\* What is laid out before a run ends with the line that stayed.
EndsWhereItStayed(s, old, new, e, g) ==
  /\ s \in Seq(LineRec)
  /\ s = <<>> => e = 0 /\ g = 0
  /\ s # <<>> => e \in 1..Len(old) /\ g \in 1..Len(new) /\ s[Len(s)] = old[e] /\ s[Len(s)] = new[g]
LEMMA LastThatStays ==
  ASSUME NEW old, NEW new, NEW runs, NEW eo, NEW en, NEW A, NEW flat, NEW lines, NEW order, NEW at, NEW M, NEW done,
         AtWork(old, new, runs, eo, en, A, flat, lines, order, at, M, done), NEW k \in 0..(Len(runs) - 1)
  PROVE  EndsWhereItStayed(flat[k], old, new, eo[k], en[k])
<1>1. Given(old, new, runs, eo, en, A) /\ Flattens(flat, Choice(runs, A), LineRec)
  BY DEF AtWork
<1>2. EachIsChosen(runs, A, Choice(runs, A))
  BY <1>1, ChoiceType
<1>3. PICK m : m = Len(runs)
  OBVIOUS
<1>4. Len(runs) \in Nat \ {0} /\ k \in 0..m /\ k \in Nat
  BY <1>2, <1>3 DEF EachIsChosen
<1>5. flat[k] \in Seq(LineRec)
  BY <1>1, <1>2, <1>3, <1>4 DEF Flattens, EachIsChosen
<1>6. CASE k = 0
  BY <1>1, <1>5, <1>6 DEF Flattens, Given, Lined, EndsWhereItStayed
<1>7. CASE k # 0
  <2>1. k \in 1..Len(runs) /\ k # Len(runs) /\ k - 1 \in 0..Len(runs)
    BY <1>4, <1>7
  <2>2. RunLies(old, new, eo, en, runs[k], k, Len(runs))
    BY <1>1, <2>1, RunHas
  <2>3. PICK x, y, z : x = runs[k].removed /\ y = runs[k].added /\ z = runs[k].kept
    OBVIOUS
  <2>4. /\ x \in Seq(LineRec) /\ y \in Seq(LineRec) /\ z \in Seq(LineRec)
        /\ Len(z) = 1 /\ z[1] = old[eo[k]] /\ z[1] = new[en[k]]
    BY <2>1, <2>2, <2>3 DEF RunLies
  <2>5. eo[k] \in 1..Len(old) /\ en[k] \in 1..Len(new)
    <3>1. /\ eo[k - 1] \in Nat /\ eo[k] \in Nat /\ en[k - 1] \in Nat /\ en[k] \in Nat
          /\ eo[k] <= Len(old) /\ en[k] <= Len(new)
          /\ Len(x) + Len(z) = eo[k] - eo[k - 1] /\ Len(y) + Len(z) = en[k] - en[k - 1]
      BY <2>2, <2>3 DEF RunLies
    <3>2. Len(x) \in Nat /\ Len(y) \in Nat
      BY <2>4
    <3>3. old \in Seq(LineRec) /\ new \in Seq(LineRec)
      BY <1>1 DEF Given
    <3>4. Len(old) \in Nat /\ Len(new) \in Nat
      BY <3>3
    <3>5. Len(z) = 1
      BY <2>4
    <3>6. PICK e0, e1, n0, n1, lx, ly, lz, lo, ln :
            /\ e0 = eo[k - 1] /\ e1 = eo[k] /\ n0 = en[k - 1] /\ n1 = en[k]
            /\ lx = Len(x) /\ ly = Len(y) /\ lz = Len(z) /\ lo = Len(old) /\ ln = Len(new)
      OBVIOUS
    <3>7. /\ e0 \in Nat /\ e1 \in Nat /\ n0 \in Nat /\ n1 \in Nat /\ e1 <= lo /\ n1 <= ln
          /\ lx + lz = e1 - e0 /\ ly + lz = n1 - n0
      BY ONLY <3>1, <3>6
    <3>8. lx \in Nat /\ ly \in Nat /\ lo \in Nat /\ ln \in Nat /\ lz = 1
      BY ONLY <3>2, <3>4, <3>5, <3>6
    <3>9. e1 \in 1..lo /\ n1 \in 1..ln
      BY ONLY <3>7, <3>8
    <3> QED BY ONLY <3>6, <3>9
  <2>6. flat[k] = flat[k - 1] \o ((IF k \in A THEN y ELSE x) \o z)
    <3>1. Choice(runs, A)[k] = (IF k \in A THEN y ELSE x) \o z
      BY <1>2, <2>1, <2>3 DEF EachIsChosen
    <3>2. flat[k] = flat[k - 1] \o Choice(runs, A)[k]
      BY <1>1, <1>2, <2>1 DEF Flattens, EachIsChosen
    <3> QED BY <3>1, <3>2
  <2>7. PICK t, u : t = flat[k - 1] /\ u = IF k \in A THEN y ELSE x
    OBVIOUS
  <2>8. t \in Seq(LineRec) /\ u \in Seq(LineRec) /\ z # <<>>
    <3>1. flat[k - 1] \in Seq(LineRec)
      BY <1>1, <1>2, <2>1 DEF Flattens, EachIsChosen
    <3>2. z # <<>>
      <4>1. Len(z) # 0 /\ Len(<<>>) = 0
        BY <2>4
      <4> QED BY <4>1
    <3>3. u \in Seq(LineRec)
      BY <2>4, <2>7
    <3> QED BY <2>7, <3>1, <3>2, <3>3
  <2>9. PICK w : w = u \o z
    OBVIOUS
  <2>10. w \in Seq(LineRec) /\ w # <<>> /\ w[Len(w)] = z[Len(z)]
    BY <2>4, <2>8, <2>9, LastOfTwo
  <2>11. t \o w # <<>> /\ (t \o w)[Len(t \o w)] = w[Len(w)]
    BY <2>8, <2>10, LastOfTwo
  <2>12. PICK s : s = flat[k]
    OBVIOUS
  <2>13. s = t \o w
    BY <2>6, <2>7, <2>9, <2>12
  <2>14. s # <<>> /\ s[Len(s)] = z[1] /\ s \in Seq(LineRec)
    BY <1>5, <2>4, <2>10, <2>11, <2>12, <2>13
  <2> QED BY <2>4, <2>5, <2>12, <2>14 DEF EndsWhereItStayed
<1> QED BY <1>6, <1>7

\* What is known where the last run meets the end of both sides: before it P is laid out,
\* which ends with the line that stayed.
AtTheEnd(old, new, P, e, g, R, Ad, taken) ==
  /\ old \in Seq(LineRec) /\ AreLines(old) /\ new \in Seq(LineRec) /\ AreLines(new)
  /\ R \in Seq(LineRec) /\ Ad \in Seq(LineRec) /\ e \in Nat /\ g \in Nat
  /\ e + Len(R) = Len(old) /\ g + Len(Ad) = Len(new)
  /\ R # <<>> => R[Len(R)] = old[Len(old)]
  /\ Ad # <<>> => Ad[Len(Ad)] = new[Len(new)]
  /\ EndsWhereItStayed(P, old, new, e, g)
  /\ taken => R # <<>> \/ Ad # <<>>
Chosen(R, Ad, taken) == IF taken THEN Ad ELSE R
SaidOf(R, Ad, taken) == IF taken /\ (Unended(R) \/ Unended(Ad)) THEN {Unended(Ad)} ELSE {}

\* Taking off the newline that was put on.
LEMMA EndTakenOff ==
  ASSUME NEW s \in Seq(Line)
  PROVE  /\ s \o <<Blank>> # <<>> /\ Last(s \o <<Blank>>) = Blank /\ Front(s \o <<Blank>>) = s
         /\ Append(s, Blank) = s \o <<Blank>> /\ s \o <<>> = s
<1>1. Blank \in Line /\ Len(s) \in Nat
  BY BlankIsALine
<1>2. Append(s, Blank) = s \o <<Blank>> /\ s \o <<>> = s
  BY <1>1, AppendIsConcat, ConcatEmptySeq
<1>3. /\ Append(s, Blank) \in Seq(Line) /\ Len(Append(s, Blank)) = Len(s) + 1
      /\ \A i \in 1..Len(s) : Append(s, Blank)[i] = s[i]
      /\ Append(s, Blank)[Len(s) + 1] = Blank
  BY <1>1, AppendProperties
<1>4. PICK u \in Seq(Line) : u = Append(s, Blank)
  BY <1>3
<1>5. u # <<>> /\ Last(u) = Blank
  BY <1>1, <1>3, <1>4, EmptySeq DEF Last
<1>6. Front(u) = SubSeq(u, 1, Len(s))
  <2>1. Len(u) - 1 = Len(s)
    BY <1>1, <1>3, <1>4
  <2> QED BY <2>1 DEF Front
<1>7. 1 \in Int /\ Len(s) \in Int /\ \A i \in 1..Len(s) : u[i] \in Line /\ i \in 1..(Len(s) - 1 + 1) /\ 1 + i - 1 = i
  BY <1>1, <1>3, <1>4
<1>8. /\ SubSeq(u, 1, Len(s)) \in Seq(Line)
      /\ Len(SubSeq(u, 1, Len(s))) = IF 1 <= Len(s) THEN Len(s) - 1 + 1 ELSE 0
      /\ \A i \in 1..(Len(s) - 1 + 1) : SubSeq(u, 1, Len(s))[i] = u[1 + i - 1]
  BY <1>7, SubSeqProperties
<1>9. PICK v \in Seq(Line) : v = SubSeq(u, 1, Len(s))
  BY <1>8
<1>10. Len(v) = Len(s) /\ \A i \in 1..Len(s) : v[i] = s[i]
  BY <1>1, <1>3, <1>4, <1>7, <1>8, <1>9
<1>11. v = s
  BY <1>10, SeqEqual
<1> QED BY <1>2, <1>4, <1>5, <1>6, <1>9, <1>11

EndsAsChosen(L, old, said) ==
  /\ WithEnd(Texts(L) \o Ending(old), said) = Content(L)
  /\ L \in Seq(LineRec) /\ Content(L) # <<>>

\* The end that the applier puts is that of the lines that were chosen.
LEMMA EndIsRight ==
  ASSUME NEW old, NEW new, NEW P, NEW e, NEW g, NEW R, NEW Ad, NEW taken \in BOOLEAN,
         AtTheEnd(old, new, P, e, g, R, Ad, taken)
  PROVE  EndsAsChosen(P \o Chosen(R, Ad, taken), old, SaidOf(R, Ad, taken))
<1>0. PICK L : L = P \o Chosen(R, Ad, taken)
  OBVIOUS
<1> SUFFICES EndsAsChosen(L, old, SaidOf(R, Ad, taken))
  BY <1>0
<1> USE DEF EndsAsChosen
<1>1. /\ old \in Seq(LineRec) /\ AreLines(old) /\ new \in Seq(LineRec) /\ AreLines(new)
      /\ P \in Seq(LineRec) /\ R \in Seq(LineRec) /\ Ad \in Seq(LineRec) /\ e \in Nat /\ g \in Nat
      /\ e + Len(R) = Len(old) /\ g + Len(Ad) = Len(new)
      /\ R # <<>> => R[Len(R)] = old[Len(old)]
      /\ Ad # <<>> => Ad[Len(Ad)] = new[Len(new)]
  BY DEF AtTheEnd, EndsWhereItStayed
<1>2. /\ P = <<>> => e = 0 /\ g = 0
      /\ P # <<>> => e \in 1..Len(old) /\ g \in 1..Len(new) /\ P[Len(P)] = old[e] /\ P[Len(P)] = new[g]
      /\ taken => R # <<>> \/ Ad # <<>>
  BY DEF AtTheEnd, EndsWhereItStayed
<1>3. PICK c : c = Chosen(R, Ad, taken)
  OBVIOUS
<1>4. (c = IF taken THEN Ad ELSE R) /\ c \in Seq(LineRec) /\ L = P \o c
  BY <1>0, <1>1, <1>3 DEF Chosen
<1>5. /\ L \in Seq(LineRec) /\ (c = <<>> => L = P)
      /\ c # <<>> => L # <<>> /\ L[Len(L)] = c[Len(c)]
  <2>1. P \in Seq(LineRec) /\ c \in Seq(LineRec)
    BY <1>1, <1>4
  <2> QED BY ONLY <2>1, <1>4, LastOfTwo
<1>6. /\ Len(old) \in Nat /\ Len(new) \in Nat /\ Len(R) \in Nat /\ Len(Ad) \in Nat
      /\ (R = <<>> <=> Len(R) = 0) /\ (Ad = <<>> <=> Len(Ad) = 0)
      /\ (old = <<>> <=> Len(old) = 0) /\ (new = <<>> <=> Len(new) = 0)
  BY <1>1, EmptySeq
<1>7. PICK t \in Seq(Line) : t = Texts(L)
  BY <1>5, TextsType
<1>8. Content(L) = t \o Ending(L)
  BY <1>5, <1>7, ContentIs
<1>9. /\ Unended(R) <=> R # <<>> /\ ~old[Len(old)].nl
      /\ Unended(Ad) <=> Ad # <<>> /\ ~new[Len(new)].nl
  BY <1>1 DEF Unended, Last
<1>10. /\ t \o <<Blank>> # <<>> /\ Last(t \o <<Blank>>) = Blank /\ Front(t \o <<Blank>>) = t
       /\ Append(t, Blank) = t \o <<Blank>> /\ t \o <<>> = t
  BY EndTakenOff
<1>11. Content(L) # <<>>
  <2>1. CASE Ending(L) = <<Blank>>
    BY <1>8, <1>10, <2>1
  <2>2. CASE Ending(L) # <<Blank>>
    <3>1. L # <<>> /\ Ending(L) = <<>>
      BY <2>2 DEF Ending
    <3>2. Len(t) = Len(L) /\ Len(L) # 0
      BY <1>5, <1>7, <3>1, TextsType, EmptySeq
    <3>3. t # <<>>
      BY <3>2, EmptySeq
    <3> QED BY <1>8, <1>10, <3>1, <3>3
  <2> QED BY <2>1, <2>2
\* The line that stays before lines of either side ends with a newline.
<1>12. /\ P # <<>> /\ R # <<>> => P[Len(P)].nl
       /\ P # <<>> /\ Ad # <<>> => P[Len(P)].nl
  <2>1. P # <<>> /\ R # <<>> => e < Len(old)
    BY <1>1, <1>6
  <2>2. P # <<>> /\ Ad # <<>> => g < Len(new)
    BY <1>1, <1>6
  <2>3. \A i \in 1..Len(old) : i < Len(old) => old[i].nl
    BY <1>1 DEF AreLines
  <2>4. \A i \in 1..Len(new) : i < Len(new) => new[i].nl
    BY <1>1 DEF AreLines
  <2> QED BY <1>2, <2>1, <2>2, <2>3, <2>4
<1>13. CASE ~taken
  <2>1. c = R /\ SaidOf(R, Ad, taken) = {}
    BY <1>4, <1>13 DEF SaidOf
  <2>2. Ending(L) = Ending(old)
    <3>1. CASE R # <<>>
      <4>1. Len(old) # 0
        <5>1. Len(R) # 0 /\ Len(R) \in Nat /\ e \in Nat /\ e + Len(R) = Len(old)
          BY <1>1, <1>6, <3>1
        <5> QED BY <5>1
      <4>2. L # <<>> /\ L[Len(L)] = old[Len(old)] /\ old # <<>>
        BY <1>1, <1>5, <1>6, <2>1, <3>1, <4>1
      <4> QED BY <4>2 DEF Ending
    <3>2. CASE R = <<>> /\ P = <<>>
      <4>1. L = <<>> /\ old = <<>>
        BY <1>1, <1>2, <1>5, <1>6, <2>1, <3>2
      <4> QED BY <4>1 DEF Ending
    <3>3. CASE R = <<>> /\ P # <<>>
      <4>0. Len(R) = 0 /\ e + Len(R) = Len(old) /\ e \in Nat /\ e \in 1..Len(old) /\ P[Len(P)] = old[e]
        BY <1>1, <1>2, <1>6, <3>3
      <4>1. e = Len(old) /\ e \in 1..Len(old) /\ P[Len(P)] = old[e] /\ L = P
        BY <1>5, <2>1, <3>3, <4>0
      <4>2. L # <<>> /\ L[Len(L)] = old[Len(old)] /\ old # <<>>
        BY <1>6, <3>3, <4>1
      <4> QED BY <4>2 DEF Ending
    <3> QED BY <3>1, <3>2, <3>3
  <2>3. WithEnd(Texts(L) \o Ending(old), {}) = Texts(L) \o Ending(old)
    BY DEF WithEnd
  <2> QED BY <1>5, <1>7, <1>8, <1>11, <2>1, <2>2, <2>3
<1>14. CASE taken /\ Unended(Ad)
  <2>1. c = Ad /\ SaidOf(R, Ad, taken) = {TRUE}
    BY <1>4, <1>14 DEF SaidOf
  <2>2. Ad # <<>> /\ ~new[Len(new)].nl /\ new # <<>>
    BY <1>1, <1>6, <1>9, <1>14
  <2>3. L # <<>> /\ L[Len(L)] = new[Len(new)] /\ L[Len(L)].text # Blank
    BY <1>1, <1>5, <2>1, <2>2 DEF AreLines
  <2>4. Ending(L) = <<>>
    BY <2>2, <2>3 DEF Ending
  <2>5. Last(t) # Blank
    <3>1. Len(t) = Len(L) /\ Len(L) \in 1..Len(L) /\ \A i \in 1..Len(L) : t[i] = L[i].text
      <4>1. Len(t) = Len(L) /\ \A i \in 1..Len(L) : t[i] = L[i].text
        BY <1>5, <1>7, TextsType
      <4>2. Len(L) \in Nat /\ Len(L) # 0
        BY <1>5, <2>3, EmptySeq
      <4> QED BY <4>1, <4>2
    <3>2. t[Len(t)] = L[Len(L)].text
      BY <3>1
    <3> QED BY <2>3, <3>2 DEF Last
  <2>6. Ending(old) = <<Blank>> \/ Ending(old) = <<>>
    BY DEF Ending
  <2>7. WithEnd(t \o <<Blank>>, {TRUE}) = t
    BY <1>10 DEF WithEnd
  <2>8. WithEnd(t, {TRUE}) = t
    BY <2>5 DEF WithEnd
  <2> QED BY <1>5, <1>7, <1>8, <1>10, <1>11, <2>1, <2>4, <2>6, <2>7, <2>8
<1>15. CASE taken /\ ~Unended(Ad)
  <2>1. c = Ad
    BY <1>4, <1>15
  <2>2. Ending(L) = <<Blank>>
    <3>1. CASE Ad # <<>>
      <4>1. L[Len(L)].nl
        BY <1>1, <1>5, <1>9, <1>15, <2>1, <3>1
      <4> QED BY <4>1 DEF Ending
    <3>2. CASE Ad = <<>>
      <4>1. L = P /\ R # <<>>
        BY <1>2, <1>5, <1>15, <2>1, <3>2
      <4> QED BY <1>12, <4>1 DEF Ending
    <3> QED BY <3>1, <3>2
  <2>3. CASE Unended(R)
    <3>1. SaidOf(R, Ad, taken) = {FALSE}
      <4>1. Unended(Ad) = FALSE
        BY <1>15 DEF Unended
      <4> QED BY <1>15, <2>3, <4>1 DEF SaidOf
    <3>2. Ending(old) = <<>>
      <4>1. R # <<>> /\ ~old[Len(old)].nl
        BY <1>9, <2>3
      <4>2. old # <<>>
        BY <1>1, <1>6, <4>1
      <4> QED BY <4>1, <4>2 DEF Ending
    <3>3. WithEnd(t, {FALSE}) = Append(t, Blank)
      BY DEF WithEnd
    <3> QED BY <1>5, <1>7, <1>8, <1>10, <1>11, <2>2, <3>1, <3>2, <3>3
  <2>4. CASE ~Unended(R)
    <3>1. SaidOf(R, Ad, taken) = {}
      BY <1>15, <2>4 DEF SaidOf
    <3>2. Ending(old) = <<Blank>>
      <4>1. CASE R # <<>>
        BY <1>9, <2>4, <4>1 DEF Ending
      <4>2. CASE R = <<>> /\ P = <<>>
        <5>1. old = <<>>
          BY <1>1, <1>2, <1>6, <4>2
        <5> QED BY <5>1 DEF Ending
      <4>3. CASE R = <<>> /\ P # <<>>
        <5>1. Ad # <<>> /\ P[Len(P)] = old[Len(old)]
          BY <1>1, <1>2, <1>6, <1>15, <4>3
        <5> QED BY <1>12, <4>3, <5>1 DEF Ending
      <4> QED BY <4>1, <4>2, <4>3
    <3>3. WithEnd(Texts(L) \o Ending(old), {}) = Texts(L) \o Ending(old)
      BY DEF WithEnd
    <3> QED BY <1>5, <1>7, <1>8, <1>11, <2>2, <3>1, <3>2, <3>3
  <2> QED BY <2>3, <2>4
<1> QED BY <1>13, <1>14, <1>15
----------------------------------------------------------------------------
(* The applier is exact *)

\* Whichever hunks of a text are applied, the content is what those lines read.
LEMMA AppliedIsPart ==
  ASSUME NEW old, NEW new, NEW runs, NEW eo, NEW en, NEW A, Given(old, new, runs, eo, en, A),
         NEW base, Content(old) = IF base = Absent THEN Empty ELSE base
  PROVE  ApplyHunks(base, HunksOf(runs, A)) = PartOf(runs, A)
<1>1. EachIsChosen(runs, A, Choice(runs, A))
  BY ChoiceType
<1>2. old \in Seq(LineRec) /\ new \in Seq(LineRec) /\ AreLines(old) /\ AreLines(new) /\ A \subseteq 1..Len(runs)
  BY DEF Given
<1>3. PICK m : m = Len(runs)
  OBVIOUS
<1>4. m \in Nat \ {0} /\ m \in 1..m /\ m - 1 \in 0..(m - 1) /\ m \in 0..m
  BY <1>1, <1>3 DEF EachIsChosen
<1>5. PICK flat : Flattens(flat, Choice(runs, A), LineRec)
  <2>1. Choice(runs, A) \in Seq(Seq(LineRec)) /\ Len(Choice(runs, A)) # 0
    BY <1>1 DEF EachIsChosen
  <2> QED BY <2>1, FlattenIsAPass
<1>6. PICK M, at : InPlace(Ranked(HunksOf(runs, A), Earlier(HunksOf(runs, A))), at, M, runs, A)
  BY HunksInPlace
<1>7. PICK order : order = Ranked(HunksOf(runs, A), Earlier(HunksOf(runs, A)))
  OBVIOUS
<1>8. InPlace(order, at, M, runs, A)
  BY <1>6, <1>7
<1>9. PICK lines : lines = Content(old)
  OBVIOUS
<1>10. lines \in Seq(Line) /\ Len(old) <= Len(lines) /\ Len(lines) \in Nat /\ Len(old) \in Nat
  <2>1. 0 \in 0..Len(old) /\ 0 \in Nat
    BY <1>2
  <2>2. lines \in Seq(Line) /\ Len(old) <= Len(lines)
    BY ONLY <1>2, <1>9, <2>1, WordsBetween
  <2> QED BY <1>2, <2>2
<1>11. ASSUME NEW n \in 1..M PROVE order[n] \in HunkRec /\ Start(order[n]) \in 0..Len(lines)
  <2>1. order[n] = HunkAt(runs, at[n]) /\ at[n] \in A
    BY <1>8 DEF InPlace
  <2>2. PICK k \in 1..Len(runs) : k = at[n]
    BY <1>2, <2>1
  <2>3. PICK h : h = HunkAt(runs, k)
    OBVIOUS
  <2>4. h \in HunkRec /\ Start(h) = eo[k - 1]
    BY <2>3, HunkStarts
  <2>5. RunLies(old, new, eo, en, runs[k], k, Len(runs))
    BY RunHas
  <2>6. eo[k - 1] \in Nat /\ eo[k] \in Nat /\ eo[k - 1] <= eo[k] /\ eo[k] <= Len(old)
    BY <2>5 DEF RunLies
  <2>7. PICK e, f : e = eo[k - 1] /\ f = eo[k]
    OBVIOUS
  <2>8. e \in 0..Len(lines)
    BY <1>10, <2>6, <2>7
  <2> QED BY <2>1, <2>2, <2>3, <2>4, <2>7, <2>8
<1>12. PICK done : Passes(done, lines, order, M) /\ ApplyHunks(base, HunksOf(runs, A)) = Finished(lines, done[M])
  <2>1. PICK hunks : hunks = HunksOf(runs, A)
    OBVIOUS
  <2>2. M \in Nat /\ M = Cardinality(hunks)
    BY <1>8, <2>1 DEF InPlace
  <2>3. order = Ranked(hunks, {p \in hunks \X hunks : Before(p[1], p[2])})
    BY <1>7, <2>1 DEF Earlier
  <2>4. lines \in Seq(Line) /\ lines = IF base = Absent THEN Empty ELSE base
    BY <1>9, <1>10
  <2>5. \E done : Passes(done, lines, order, M) /\ ApplyHunks(base, hunks) = Finished(lines, done[M])
    <3>1. Fit(base, hunks, lines, order, M)
      BY <1>11, <2>2, <2>3, <2>4 DEF Fit
    <3> QED BY <3>1, ApplyIsAPass
  <2> QED BY <2>1, <2>5
<1>13. AtWork(old, new, runs, eo, en, A, flat, lines, order, at, M, done)
  BY <1>5, <1>8, <1>9, <1>12 DEF AtWork
<1>14. Written(runs, eo, A, flat, lines, at, M, done, m, M)
  BY <1>3, <1>13, AllWritten
<1>15. PICK d : d = done[M]
  OBVIOUS
<1>16. PICK L : L = flat[m]
  OBVIOUS
<1>17. eo[m] = Len(old)
  BY <1>3 DEF Given, Lined
<1>18. /\ d.pos <= Len(old) /\ d.out \o SubSeq(lines, d.pos + 1, Len(old)) = Texts(L)
       /\ d.eof = EndSaid(runs, A, m)
  BY <1>14, <1>15, <1>16, <1>17 DEF Written
<1>19. d.pos \in Nat /\ d.out \in Seq(Line)
  <2>1. M \in 0..M
    BY <1>8 DEF InPlace
  <2>2. d \in Pass
    BY <1>12, <1>15, <2>1 DEF Passes
  <2> QED BY <2>2 DEF Pass
<1>20. d.out \o SubSeq(lines, d.pos + 1, Len(lines)) = Texts(L) \o Ending(old)
  <2>1. PICK a, out : a = d.pos /\ out = d.out
    OBVIOUS
  <2>2. a \in Nat /\ out \in Seq(Line) /\ a <= Len(old) /\ out \o SubSeq(lines, a + 1, Len(old)) = Texts(L)
    BY <1>18, <1>19, <2>1
  <2>3. SubSeq(lines, a + 1, Len(old)) \o SubSeq(lines, Len(old) + 1, Len(lines)) = SubSeq(lines, a + 1, Len(lines))
    <3>1. a + 1 \in 1..(Len(lines) + 1) /\ Len(old) \in ((a + 1) - 1)..Len(lines) /\ Len(lines) \in Len(old)..Len(lines)
      BY <1>10, <2>2
    <3> QED BY <1>10, <3>1, ConcatAdjacentSubSeq
  <2>4. SubSeq(lines, Len(old) + 1, Len(lines)) = Ending(old) /\ Ending(old) \in Seq(Line)
    BY <1>2, <1>9, EndingIsTheRest
  <2>5. SubSeq(lines, a + 1, Len(old)) \in Seq(Line)
    <3>1. a + 1 \in Int /\ Len(old) \in Int /\ \A i \in (a + 1)..Len(old) : lines[i] \in Line
      BY <1>10, <2>2
    <3> QED BY <3>1, SubSeqProperties
  <2>6. PICK x \in Seq(Line), y \in Seq(Line) : x = SubSeq(lines, a + 1, Len(old)) /\ y = Ending(old)
    BY <2>4, <2>5
  <2>7. out \o (x \o y) = (out \o x) \o y
    <3>1. out \in Seq(Line) /\ x \in Seq(Line) /\ y \in Seq(Line)
      BY <2>2
    <3> QED BY ONLY <3>1, ConcatAssociative
  <2> QED BY <2>1, <2>2, <2>3, <2>4, <2>6, <2>7
<1>21. PICK P, e, g, R, Ad : P = flat[m - 1] /\ e = eo[m - 1] /\ g = en[m - 1] /\ R = runs[m].removed /\ Ad = runs[m].added
  OBVIOUS
<1>22. PICK taken \in BOOLEAN : taken <=> m \in A
  OBVIOUS
<1>23. RunLies(old, new, eo, en, runs[m], m, m)
  <2>1. m \in 1..Len(runs)
    BY <1>3, <1>4
  <2> QED BY <1>3, <2>1, RunHas
<1>24. /\ e \in Nat /\ g \in Nat /\ R \in Seq(LineRec) /\ Ad \in Seq(LineRec) /\ runs[m].kept = <<>>
       /\ e + Len(R) = Len(old) /\ g + Len(Ad) = Len(new)
       /\ \A i \in 1..Len(R) : R[i] = old[e + i]
       /\ \A i \in 1..Len(Ad) : Ad[i] = new[g + i]
  <2>1. /\ e \in Nat /\ g \in Nat /\ R \in Seq(LineRec) /\ Ad \in Seq(LineRec) /\ runs[m].kept = <<>>
        /\ eo[m] = Len(old) /\ en[m] = Len(new)
        /\ \A i \in 1..Len(R) : R[i] = old[e + i]
        /\ \A i \in 1..Len(Ad) : Ad[i] = new[g + i]
    BY <1>21, <1>23 DEF RunLies
  <2>2. Len(R) + Len(runs[m].kept) = eo[m] - e /\ Len(Ad) + Len(runs[m].kept) = en[m] - g
    BY <1>21, <1>23 DEF RunLies
  <2>3. PICK n : n = Len(runs[m].kept)
    OBVIOUS
  <2>4. n = 0
    BY <2>1, <2>3
  <2>5. Len(R) + n = Len(old) - e /\ Len(Ad) + n = Len(new) - g
    BY <2>1, <2>2, <2>3
  <2>6. Len(R) \in Nat /\ Len(Ad) \in Nat /\ Len(old) \in Nat /\ Len(new) \in Nat
    BY <1>2, <2>1
  <2> QED BY <2>1, <2>4, <2>5, <2>6
<1>25. EndsWhereItStayed(P, old, new, e, g)
  <2>1. m - 1 \in 0..(Len(runs) - 1)
    BY <1>3, <1>4
  <2> QED BY <1>13, <1>21, <2>1, LastThatStays
<1>26. AtTheEnd(old, new, P, e, g, R, Ad, taken)
  <2>1. R # <<>> => R[Len(R)] = old[Len(old)]
    <3>1. R # <<>> => Len(R) \in 1..Len(R)
      BY <1>24, EmptySeq
    <3> QED BY <1>24, <3>1
  <2>2. Ad # <<>> => Ad[Len(Ad)] = new[Len(new)]
    <3>1. Ad # <<>> => Len(Ad) \in 1..Len(Ad)
      BY <1>24, EmptySeq
    <3> QED BY <1>24, <3>1
  <2>3. taken => R # <<>> \/ Ad # <<>>
    BY <1>21, <1>22 DEF Given, IsHunk
  <2> QED BY <1>2, <1>24, <1>25, <2>1, <2>2, <2>3 DEF AtTheEnd
<1>27. L = P \o Chosen(R, Ad, taken)
  <2>1. flat[m] = flat[m - 1] \o Choice(runs, A)[m]
    BY <1>1, <1>3, <1>4, <1>5 DEF Flattens, EachIsChosen
  <2>2. Choice(runs, A)[m] = Chosen(R, Ad, taken) \o <<>>
    BY <1>1, <1>3, <1>4, <1>21, <1>22, <1>24 DEF EachIsChosen, Chosen
  <2>3. Chosen(R, Ad, taken) \in Seq(LineRec)
    BY <1>24 DEF Chosen
  <2>4. Chosen(R, Ad, taken) \o <<>> = Chosen(R, Ad, taken)
    BY <2>3, ConcatEmptySeq
  <2> QED BY <1>16, <1>21, <2>1, <2>2, <2>4
<1>28. EndSaid(runs, A, m) = SaidOf(R, Ad, taken)
  BY <1>3, <1>21, <1>22 DEF EndSaid, SaidOf
<1>29. WithEnd(Texts(L) \o Ending(old), SaidOf(R, Ad, taken)) = Content(L) /\ Content(L) # <<>>
  <2>1. taken \in BOOLEAN
    BY <1>22
  <2>2. EndsAsChosen(P \o Chosen(R, Ad, taken), old, SaidOf(R, Ad, taken))
    BY <1>26, <2>1, EndIsRight
  <2> QED BY <1>27, <2>2 DEF EndsAsChosen
<1>30. Finished(lines, d) = Content(L)
  BY <1>18, <1>20, <1>28, <1>29 DEF Finished
<1>31. PartOf(runs, A) = Content(FlattenSeq(Choice(runs, A)))
  BY DEF PartOf, Choice
<1>32. FlattenSeq(Choice(runs, A)) = L
  BY <1>1, <1>3, <1>5, <1>16 DEF Flattens, EachIsChosen
<1> QED BY <1>12, <1>15, <1>30, <1>31, <1>32

\* All the hunks together make of a text what it reads at the head.
LEMMA AllOfItIsTheHead ==
  ASSUME NEW old, NEW new, NEW runs, NEW eo, NEW en, NEW A, Given(old, new, runs, eo, en, A),
         \A k \in 1..Len(runs) : IsHunk(runs[k]) => k \in A
  PROVE  PartOf(runs, A) = Content(new)
<1>1. EachIsChosen(runs, A, Choice(runs, A))
  BY ChoiceType
<1>2. new \in Seq(LineRec) /\ Len(new) \in Nat
  BY DEF Given
<1>3. PICK m : m = Len(runs)
  OBVIOUS
<1>4. m \in Nat \ {0} /\ m \in 0..m /\ m \in Nat
  BY <1>1, <1>3 DEF EachIsChosen
<1>5. PICK flat : Flattens(flat, Choice(runs, A), LineRec)
  <2>1. Choice(runs, A) \in Seq(Seq(LineRec)) /\ Len(Choice(runs, A)) # 0
    BY <1>1 DEF EachIsChosen
  <2> QED BY <2>1, FlattenIsAPass
<1>6. en[0] = 0 /\ en[m] = Len(new)
  BY <1>3 DEF Given, Lined
<1> DEFINE T == {k \in 0..m : flat[k] = SubSeq(new, 1, en[k])}
<1>7. 0 \in T
  <2>1. flat[0] = <<>>
    BY <1>5 DEF Flattens
  <2>2. SubSeq(new, 1, 0) = <<>>
    BY SubSeqEmpty
  <2>3. flat[0] = SubSeq(new, 1, en[0])
    BY <1>6, <2>1, <2>2
  <2> QED BY <1>4, <2>3
<1>8. ASSUME NEW k \in 0..(m - 1), k \in T PROVE k + 1 \in T
  <2>1. PICK q : q = k + 1
    OBVIOUS
  <2>2. q \in 1..m /\ q - 1 = k /\ q \in 0..m /\ q \in 1..Len(runs)
    BY <1>3, <1>4, <2>1
  <2>3. RunLies(old, new, eo, en, runs[q], q, Len(runs))
    BY <2>2, RunHas
  <2>4. PICK c, d, r : c = en[k] /\ d = en[q] /\ r = runs[q]
    OBVIOUS
  <2>5. c \in Nat /\ d \in Nat /\ c <= d /\ d <= Len(new) /\ r.added \o r.kept = SubSeq(new, c + 1, d)
    BY <2>2, <2>3, <2>4 DEF RunLies
  <2>6. Choice(runs, A)[q] = r.added \o r.kept
    <3>1. Choice(runs, A)[q] = (IF q \in A THEN r.added ELSE r.removed) \o r.kept
      BY <1>1, <2>2, <2>4 DEF EachIsChosen
    <3>2. q \notin A => r.added = r.removed
      BY <2>2, <2>4 DEF IsHunk
    <3> QED BY <3>1, <3>2
  <2>7. flat[q] = flat[k] \o Choice(runs, A)[q]
    BY <1>1, <1>5, <2>2 DEF Flattens, EachIsChosen
  <2>8. flat[k] = SubSeq(new, 1, c)
    BY <1>8, <2>4
  <2>9. SubSeq(new, 1, c) \o SubSeq(new, c + 1, d) = SubSeq(new, 1, d)
    <3>1. 1 \in 1..(Len(new) + 1) /\ c \in (1 - 1)..Len(new) /\ d \in c..Len(new)
      BY <1>2, <2>5
    <3> QED BY <1>2, <3>1, ConcatAdjacentSubSeq
  <2> QED BY <2>1, <2>2, <2>4, <2>5, <2>6, <2>7, <2>8, <2>9
<1>9. \A k \in 0..m : k \in T
  <2> HIDE DEF T
  <2> QED BY <1>4, <1>7, <1>8, ByInduction
<1>10. flat[m] = SubSeq(new, 1, Len(new))
  BY <1>4, <1>6, <1>9
<1>11. SubSeq(new, 1, Len(new)) = new
  BY <1>2, SubSeqFull
<1>12. FlattenSeq(Choice(runs, A)) = flat[m]
  BY <1>1, <1>3, <1>5 DEF Flattens, EachIsChosen
<1>13. PartOf(runs, A) = Content(FlattenSeq(Choice(runs, A)))
  BY DEF PartOf, Choice
<1> QED BY <1>10, <1>11, <1>12, <1>13
\* Of one change, the applier makes what the lines of any set of its hunks read, and all
\* of them read what the head does.
ExactOn(c) ==
  /\ \A hunks \in SUBSET Hunks(c) :
       ApplyHunks(ContentOf(c.base), {HunkOf(c.runs[k]) : k \in hunks}) = PartOf(c.runs, hunks)
  /\ PartOf(c.runs, Hunks(c)) = IF Deleted(c) THEN Empty ELSE c.head.content

PlainText(c) == IsText(c.base) /\ IsText(c.head) /\ ~TypeChange(c)

\* A change is an edit git reported.
IsAChange(c) ==
  /\ c.base \in Entry \cup {Absent} /\ c.head \in Entry \cup {Absent}
  /\ c.runs \in RunsBetween(c.base, c.head)

\* The text of an entry is its content in lines, and nothing where there is no entry.
LEMMA TextIsItsLines ==
  ASSUME NEW entry \in Entry \cup {Absent}, IsText(entry)
  PROVE  /\ TextOf(entry) \in Seq(LineRec) /\ AreLines(TextOf(entry))
         /\ Content(TextOf(entry)) = IF entry = Absent THEN Empty ELSE entry.content
<1>1. CASE entry = Absent
  <2>1. TextOf(entry) = <<>>
    BY <1>1 DEF TextOf, Kind
  <2>2. <<>> \in Seq(LineRec) /\ Len(<<>>) = 0
    OBVIOUS
  <2>3. AreLines(<<>>)
    BY <2>2 DEF AreLines
  <2>4. Ending(<<>>) = <<Blank>>
    BY DEF Ending
  <2>5. Content(<<>>) = Texts(<<>>) \o <<Blank>>
    BY <2>2, <2>4, ContentIs
  <2>6. Texts(<<>>) = <<>>
    <3>1. Texts(<<>>) \in Seq(Line) /\ Len(Texts(<<>>)) = 0
      BY <2>2, TextsType
    <3> QED BY <3>1, EmptySeq
  <2>7. <<>> \o <<Blank>> = <<Blank>>
    <3>1. <<Blank>> \in Seq(Line)
      BY BlankIsALine
    <3> QED BY <3>1, ConcatEmptySeq
  <2> QED BY <1>1, <2>1, <2>2, <2>3, <2>5, <2>6, <2>7 DEF Empty
<1>2. CASE entry # Absent
  <2>1. entry.content # <<>> /\ entry.content \in Seq(ToSet(entry.content))
    BY <1>2, EntriesAreEntries
  <2>2. ToSet(entry.content) \subseteq Line
    BY <1>2 DEF Line
  <2>3. PICK content \in Seq(Line) : content = entry.content
    BY <2>1, <2>2, SeqMonotonic
  <2>4. Lines(content) \in Seq(LineRec) /\ AreLines(Lines(content)) /\ Content(Lines(content)) = content
    BY <2>1, <2>3, LinesOfContent
  <2>5. TextOf(entry) = Lines(entry.content)
    BY <1>2 DEF TextOf, Kind, IsText
  <2> QED BY <1>2, <2>3, <2>4, <2>5
<1> QED BY <1>1, <1>2

\* The applier is exact on every text that stays text, whatever its lines, whichever
\* alignment git reports of it and whichever of its hunks are applied.
THEOREM ApplierIsExact == ASSUME NEW c, IsAChange(c), PlainText(c) PROVE ExactOn(c)
<1>1. PICK old, new : old = TextOf(c.base) /\ new = TextOf(c.head)
  OBVIOUS
<1>2. PICK base, runs : base = ContentOf(c.base) /\ runs = c.runs
  OBVIOUS
<1>3. c.base \in Entry \cup {Absent} /\ c.head \in Entry \cup {Absent} /\ IsText(c.base) /\ IsText(c.head)
  BY DEF IsAChange, PlainText
<1>4. /\ old \in Seq(LineRec) /\ AreLines(old) /\ new \in Seq(LineRec) /\ AreLines(new)
      /\ Content(old) = IF c.base = Absent THEN Empty ELSE c.base.content
      /\ Content(new) = IF Deleted(c) THEN Empty ELSE c.head.content
  BY <1>1, <1>3, TextIsItsLines DEF Deleted
<1>5. Content(old) = IF base = Absent THEN Empty ELSE base
  <2>1. CASE c.base = Absent
    BY <1>2, <1>4, <2>1 DEF ContentOf
  <2>2. CASE c.base # Absent
    <3>1. base = c.base.content
      BY <1>2, <2>2 DEF ContentOf
    <3>2. base # Absent
      BY <1>3, <2>2, <3>1, EntriesAreEntries
    <3> QED BY <1>4, <2>2, <3>1, <3>2
  <2> QED BY <2>1, <2>2
<1>6. runs \in {Runs(old, new, stay) : stay \in Alignments(old, new)}
  <2>1. ~TypeChange([base |-> c.base, head |-> c.head]) /\ ~IsBinary(c.base) /\ ~IsBinary(c.head)
    BY DEF PlainText, TypeChange, IsText
  <2>2. c.runs \in Report(c.base, c.head)
    BY <2>1 DEF IsAChange, RunsBetween
  <2> QED BY <1>1, <1>2, <2>2 DEF Report
<1>7. PICK eo, en : Lined(runs, old, new, eo, en)
  BY <1>4, <1>6, ReportIsLined
<1>8. ASSUME NEW A \in SUBSET Hunks(c) PROVE Given(old, new, runs, eo, en, A)
  <2>1. DOMAIN runs = 1..Len(runs)
    BY <1>7 DEF Lined
  <2> QED BY <1>2, <1>4, <1>7, <2>1 DEF Given, Hunks
<1>9. ASSUME NEW A \in SUBSET Hunks(c)
      PROVE  ApplyHunks(ContentOf(c.base), {HunkOf(c.runs[k]) : k \in A}) = PartOf(c.runs, A)
  <2>1. Given(old, new, runs, eo, en, A)
    BY <1>8
  <2>2. ApplyHunks(base, HunksOf(runs, A)) = PartOf(runs, A)
    BY <1>5, <2>1, AppliedIsPart
  <2> QED BY <1>2, <2>2 DEF HunksOf, HunkAt
<1>10. PartOf(c.runs, Hunks(c)) = IF Deleted(c) THEN Empty ELSE c.head.content
  <2>1. PICK A \in SUBSET Hunks(c) : A = Hunks(c)
    OBVIOUS
  <2>2. Given(old, new, runs, eo, en, A)
    BY <1>8
  <2>3. \A k \in 1..Len(runs) : IsHunk(runs[k]) => k \in A
    <3>1. DOMAIN runs = 1..Len(runs)
      BY <1>7 DEF Lined
    <3> QED BY <1>2, <2>1, <3>1 DEF Hunks
  <2>4. PartOf(runs, A) = Content(new)
    BY <2>2, <2>3, AllOfItIsTheHead
  <2> QED BY <1>2, <1>4, <2>1, <2>4
<1> QED BY <1>9, <1>10 DEF ExactOn

----------------------------------------------------------------------------
(* What is staged *)

\* What is staged is what the rules say of the hunks carried so far, in whichever
\* commits they came, ...
Staged ==
  /\ tree = [p \in Path |-> tree[p]]
  /\ \A p \in Path :
       /\ IsAChange(change[p])
       /\ applied[p] \subseteq Hunks(change[p])
       /\ applied[p] # {} => tree[p] = CumulativeState(change[p], applied[p])
       /\ meta /\ p \in Metas => tree[p] = ZeroHunkState(change[p])

\* ... and the ref waits for the end.
RebuildInv == Staged /\ LandedIsHead

LEMMA RebuildStarts == Init => RebuildInv
<1> SUFFICES ASSUME Init PROVE RebuildInv
  OBVIOUS
<1>1. PICK e \in Edits : change \in {c \in [Path -> UNION {Changes(e[p].base, e[p].head) : p \in Path}] :
                                     \A p \in Path : c[p] \in Changes(e[p].base, e[p].head)}
  BY DEF Init
<1>2. ASSUME NEW p \in Path PROVE IsAChange(change[p])
  <2>1. change[p] \in Changes(e[p].base, e[p].head)
    BY <1>1
  <2>2. PICK runs \in RunsBetween(e[p].base, e[p].head) :
          change[p] = [base |-> e[p].base, head |-> e[p].head, runs |-> runs]
    BY <2>1 DEF Changes
  <2> QED
    BY <2>2, EditsAreEdits DEF IsAChange
<1>3. Staged
  BY <1>2 DEF Init, Staged
<1>4. LandedIsHead
  BY DEF Init, LandedIsHead
<1> QED
  BY <1>3, <1>4 DEF RebuildInv

\* What depends on the change alone is as it was.
LEMMA ChangeStays ==
  ASSUME change' = change
  PROVE  /\ HeadTree' = HeadTree /\ Metas' = Metas
         /\ \A p \in Path : change[p]' = change[p]
  BY DEF HeadTree, Metas

LEMMA EmitKeepsStaged == ASSUME Staged, Emit PROVE Staged'
<1>1. PICK now \in [Path -> UNION {SUBSET Hunks(change[p]) : p \in Left}] :
        /\ \A p \in Path : now[p] \subseteq Hunks(change[p]) \ applied[p]
        /\ applied' = [p \in Path |-> applied[p] \cup now[p]]
        /\ tree' = [p \in Path |-> IF p \in {q \in Path : now[q] # {}}
                                   THEN CumulativeState(change[p], applied[p] \cup now[p]) ELSE tree[p]]
  BY DEF Emit
<1>2. change' = change /\ meta' = meta
  BY DEF Emit
<1>3. ASSUME NEW p \in Path
      PROVE  /\ IsAChange(change[p]') /\ applied'[p] \subseteq Hunks(change[p]')
             /\ applied'[p] # {} => tree'[p] = CumulativeState(change[p]', applied'[p])
             /\ meta' /\ p \in Metas' => tree'[p] = ZeroHunkState(change[p]')
  <2>1. IsAChange(change[p]') /\ applied'[p] = applied[p] \cup now[p] /\ applied[p] \subseteq Hunks(change[p])
    BY <1>1, <1>2 DEF Staged
  <2>2. CASE now[p] = {}
    BY <1>1, <1>2, <2>1, <2>2, ChangeStays DEF Staged
  <2>3. CASE now[p] # {}
    <3>1. tree'[p] = CumulativeState(change[p], applied'[p])
      BY <1>1, <2>1, <2>3
    <3>2. p \notin Metas'
      BY <1>1, <1>2, <2>3, ChangeStays DEF Metas
    <3> QED
      BY <1>1, <1>2, <2>1, <3>1, <3>2
  <2> QED
    BY <2>2, <2>3
<1>4. tree' = [p \in Path |-> tree'[p]]
  BY <1>1
<1> QED
  BY <1>2, <1>3, <1>4 DEF Staged

LEMMA EmitMetaKeepsStaged == ASSUME Staged, EmitMeta PROVE Staged'
<1>1. /\ tree' = [p \in Path |-> IF p \in Metas THEN ZeroHunkState(change[p]) ELSE tree[p]]
      /\ meta' = TRUE /\ change' = change /\ applied' = applied
  BY DEF EmitMeta
<1>2. ASSUME NEW p \in Path
      PROVE  /\ applied[p] # {} => tree'[p] = CumulativeState(change[p], applied[p])
             /\ p \in Metas => tree'[p] = ZeroHunkState(change[p])
  <2>1. p \in Metas => applied[p] = {}
    BY DEF Staged, Metas
  <2> QED
    BY <1>1, <2>1 DEF Staged
<1>3. tree' = [p \in Path |-> tree'[p]]
  BY <1>1
<1> QED
  BY <1>1, <1>2, <1>3, ChangeStays DEF Staged

LEMMA RebuildKeeps == ASSUME RebuildInv, [Next]_vars PROVE RebuildInv'
<1> USE DEF RebuildInv
<1>1. CASE CheckFidelity \/ CheckTree \/ Miscount \/ GitFails \/ UNCHANGED vars
  <2>1. UNCHANGED <<change, applied, tree, meta, ref>> /\ (stage' = "landed" <=> stage = "landed")
    BY <1>1 DEF CheckFidelity, CheckTree, Miscount, GitFails, vars
  <2> QED
    BY <2>1 DEF Staged, LandedIsHead, HeadTree, Left, Metas
<1>2. CASE Emit
  BY <1>2, EmitKeepsStaged DEF Emit, LandedIsHead
<1>3. CASE EmitMeta
  BY <1>3, EmitMetaKeepsStaged DEF EmitMeta, LandedIsHead
<1>4. CASE Land
  BY <1>4 DEF Land, Staged, LandedIsHead, HeadTree, Left, Metas
<1> QED
  BY <1>1, <1>2, <1>3, <1>4 DEF Next

LEMMA RebuildIsInvariant == Spec => []RebuildInv
<1>1. Init => RebuildInv
  BY RebuildStarts
<1>2. RebuildInv /\ [Next]_vars => RebuildInv'
  BY RebuildKeeps
<1> QED
  BY <1>1, <1>2, PTL DEF Spec

\* The ref moves only to a tree that is the head's, with every hunk and every file without
\* hunks carried, and is untouched in every other outcome (`restructure`, invariant 3).
THEOREM RefMovesOnlyToTheHead == Spec => []LandedIsHead
  BY RebuildIsInvariant, PTL DEF RebuildInv

----------------------------------------------------------------------------
(* What the three rules make of one change *)

\* What the hunks of a text file make of it, whichever they are.
LEMMA TextIsRebuilt ==
  ASSUME NEW c, IsAChange(c), PlainText(c), NEW hunks \in SUBSET Hunks(c)
  PROVE  /\ ~Submodule(c) /\ ~Binary(c)
         /\ Rebuilt(c, hunks) = [mode |-> ModeOf(c), content |-> PartOf(c.runs, hunks)]
<1>1. ~Submodule(c) /\ ~Binary(c)
  BY DEF PlainText, IsText, Submodule, Binary
<1>2. ApplyHunks(ContentOf(c.base), {HunkOf(c.runs[k]) : k \in hunks}) = PartOf(c.runs, hunks)
  BY ApplierIsExact DEF ExactOn
<1> QED
  BY <1>1, <1>2 DEF Rebuilt

\* An entry that stays is its mode and its content.
LEMMA HeadIsRecorded ==
  ASSUME NEW c, IsAChange(c), ~Deleted(c)
  PROVE  Recorded(c.head.mode, c) = c.head
  BY EntriesAreEntries DEF IsAChange, Deleted, Recorded

\* A file that holds something else than text has no hunks.
LEMMA BinaryHasNoHunks ==
  ASSUME NEW c, IsAChange(c), ~TypeChange(c), Binary(c)
  PROVE  Hunks(c) = {}
<1>1. ~TypeChange([base |-> c.base, head |-> c.head])
  BY DEF TypeChange
<1>2. RunsBetween(c.base, c.head) = {<<>>}
  BY <1>1 DEF RunsBetween, Binary
<1>3. c.runs = <<>>
  BY <1>2 DEF IsAChange
<1> QED
  BY <1>3 DEF Hunks

\* With all its hunks a change of no other kind comes out as the head, by each rule.
LEMMA WholeChangeIsHead ==
  ASSUME NEW c, IsAChange(c), ~TypeChange(c)
  PROVE  /\ Faithful(c) /\ FinalState(c) = c.head
         /\ Hunks(c) # {} => CumulativeState(c, Hunks(c)) = c.head
<1>1. CASE PlainText(c)
  <2>1. /\ ~Submodule(c) /\ ~Binary(c)
        /\ Rebuilt(c, Hunks(c)) = [mode |-> ModeOf(c), content |-> PartOf(c.runs, Hunks(c))]
        /\ ApplyHunks(ContentOf(c.base), {HunkOf(c.runs[k]) : k \in Hunks(c)}) = PartOf(c.runs, Hunks(c))
        /\ PartOf(c.runs, Hunks(c)) = IF Deleted(c) THEN Empty ELSE c.head.content
    BY <1>1, TextIsRebuilt, ApplierIsExact DEF ExactOn
  <2>2. ~Deleted(c) => Rebuilt(c, Hunks(c)) = c.head
    BY <2>1, HeadIsRecorded DEF ModeOf, Recorded
  <2>3. Deleted(c) => c.head = Absent
    BY DEF Deleted
  <2>4. Faithful(c)
    BY <2>1 DEF Faithful
  <2> QED
    BY <2>1, <2>2, <2>3, <2>4 DEF FinalState, CumulativeState
<1>2. CASE Submodule(c)
  <2>1. ~Deleted(c) => c.head.mode = "gitlink"
    BY <1>2, EntriesAreEntries DEF Submodule, TypeChange, Kind, Deleted, IsAChange
  <2>2. ~Deleted(c) => Recorded(c.head.mode, c) = c.head /\ Recorded("gitlink", c) = c.head
    BY <2>1, HeadIsRecorded
  <2> QED
    BY <1>2, <2>2 DEF FinalState, CumulativeState, Faithful, Deleted
<1>3. CASE Binary(c) /\ ~Submodule(c)
  BY <1>3, BinaryHasNoHunks, HeadIsRecorded DEF FinalState, Faithful, Deleted
<1> QED
  BY <1>1, <1>2, <1>3 DEF PlainText, IsText, Submodule, Binary

----------------------------------------------------------------------------
(* What becomes of the commits and of the run *)

\* Every commit reads true: a text staged after any of its hunks, in any order and
\* grouping of them, is byte for byte what its lines read with those hunks taken over.
THEOREM StackReadsTrue == Spec => []CommitsReadTrue
<1>1. Staged => CommitsReadTrue
  <2> SUFFICES ASSUME Staged, NEW p \in Path, applied[p] # {}, PlainText(change[p])
               PROVE  tree[p] = IF Deleted(change[p]) /\ applied[p] = Hunks(change[p]) THEN Absent
                                ELSE [mode |-> ModeOf(change[p]), content |-> PartOf(change[p].runs, applied[p])]
    BY DEF CommitsReadTrue, PlainText
  <2>1. IsAChange(change[p]) /\ applied[p] \in SUBSET Hunks(change[p])
    BY DEF Staged
  <2>2. ~Submodule(change[p])
        /\ Rebuilt(change[p], applied[p]) = [mode |-> ModeOf(change[p]), content |-> PartOf(change[p].runs, applied[p])]
    BY <2>1, TextIsRebuilt
  <2> QED
    BY <2>2 DEF Staged, CumulativeState
<1> QED
  BY <1>1, RebuildIsInvariant, PTL DEF RebuildInv

\* No change that keeps its kind is turned down for how it was rebuilt, in whichever
\* order and company its hunks are carried: a refusal is a file that became a link, a
\* submodule or the reverse.
THEOREM NoNeedlessRefusal == Spec => []OnlyTypeChangesAreRefused
<1> DEFINE Kept == RebuildInv
           Known == Kept /\ OnlyTypeChangesAreRefused
<1>1. Init => Known
  BY RebuildStarts DEF Init, OnlyTypeChangesAreRefused
<1>2. Kept => \A p \in Path : ~TypeChange(change[p]) =>
        /\ Faithful(change[p]) /\ FinalState(change[p]) = change[p].head
        /\ Hunks(change[p]) # {} => CumulativeState(change[p], Hunks(change[p])) = change[p].head
  BY WholeChangeIsHead DEF RebuildInv, Staged
<1>3. ASSUME Kept, Land, stage' = "wrong tip" PROVE \E p \in Path : TypeChange(change[p])
  <2>1. PICK p \in Path : tree[p] # change[p].head
    BY <1>3 DEF Land, HeadTree, RebuildInv, Staged
  <2>2. CASE p \in Metas
    <3>1. tree[p] = ZeroHunkState(change[p]) /\ IsAChange(change[p])
      BY <1>3, <2>2 DEF Land, RebuildInv, Staged
    <3> QED
      BY <2>1, <3>1, HeadIsRecorded DEF ZeroHunkState, Deleted
  <2>3. CASE p \notin Metas
    <3>1. Hunks(change[p]) # {} /\ applied[p] = Hunks(change[p])
      BY <1>3, <2>3 DEF Land, Metas, Left
    <3>2. tree[p] = CumulativeState(change[p], Hunks(change[p]))
      BY <1>3, <3>1 DEF RebuildInv, Staged
    <3> QED
      BY <1>2, <1>3, <2>1, <3>1, <3>2
  <2> QED
    BY <2>2, <2>3
<1>4. ASSUME Known, [Next]_vars PROVE Known'
  <2>1. change' = change
    BY <1>4 DEF Next, vars, CheckFidelity, CheckTree, Emit, EmitMeta, Land, Miscount, GitFails
  <2>2. Kept'
    BY <1>4, RebuildKeeps
  <2>3. ASSUME stage' \in {"unfaithful", "wrong tree", "wrong tip"} PROVE \E p \in Path : TypeChange(change[p])
    <3>1. CASE stage' = stage
      BY <1>4, <2>3, <3>1 DEF OnlyTypeChangesAreRefused
    <3>2. CASE CheckFidelity
      BY <1>2, <1>4, <2>3, <3>2 DEF CheckFidelity
    <3>3. CASE CheckTree
      <4>1. [p \in Path |-> FinalState(change[p])] # HeadTree
        BY <2>3, <3>3 DEF CheckTree
      <4>2. PICK p \in Path : FinalState(change[p]) # change[p].head
        BY <4>1 DEF HeadTree
      <4> QED
        BY <1>2, <1>4, <4>2
    <3>4. CASE Land
      BY <1>3, <1>4, <2>3, <3>4 DEF Land
    <3> QED
      BY <1>4, <2>3, <3>1, <3>2, <3>3, <3>4 DEF Next, vars, Emit, EmitMeta, Miscount, GitFails
  <2> QED
    BY <2>1, <2>2, <2>3 DEF OnlyTypeChangesAreRefused
<1>5. Known => OnlyTypeChangesAreRefused
  OBVIOUS
<1> HIDE DEF Known
<1> QED
  BY <1>1, <1>4, <1>5, PTL DEF Spec

----------------------------------------------------------------------------
(* The numbers of one side down the diff *)

\* N counts the lines of a side down the diff, and a line that is on the side has its count for a number.
Counted(diff, side, N) ==
  /\ Len(diff) \in Nat /\ DOMAIN diff = 1..Len(diff)
  /\ N \in [0..Len(diff) -> Nat] /\ N[0] = 0
  /\ \A i \in 1..Len(diff) :
       IF diff[i][side] = None THEN N[i] = N[i - 1] ELSE N[i] = N[i - 1] + 1 /\ diff[i][side] = N[i]

\* A side's count never falls and rises by one at most for each line, and by one where the line is on it.
LEMMA CountsRise ==
  ASSUME NEW diff, NEW side, NEW N, Counted(diff, side, N), NEW i \in 0..Len(diff), NEW j \in i..Len(diff)
  PROVE  /\ N[i] \in Nat /\ N[j] \in Nat /\ N[i] <= N[j] /\ N[j] - N[i] <= j - i
         /\ (\A x \in (i + 1)..j : diff[x][side] # None) => N[j] - N[i] = j - i
<1> DEFINE len == Len(diff)
           All(k) == \A x \in (i + 1)..k : diff[x][side] # None
           T == {d \in 0..(len - i) : N[i] <= N[i + d] /\ N[i + d] - N[i] <= d /\ (All(i + d) => N[i + d] - N[i] = d)}
<1>1. len \in Nat /\ i \in 0..len /\ j \in i..len /\ (\A x \in 0..len : N[x] \in Nat)
  BY DEF Counted
<1>2. \A x \in 1..len : IF diff[x][side] = None THEN N[x] = N[x - 1] ELSE N[x] = N[x - 1] + 1
  BY DEF Counted
<1> HIDE DEF len
<1>3. 0 \in T
  BY <1>1
<1>4. ASSUME NEW d \in 0..((len - i) - 1), d \in T PROVE d + 1 \in T
  <2>1. /\ i + (d + 1) \in 1..len /\ (i + (d + 1)) - 1 = i + d /\ i + d \in 0..len /\ d + 1 \in 0..(len - i)
        /\ i + (d + 1) \in (i + 1)..(i + (d + 1)) /\ \A x \in (i + 1)..(i + d) : x \in (i + 1)..(i + (d + 1))
    BY <1>1
  <2>2. All(i + (d + 1)) => All(i + d) /\ diff[i + (d + 1)][side] # None
    BY <2>1
  <2>3. N[i + (d + 1)] \in Nat /\ N[i + d] \in Nat /\ N[i] \in Nat
    BY <1>1, <2>1
  <2>4. IF diff[i + (d + 1)][side] = None THEN N[i + (d + 1)] = N[i + d] ELSE N[i + (d + 1)] = N[i + d] + 1
    BY <1>2, <2>1
  <2>5. N[i] <= N[i + d] /\ N[i + d] - N[i] <= d /\ (All(i + d) => N[i + d] - N[i] = d)
    BY <1>4
  <2> HIDE DEF All
  <2>6. PICK e, a, b, c : e = i + (d + 1) /\ a = N[i] /\ b = N[i + d] /\ c = N[e]
    OBVIOUS
  <2>7. a <= c /\ c - a <= d + 1 /\ (All(e) => c - a = d + 1)
    BY <2>1, <2>2, <2>3, <2>4, <2>5, <2>6
  <2> QED BY <2>1, <2>6, <2>7
<1>5. \A d \in 0..(len - i) : d \in T
  <2>1. len - i \in Nat
    BY <1>1
  <2> HIDE DEF T
  <2> QED BY <2>1, <1>3, <1>4, ByInduction
<1>6. j - i \in T /\ i + (j - i) = j
  BY <1>1, <1>5
<1>7. N[i] <= N[j] /\ N[j] - N[i] <= j - i /\ (All(j) => N[j] - N[i] = j - i)
  BY <1>6
<1> QED BY <1>1, <1>7

\* The number of a line is its own.
LEMMA NumberIsOnce ==
  ASSUME NEW diff, NEW side, NEW N, Counted(diff, side, N), NEW i \in DOMAIN diff, diff[i][side] # None
  PROVE  /\ i \in 1..Len(diff) /\ diff[i][side] = N[i] /\ N[i] = N[i - 1] + 1 /\ N[i] \in Nat /\ N[i - 1] \in Nat
         /\ \A j \in DOMAIN diff : diff[j][side] = diff[i][side] => j = i
         /\ Index(diff, side, diff[i][side]) = i
<1>1. /\ Len(diff) \in Nat /\ DOMAIN diff = 1..Len(diff) /\ \A x \in 0..Len(diff) : N[x] \in Nat
  BY DEF Counted
<1>2. \A x \in 1..Len(diff) : diff[x][side] # None => diff[x][side] = N[x] /\ N[x] = N[x - 1] + 1
  BY DEF Counted
<1>3. ASSUME NEW x \in 1..Len(diff), NEW y \in 1..Len(diff), x < y, diff[y][side] # None, diff[x][side] # None
      PROVE  diff[x][side] # diff[y][side]
  <2>1. x \in 0..Len(diff) /\ y - 1 \in x..Len(diff)
    BY <1>1, <1>3
  <2>2. N[x] <= N[y - 1] /\ N[x] \in Nat /\ N[y - 1] \in Nat
    BY <2>1, CountsRise
  <2> QED BY <1>2, <1>3, <2>2
<1>4. ASSUME NEW j \in DOMAIN diff, diff[j][side] = diff[i][side] PROVE j = i
  BY <1>1, <1>3, <1>4
<1>5. Index(diff, side, diff[i][side]) = i
  BY <1>4 DEF Index
<1>6. i \in 0..Len(diff) /\ i - 1 \in 0..Len(diff)
  BY <1>1
<1> QED BY <1>1, <1>2, <1>4, <1>5, <1>6

\* No number is left out.
LEMMA NumberIsThere ==
  ASSUME NEW diff, NEW side, NEW N, Counted(diff, side, N), NEW i \in 0..Len(diff), NEW j \in i..Len(diff),
         NEW v \in Int, N[i] < v, v <= N[j]
  PROVE  \E x \in (i + 1)..j : diff[x][side] = v
<1> DEFINE S == {x \in i..j : v <= N[x]}
<1>1. /\ Len(diff) \in Nat /\ \A x \in 0..Len(diff) : N[x] \in Nat
  BY DEF Counted
<1>2. S \subseteq Nat /\ j \in S
  BY <1>1
<1>3. PICK x \in S : \A y \in S : x <= y
  <2> HIDE DEF S
  <2> QED BY <1>2, LeastNat
<1>4. x \in (i + 1)..j /\ x - 1 \in i..j /\ x - 1 \notin S /\ x \in 1..Len(diff)
  BY <1>1, <1>3
<1>5. N[x - 1] < v /\ v <= N[x] /\ N[x] \in Nat /\ N[x - 1] \in Nat
  BY <1>1, <1>3, <1>4
<1>6. IF diff[x][side] = None THEN N[x] = N[x - 1] ELSE N[x] = N[x - 1] + 1 /\ diff[x][side] = N[x]
  BY <1>4 DEF Counted
<1> QED BY <1>4, <1>5, <1>6

----------------------------------------------------------------------------
(* Where the hunks are *)

\* Hunk k is the lines of the diff from F[k] to L[k], in the numbers and the words kept of it.
HunkIsThere(h, diff, N, from, to) ==
  /\ from \in 1..Len(diff) /\ to \in from..Len(diff)
  /\ \A i \in from..to : Changed(diff[i])
  /\ \A s \in Side :
       /\ h.count[s] = N[s][to] - N[s][from - 1]
       /\ h.start[s] = IF h.count[s] = 0 THEN N[s][from - 1] ELSE N[s][from - 1] + 1
       /\ DOMAIN h.text[s] = 1..h.count[s]
       /\ \A i \in from..to : diff[i][s] # None => h.text[s][diff[i][s] - N[s][from - 1]].text = diff[i].text

\* All that changed is in a hunk, and between two of them a line stays.
InDiff(hs, diff, N, F, L) ==
  /\ \A s \in Side : Counted(diff, s, N[s])
  /\ \A i \in DOMAIN diff : \E s \in Side : diff[i][s] # None
  /\ DOMAIN hs \subseteq Nat
  /\ \A k \in DOMAIN hs : HunkIsThere(hs[k], diff, N, F[k], L[k])
  /\ \A k, l \in DOMAIN hs : k < l => L[k] + 1 < F[l]
  /\ \A i \in DOMAIN diff : Changed(diff[i]) => \E k \in DOMAIN hs : i \in F[k]..L[k]

\* A line that stayed is on both sides.
LEMMA StayedOnBoth ==
  ASSUME NEW l, ~Changed(l), NEW s \in Side
  PROVE  l[s] # None
  BY DEF Changed, Side

\* The arithmetic of a hunk: it begins after the lines before it, and one with no line on the
\* side is taken to begin a line early unless there is none before it.
LEMMA HunkBegins ==
  ASSUME NEW hs, NEW diff, NEW N, NEW F, NEW L, InDiff(hs, diff, N, F, L), NEW k \in DOMAIN hs, NEW s \in Side
  PROVE  /\ Counted(diff, s, N[s]) /\ F[k] \in 1..Len(diff) /\ L[k] \in F[k]..Len(diff)
         /\ N[s][F[k] - 1] \in Nat /\ N[s][L[k]] \in Nat /\ N[s][F[k] - 1] <= N[s][L[k]]
         /\ hs[k].count[s] \in Nat /\ hs[k].count[s] = N[s][L[k]] - N[s][F[k] - 1]
         /\ hs[k].start[s] = IF hs[k].count[s] = 0 THEN N[s][F[k] - 1] ELSE N[s][F[k] - 1] + 1
         /\ From(hs[k], s) = IF hs[k].count[s] = 0 /\ hs[k].start[s] # 0 THEN N[s][F[k] - 1] ELSE N[s][F[k] - 1] + 1
         /\ From(hs[k], s) \in Nat \ {0}
<1>1. Counted(diff, s, N[s]) /\ HunkIsThere(hs[k], diff, N, F[k], L[k])
  BY DEF InDiff
<1>2. /\ F[k] \in 1..Len(diff) /\ L[k] \in F[k]..Len(diff)
      /\ hs[k].count[s] = N[s][L[k]] - N[s][F[k] - 1]
      /\ hs[k].start[s] = IF hs[k].count[s] = 0 THEN N[s][F[k] - 1] ELSE N[s][F[k] - 1] + 1
  BY <1>1 DEF HunkIsThere
<1>3. F[k] - 1 \in 0..Len(diff) /\ L[k] \in (F[k] - 1)..Len(diff)
  BY <1>1, <1>2 DEF Counted
<1>4. N[s][F[k] - 1] \in Nat /\ N[s][L[k]] \in Nat /\ N[s][F[k] - 1] <= N[s][L[k]]
  BY <1>1, <1>3, CountsRise
<1>5. PICK b, e, c : b = N[s][F[k] - 1] /\ e = N[s][L[k]] /\ c = hs[k].count[s]
  OBVIOUS
<1> QED BY <1>1, <1>2, <1>4, <1>5 DEF From

\* A line is in a hunk by its number when it is one of the hunk's lines, and the text is its own.
LEMMA HoldsItsLines ==
  ASSUME NEW hs, NEW diff, NEW N, NEW F, NEW L, InDiff(hs, diff, N, F, L), NEW k \in DOMAIN hs, NEW s \in Side,
         NEW i \in DOMAIN diff, diff[i][s] # None
  PROVE  /\ Holds(hs[k], s, diff[i][s]) <=> i \in F[k]..L[k]
         /\ TextAt(hs[k], s, diff[i][s]) = IF i \in F[k]..L[k] THEN {diff[i].text} ELSE {}
<1>1. /\ Counted(diff, s, N[s]) /\ F[k] \in 1..Len(diff) /\ L[k] \in F[k]..Len(diff)
      /\ N[s][F[k] - 1] \in Nat /\ N[s][L[k]] \in Nat /\ N[s][F[k] - 1] <= N[s][L[k]]
      /\ hs[k].count[s] \in Nat /\ hs[k].count[s] = N[s][L[k]] - N[s][F[k] - 1]
      /\ From(hs[k], s) = IF hs[k].count[s] = 0 /\ hs[k].start[s] # 0 THEN N[s][F[k] - 1] ELSE N[s][F[k] - 1] + 1
  BY HunkBegins
<1>2. PICK v : v = diff[i][s]
  OBVIOUS
<1>3. /\ i \in 1..Len(diff) /\ v = N[s][i] /\ N[s][i] = N[s][i - 1] + 1 /\ N[s][i] \in Nat /\ N[s][i - 1] \in Nat
      /\ \A j \in DOMAIN diff : diff[j][s] = v => j = i
  BY <1>1, <1>2, NumberIsOnce
<1>0. Len(diff) \in Nat /\ DOMAIN diff = 1..Len(diff)
  BY <1>1 DEF Counted
<1>4. ASSUME i \in F[k]..L[k] PROVE N[s][F[k] - 1] < v /\ v <= N[s][L[k]]
  <2>a. PICK f, l, n : f = F[k] /\ l = L[k] /\ n = Len(diff)
    OBVIOUS
  <2>b. n \in Nat /\ f \in 1..n /\ l \in f..n /\ i \in 1..n /\ i \in f..l
    BY <1>0, <1>1, <1>3, <1>4, <2>a
  <2>c. f - 1 \in 0..n /\ i - 1 \in (f - 1)..n /\ i \in 0..n /\ l \in i..n
    BY <2>b
  <2>1. F[k] - 1 \in 0..Len(diff) /\ i - 1 \in (F[k] - 1)..Len(diff) /\ i \in 0..Len(diff) /\ L[k] \in i..Len(diff)
    BY <2>a, <2>c
  <2>2. N[s][F[k] - 1] <= N[s][i - 1] /\ N[s][i] <= N[s][L[k]]
    BY <1>1, <2>1, CountsRise
  <2> QED BY <1>1, <1>3, <2>2
<1>5. ASSUME N[s][F[k] - 1] < v, v <= N[s][L[k]] PROVE i \in F[k]..L[k]
  <2>1. F[k] - 1 \in 0..Len(diff) /\ L[k] \in (F[k] - 1)..Len(diff) /\ (F[k] - 1) + 1 = F[k] /\ v \in Int
    BY <1>0, <1>1, <1>3
  <2>a. PICK M, a, b : M = N[s] /\ a = F[k] - 1 /\ b = L[k]
    OBVIOUS
  <2>b. Counted(diff, s, M) /\ a \in 0..Len(diff) /\ b \in a..Len(diff) /\ v \in Int /\ M[a] < v /\ v <= M[b]
    BY <1>1, <1>5, <2>1, <2>a
  <2>c. \E x \in (a + 1)..b : diff[x][s] = v
    BY <2>b, NumberIsThere
  <2>2. \E x \in ((F[k] - 1) + 1)..L[k] : diff[x][s] = v
    BY <2>a, <2>c
  <2>3. PICK x \in F[k]..L[k] : diff[x][s] = v
    BY <2>1, <2>2
  <2>4. x \in DOMAIN diff
    BY <1>0, <1>1, <2>3
  <2> QED BY <1>3, <2>3, <2>4
<1>6. Holds(hs[k], s, v) <=> N[s][F[k] - 1] < v /\ v <= N[s][L[k]]
  <2>1. PICK b, e, c, f : b = N[s][F[k] - 1] /\ e = N[s][L[k]] /\ c = hs[k].count[s] /\ f = From(hs[k], s)
    OBVIOUS
  <2>2. v \in Nat
    BY <1>3
  <2>3. /\ b \in Nat /\ e \in Nat /\ b <= e /\ c \in Nat /\ c = e - b
        /\ f = IF c = 0 /\ hs[k].start[s] # 0 THEN b ELSE b + 1
    BY <1>1, <2>1
  <2>4. v >= f /\ v < f + c <=> b < v /\ v <= e
    BY <2>2, <2>3
  <2> QED BY <2>1, <2>4 DEF Holds
<1>7. Holds(hs[k], s, v) => (v - From(hs[k], s)) + 1 = v - N[s][F[k] - 1]
  <2>1. PICK b, e, c, f : b = N[s][F[k] - 1] /\ e = N[s][L[k]] /\ c = hs[k].count[s] /\ f = From(hs[k], s)
    OBVIOUS
  <2>2. v \in Nat
    BY <1>3
  <2>3. /\ b \in Nat /\ e \in Nat /\ c = e - b
        /\ f = IF c = 0 /\ hs[k].start[s] # 0 THEN b ELSE b + 1
    BY <1>1, <2>1
  <2>4. b < v /\ v <= e => (v - f) + 1 = v - b
    BY ONLY <2>2, <2>3
  <2> QED BY <1>6, <2>1, <2>4, Zenon
<1>8. i \in F[k]..L[k] => hs[k].text[s][v - N[s][F[k] - 1]].text = diff[i].text
  BY <1>2 DEF InDiff, HunkIsThere
<1>9. TextAt(hs[k], s, v) = IF i \in F[k]..L[k] THEN {diff[i].text} ELSE {}
  BY <1>4, <1>5, <1>6, <1>7, <1>8 DEF TextAt
<1> QED BY <1>2, <1>4, <1>5, <1>6, <1>9

----------------------------------------------------------------------------
(* The request's page *)

\* A line no further below a changed one, by the numbers of a side, than the page shows is on it.
LEMMA ShownBelow ==
  ASSUME NEW diff, NEW s \in Side, NEW M, Counted(diff, s, M), NEW e \in 1..Len(diff), Changed(diff[e]),
         NEW i \in e..Len(diff), M[i] - M[e] <= RequestContext
  PROVE  Displayed(diff, i)
<1> DEFINE S == {d \in 0..(i - e) : Changed(diff[i - d])}
<1>0. Len(diff) \in Nat /\ DOMAIN diff = 1..Len(diff)
  BY DEF Counted
<1>1. S \subseteq Nat /\ i - e \in S
  BY <1>0
<1>2. PICK d \in S : \A y \in S : d <= y
  <2> HIDE DEF S
  <2> QED BY <1>1, LeastNat
<1>3. PICK j : j = i - d
  OBVIOUS
<1>4. j \in e..i /\ j \in 1..Len(diff) /\ Changed(diff[j]) /\ i - j = d
  BY <1>0, <1>2, <1>3
<1>5. ASSUME NEW x \in (j + 1)..i PROVE diff[x][s] # None
  <2>1. i - x \in 0..(i - e) /\ i - (i - x) = x /\ i - x < d
    BY <1>0, <1>4
  <2>a. PICK y : y = i - x
    OBVIOUS
  <2>b. y \in 0..(i - e) /\ i - y = x /\ y < d /\ d \in Nat
    BY <1>1, <1>2, <2>1, <2>a
  <2>c. y \notin S
    <3> HIDE DEF S
    <3> QED BY <1>2, <2>b
  <2>2. ~Changed(diff[x])
    BY <2>b, <2>c
  <2> QED BY <2>2, StayedOnBoth
<1>6. /\ j \in 0..Len(diff) /\ i \in j..Len(diff) /\ e \in 0..Len(diff) /\ j \in e..Len(diff)
  BY <1>0, <1>4
<1>7. M[i] - M[j] = i - j /\ M[i] \in Nat /\ M[j] \in Nat
  BY <1>5, <1>6, CountsRise
<1>8. M[e] <= M[j] /\ M[e] \in Nat
  BY <1>6, CountsRise
<1>9. i - j <= RequestContext /\ j - i <= RequestContext
  <2>1. PICK a, b, c, n : a = M[i] /\ b = M[j] /\ c = M[e] /\ n = Len(diff)
    OBVIOUS
  <2>2. a \in Nat /\ b \in Nat /\ c \in Nat /\ a - b = i - j /\ c <= b /\ a - c <= RequestContext
    BY <1>7, <1>8, <2>1
  <2>3. n \in Nat /\ e \in 1..n /\ i \in e..n /\ j \in e..i
    BY <1>0, <1>4, <2>1
  <2> QED BY ONLY <2>2, <2>3, ContextAssumption
<1> QED BY <1>0, <1>4, <1>9 DEF Displayed

\* The same above it.
LEMMA ShownAbove ==
  ASSUME NEW diff, NEW s \in Side, NEW M, Counted(diff, s, M), NEW f \in 1..Len(diff), Changed(diff[f]),
         NEW i \in 1..(f - 1), (M[f - 1] - M[i]) + 1 <= RequestContext
  PROVE  Displayed(diff, i)
<1> DEFINE S == {j \in i..f : Changed(diff[j])}
<1>0. Len(diff) \in Nat /\ DOMAIN diff = 1..Len(diff)
  BY DEF Counted
<1>1. S \subseteq Nat /\ f \in S
  BY <1>0
<1>2. PICK j \in S : \A y \in S : j <= y
  <2> HIDE DEF S
  <2> QED BY <1>1, LeastNat
<1>3. j \in i..f /\ j \in 1..Len(diff) /\ Changed(diff[j])
  BY <1>0, <1>2
<1>4. CASE j = i
  BY <1>0, <1>3, <1>4, ContextAssumption DEF Displayed
<1>5. CASE j # i
  <2>1. ASSUME NEW x \in (i + 1)..(j - 1) PROVE diff[x][s] # None
    <3>1. x \in i..f /\ ~(j <= x)
      BY <1>0, <1>3, <2>1
    <3>2. ~Changed(diff[x])
      BY <1>2, <3>1
    <3> QED BY <3>2, StayedOnBoth
  <2>2. /\ i \in 0..Len(diff) /\ j - 1 \in i..Len(diff) /\ j - 1 \in 0..Len(diff) /\ f - 1 \in (j - 1)..Len(diff)
    BY <1>0, <1>3, <1>5
  <2>3. M[j - 1] - M[i] = (j - 1) - i /\ M[i] \in Nat /\ M[j - 1] \in Nat
    BY <2>1, <2>2, CountsRise
  <2>4. M[j - 1] <= M[f - 1] /\ M[f - 1] \in Nat
    BY <2>2, CountsRise
  <2>5. i - j <= RequestContext /\ j - i <= RequestContext
    <3>1. PICK a, b, c, n : a = M[j - 1] /\ b = M[i] /\ c = M[f - 1] /\ n = Len(diff)
      OBVIOUS
    <3>2. /\ a \in Nat /\ b \in Nat /\ c \in Nat /\ a - b = (j - 1) - i /\ a <= c
          /\ (c - b) + 1 <= RequestContext
      BY <2>3, <2>4, <3>1
    <3>3. n \in Nat /\ f \in 1..n /\ i \in 1..(f - 1) /\ j \in i..f
      BY <1>0, <1>3, <3>1
    <3> QED BY ONLY <3>2, <3>3, ContextAssumption
  <2> QED BY <1>0, <1>3, <2>5 DEF Displayed
<1> QED BY <1>4, <1>5

\* The lines a note is on.
LEMMA NoteIsOnLines ==
  ASSUME NEW diff, NEW N, \A s \in Side : Counted(diff, s, N[s]), NEW n \in Notes(diff), NEW first, NEW last,
         first = Index(diff, n.side, n.line), last = Index(diff, n.side, n.end_line)
  PROVE  /\ n.side \in Side /\ Counted(diff, n.side, N[n.side])
         /\ first \in 1..Len(diff) /\ last \in first..Len(diff)
         /\ n.line = diff[first][n.side] /\ n.line # None /\ n.line = N[n.side][first] /\ n.line \in Nat
         /\ n.end_line = diff[last][n.side] /\ n.end_line # None /\ n.end_line = N[n.side][last] /\ n.end_line \in Nat
         /\ n.line <= n.end_line
         /\ N[n.side][first] = N[n.side][first - 1] + 1 /\ N[n.side][first - 1] \in Nat
<1>1. PICK s \in Side, i \in DOMAIN diff, j \in DOMAIN diff :
         /\ n.side = s /\ n.line = diff[i][s] /\ n.line # None
         /\ n.end_line = diff[j][s] /\ n.end_line # None /\ n.line <= n.end_line
  BY DEF Notes
<1>2. PICK M : M = N[s] /\ Counted(diff, s, M)
  OBVIOUS
<1>3. /\ i \in 1..Len(diff) /\ diff[i][s] = M[i] /\ M[i] = M[i - 1] + 1 /\ M[i] \in Nat /\ M[i - 1] \in Nat
      /\ Index(diff, s, diff[i][s]) = i
  BY <1>1, <1>2, NumberIsOnce
<1>4. /\ j \in 1..Len(diff) /\ diff[j][s] = M[j] /\ M[j] \in Nat
      /\ Index(diff, s, diff[j][s]) = j
  BY <1>1, <1>2, NumberIsOnce
<1>5. first = i /\ last = j
  BY <1>1, <1>3, <1>4
<1>6. i <= j
  <2> SUFFICES ASSUME j < i PROVE FALSE
    BY <1>3, <1>4
  <2>1. Len(diff) \in Nat
    BY <1>2 DEF Counted
  <2>2. j \in 0..Len(diff) /\ i - 1 \in j..Len(diff)
    BY <1>3, <1>4, <2>1
  <2>3. M[j] <= M[i - 1]
    BY <1>2, <2>2, CountsRise
  <2> QED BY <1>1, <1>3, <1>4, <2>3
<1>7. j \in i..Len(diff)
  BY <1>3, <1>4, <1>6
<1> QED BY <1>1, <1>2, <1>3, <1>4, <1>5, <1>7

\* The number of a hunk with a line on the side, or at the top of the file, is that of its first line.
LEMMA PlainHunkBegins ==
  ASSUME NEW hs, NEW diff, NEW N, NEW F, NEW L, InDiff(hs, diff, N, F, L), NEW k \in DOMAIN hs, NEW s \in Side,
         hs[k].count[s] > 0 \/ hs[k].start[s] = 0
  PROVE  From(hs[k], s) = N[s][F[k] - 1] + 1 /\ From(hs[k], s) + hs[k].count[s] = N[s][L[k]] + 1
<1>1. PICK b, e, c, f, t : b = N[s][F[k] - 1] /\ e = N[s][L[k]] /\ c = hs[k].count[s] /\ f = From(hs[k], s) /\ t = hs[k].start[s]
  OBVIOUS
<1>2. /\ b \in Nat /\ e \in Nat /\ c \in Nat /\ c = e - b
      /\ f = IF c = 0 /\ t # 0 THEN b ELSE b + 1
  BY <1>1, HunkBegins
<1>3. c > 0 \/ t = 0
  BY <1>1
<1>4. f = b + 1 /\ f + c = e + 1
  BY <1>2, <1>3
<1> QED BY <1>1, <1>4

\* What a hunk brings onto the page is there with all that is between.
LEMMA TakenIsOnThePage ==
  ASSUME NEW hs, NEW diff, NEW N, NEW F, NEW L, InDiff(hs, diff, N, F, L), NEW n \in Notes(diff), NEW k \in DOMAIN hs,
         hs[k].count[n.side] > 0 \/ hs[k].start[n.side] = 0,
         n.line >= From(hs[k], n.side) - RequestContext,
         n.end_line <= From(hs[k], n.side) + hs[k].count[n.side] - 1 + RequestContext
  PROVE  TogetherOnPage(diff, Index(diff, n.side, n.line), Index(diff, n.side, n.end_line))
<1>1. PICK first, last, s, M : /\ first = Index(diff, n.side, n.line) /\ last = Index(diff, n.side, n.end_line)
                               /\ s = n.side /\ M = N[n.side]
  OBVIOUS
<1>2. \A t \in Side : Counted(diff, t, N[t])
  BY DEF InDiff
<1>3. /\ s \in Side /\ Counted(diff, s, M)
      /\ first \in 1..Len(diff) /\ last \in first..Len(diff)
      /\ n.line = M[first] /\ n.end_line = M[last] /\ M[first] \in Nat /\ M[last] \in Nat
  BY <1>1, <1>2, NoteIsOnLines
<1>4. PICK f, l : f = F[k] /\ l = L[k]
  OBVIOUS
<1>5. f \in 1..Len(diff) /\ l \in f..Len(diff) /\ M[f - 1] \in Nat /\ M[l] \in Nat
  BY <1>1, <1>3, <1>4, HunkBegins
<1>6. From(hs[k], s) = M[f - 1] + 1 /\ From(hs[k], s) + hs[k].count[s] = M[l] + 1
  BY <1>1, <1>3, <1>4, PlainHunkBegins
<1>7. M[first] + RequestContext >= M[f - 1] + 1 /\ M[last] <= M[l] + RequestContext
  <2>1. PICK a, b, c, d, u, v : a = From(hs[k], s) /\ b = hs[k].count[s] /\ c = M[f - 1] /\ d = M[l] /\ u = n.line /\ v = n.end_line
    OBVIOUS
  <2>2. c \in Nat /\ d \in Nat /\ a = c + 1 /\ a + b = d + 1 /\ u \in Nat /\ v \in Nat /\ b \in Int
    <3>1. hs[k].count[s] \in Nat
      BY <1>3, HunkBegins
    <3> QED BY <1>3, <1>5, <1>6, <2>1, <3>1
  <2>3. u >= a - RequestContext /\ v <= a + b - 1 + RequestContext
    BY <1>1, <2>1
  <2>4. u + RequestContext >= c + 1 /\ v <= d + RequestContext
    BY <2>2, <2>3, ContextAssumption
  <2> QED BY <1>3, <2>1, <2>4
<1>8. ASSUME NEW x \in first..last PROVE Displayed(diff, x)
  <2>0. Len(diff) \in Nat /\ DOMAIN diff = 1..Len(diff)
    BY <1>3 DEF Counted
  <2>a. \A i \in f..l : Changed(diff[i])
    BY <1>4 DEF InDiff, HunkIsThere
  <2>b. /\ x \in 0..Len(diff) /\ last \in x..Len(diff) /\ first \in 0..Len(diff) /\ x \in first..Len(diff) /\ x \in 1..Len(diff)
    BY <1>3, <1>8, <2>0
  <2>c. M[x] \in Nat /\ M[first] <= M[x] /\ M[x] <= M[last]
    BY <1>3, <2>b, CountsRise
  <2>1. CASE x > l
    <3>1. x \in l..Len(diff) /\ l \in 1..Len(diff) /\ l \in f..l
      BY <1>5, <2>0, <2>1, <2>b
    <3>2. M[x] - M[l] <= RequestContext
      <4>1. PICK a, b, c : a = M[x] /\ b = M[l] /\ c = M[last]
        OBVIOUS
      <4>2. a \in Nat /\ b \in Nat /\ c \in Nat /\ a <= c /\ c <= b + RequestContext
        BY <1>3, <1>5, <1>7, <2>c, <4>1
      <4>3. a - b <= RequestContext
        BY ONLY <4>2, ContextAssumption
      <4> QED BY <4>1, <4>3, Zenon
    <3> QED BY <1>3, <2>a, <3>1, <3>2, ShownBelow
  <2>2. CASE x \in f..l
    <3>1. Changed(diff[x]) /\ x - x <= RequestContext
      BY <2>2, <2>a, <2>b, ContextAssumption
    <3> QED BY <2>0, <2>b, <3>1 DEF Displayed
  <2>3. CASE x < f
    <3>1. x \in 1..(f - 1) /\ f \in f..l
      BY <1>5, <2>3, <2>b
    <3>2. (M[f - 1] - M[x]) + 1 <= RequestContext
      <4>1. PICK a, b, c : a = M[f - 1] /\ b = M[x] /\ c = M[first]
        OBVIOUS
      <4>2. a \in Nat /\ b \in Nat /\ c \in Nat /\ c + RequestContext >= a + 1 /\ c <= b
        BY <1>3, <1>5, <1>7, <2>c, <4>1
      <4>3. (a - b) + 1 <= RequestContext
        BY <4>2, ContextAssumption
      <4> QED BY <4>1, <4>3
    <3> QED BY <1>3, <1>5, <2>a, <3>1, <3>2, ShownAbove
  <2>4. x > l \/ x \in f..l \/ x < f
    BY <1>5, <2>0, <2>b
  <2> QED BY <2>1, <2>2, <2>3, <2>4
<1> QED BY <1>1, <1>8 DEF TogetherOnPage

\* A line on the page is within reach of the hunk it is shown for.
LEMMA ShownIsTaken ==
  ASSUME NEW hs, NEW diff, NEW N, NEW F, NEW L, InDiff(hs, diff, N, F, L), NEW n \in Notes(diff),
         \A k \in DOMAIN hs : hs[k].count[n.side] > 0 \/ hs[k].start[n.side] = 0,
         NEW i, i = Index(diff, n.side, n.line), i = Index(diff, n.side, n.end_line), Displayed(diff, i)
  PROVE  InRequestDiff(hs, n)
<1>1. PICK s, M : s = n.side /\ M = N[n.side]
  OBVIOUS
<1>2. \A t \in Side : Counted(diff, t, N[t])
  BY DEF InDiff
<1>3. /\ s \in Side /\ Counted(diff, s, M) /\ i \in 1..Len(diff) /\ i \in i..Len(diff)
      /\ n.line = M[i] /\ n.end_line = M[i] /\ M[i] \in Nat
      /\ M[i] = M[i - 1] + 1 /\ M[i - 1] \in Nat
  <2>1. /\ n.side \in Side /\ Counted(diff, n.side, N[n.side]) /\ i \in 1..Len(diff) /\ i \in i..Len(diff)
        /\ n.line = N[n.side][i] /\ n.end_line = N[n.side][i] /\ n.line \in Nat
        /\ N[n.side][i] = N[n.side][i - 1] + 1 /\ N[n.side][i - 1] \in Nat
    <3>1. PICK first, last : first = Index(diff, n.side, n.line) /\ last = Index(diff, n.side, n.end_line)
      OBVIOUS
    <3>2. /\ n.side \in Side /\ Counted(diff, n.side, N[n.side])
          /\ first \in 1..Len(diff) /\ last \in first..Len(diff)
          /\ n.line = N[n.side][first] /\ n.end_line = N[n.side][last] /\ n.line \in Nat
          /\ N[n.side][first] = N[n.side][first - 1] + 1 /\ N[n.side][first - 1] \in Nat
      BY <1>2, <3>1, NoteIsOnLines
    <3>3. first = i /\ last = i
      BY <3>1
    <3> QED BY <3>2, <3>3
  <2> QED BY <1>1, <2>1
<1>4. PICK j \in DOMAIN diff : Changed(diff[j]) /\ i - j <= RequestContext /\ j - i <= RequestContext
  BY DEF Displayed
<1>5. PICK k \in DOMAIN hs : j \in F[k]..L[k]
  BY <1>4 DEF InDiff
<1>6. PICK f, l : f = F[k] /\ l = L[k]
  OBVIOUS
<1>7. f \in 1..Len(diff) /\ l \in f..Len(diff) /\ M[f - 1] \in Nat /\ M[l] \in Nat /\ M[f - 1] <= M[l] /\ j \in f..l
  BY <1>1, <1>3, <1>5, <1>6, HunkBegins
<1>8. From(hs[k], s) = M[f - 1] + 1 /\ From(hs[k], s) + hs[k].count[s] = M[l] + 1
  BY <1>1, <1>3, <1>6, PlainHunkBegins
<1>0. Len(diff) \in Nat
  BY <1>3 DEF Counted
<1>9. M[i] <= M[l] + RequestContext
  <2>1. CASE i <= l
    <3>1. i \in 0..Len(diff) /\ l \in i..Len(diff)
      BY <1>0, <1>3, <1>7, <2>1
    <3>2. M[i] <= M[l]
      BY <1>3, <3>1, CountsRise
    <3>3. PICK a, b : a = M[i] /\ b = M[l]
      OBVIOUS
    <3>4. a \in Nat /\ b \in Nat /\ a <= b
      BY <1>3, <1>7, <3>2, <3>3
    <3>5. a <= b + RequestContext
      BY ONLY <3>4, ContextAssumption
    <3> QED BY <3>3, <3>5, Zenon
  <2>2. CASE ~(i <= l)
    <3>1. l \in 0..Len(diff) /\ i \in l..Len(diff)
      BY <1>0, <1>3, <1>7, <2>2
    <3>2. M[i] - M[l] <= i - l
      BY <1>3, <3>1, CountsRise
    <3>3. PICK a, b, len : a = M[i] /\ b = M[l] /\ len = Len(diff)
      OBVIOUS
    <3>4. /\ a \in Nat /\ b \in Nat /\ len \in Nat /\ i \in 1..len /\ f \in 1..len /\ l \in f..len /\ j \in f..l
          /\ a - b <= i - l /\ i - j <= RequestContext
      BY <1>0, <1>3, <1>4, <1>7, <3>2, <3>3
    <3>5. a <= b + RequestContext
      BY <3>4, ContextAssumption
    <3> QED BY <3>3, <3>5
  <2> QED BY <2>1, <2>2
<1>10. M[i] + RequestContext >= M[f - 1] + 1
  <2>1. CASE f <= i
    <3>1. f - 1 \in 0..Len(diff) /\ i - 1 \in (f - 1)..Len(diff)
      BY <1>0, <1>3, <1>7, <2>1
    <3>2. M[f - 1] <= M[i - 1]
      BY <1>3, <3>1, CountsRise
    <3>3. PICK a, b, c : a = M[f - 1] /\ b = M[i - 1] /\ c = M[i]
      OBVIOUS
    <3>4. a \in Nat /\ b \in Nat /\ c = b + 1 /\ a <= b
      BY <1>3, <1>7, <3>2, <3>3
    <3>5. c + RequestContext >= a + 1
      BY ONLY <3>4, ContextAssumption
    <3> QED BY <3>3, <3>5, Zenon
  <2>2. CASE ~(f <= i)
    <3>1. i \in 0..Len(diff) /\ f - 1 \in i..Len(diff)
      BY <1>0, <1>3, <1>7, <2>2
    <3>2. M[f - 1] - M[i] <= (f - 1) - i
      BY <1>3, <3>1, CountsRise
    <3>3. PICK a, b, len : a = M[i] /\ b = M[f - 1] /\ len = Len(diff)
      OBVIOUS
    <3>4. /\ a \in Nat /\ b \in Nat /\ len \in Nat /\ i \in 1..len /\ f \in 1..len /\ l \in f..len /\ j \in f..l
          /\ b - a <= (f - 1) - i /\ j - i <= RequestContext
      BY <1>0, <1>3, <1>4, <1>7, <3>2, <3>3
    <3>5. a + RequestContext >= b + 1
      BY <3>4, ContextAssumption
    <3> QED BY <3>3, <3>5
  <2> QED BY <2>1, <2>2
<1>11. n.line >= From(hs[k], s) - RequestContext /\ n.end_line <= From(hs[k], s) + hs[k].count[s] - 1 + RequestContext
  <2>1. PICK a, b, c, d, u : a = From(hs[k], s) /\ b = hs[k].count[s] /\ c = M[f - 1] /\ d = M[l] /\ u = M[i]
    OBVIOUS
  <2>2. c \in Nat /\ d \in Nat /\ a = c + 1 /\ a + b = d + 1 /\ u \in Nat /\ b \in Int
    <3>1. hs[k].count[s] \in Nat
      BY <1>3, HunkBegins
    <3> QED BY <1>3, <1>7, <1>8, <2>1, <3>1
  <2>3. u + RequestContext >= c + 1 /\ u <= d + RequestContext
    BY <1>9, <1>10, <2>1
  <2>4. u >= a - RequestContext /\ u <= a + b - 1 + RequestContext
    BY <2>2, <2>3, ContextAssumption
  <2> QED BY <1>3, <2>1, <2>4
<1> QED BY <1>1, <1>11 DEF InRequestDiff

----------------------------------------------------------------------------
(* Sequences laid end to end *)

\* Where each of some sequences ends in them all.
EndsAt(top, seqs, f) ==
  /\ top \in [0..Len(seqs) -> Nat] /\ top[0] = 0 /\ Len(f) = top[Len(seqs)]
  /\ \A i \in 1..Len(seqs) : /\ top[i] = top[i - 1] + Len(seqs[i])
                             /\ \A j \in 1..Len(seqs[i]) : f[top[i - 1] + j] = seqs[i][j]

LEMMA FlattenEnds ==
  ASSUME NEW V, NEW seqs \in Seq(Seq(V))
  PROVE  FlattenSeq(seqs) \in Seq(V) /\ \E top : EndsAt(top, seqs, FlattenSeq(seqs))
<1> DEFINE N == Len(seqs)
           nothing == <<>>
<1>1. N \in Nat /\ \A i \in 1..N : seqs[i] \in Seq(V)
  BY LenProperties, ElementOfSeq
<1>2. nothing \in Seq(V) /\ Len(nothing) = 0
  BY EmptySeq
<1>3. CASE N = 0
  <2>1. seqs = nothing /\ FlattenSeq(seqs) = seqs
    BY <1>3, EmptySeq DEF FlattenSeq
  <2> DEFINE top == [i \in 0..0 |-> 0]
  <2>2. top \in [0..0 -> Nat] /\ top[0] = 0
    OBVIOUS
  <2> HIDE DEF nothing, top
  <2>3. EndsAt(top, seqs, FlattenSeq(seqs))
    BY <1>2, <1>3, <2>1, <2>2 DEF EndsAt
  <2> QED BY <1>2, <2>1, <2>3
<1>4. CASE N # 0
  <2>1. PICK flat : Flattens(flat, seqs, V)
    BY <1>4, FlattenIsAPass
  <2>2. /\ flat \in [0..N -> Seq(V)] /\ flat[0] = nothing /\ FlattenSeq(seqs) = flat[N]
        /\ \A i \in 1..N : flat[i] = flat[i - 1] \o seqs[i]
    BY <2>1 DEF Flattens
  <2> DEFINE top == [i \in 0..N |-> Len(flat[i])]
             There(f, i) == \A j \in 1..Len(seqs[i]) : top[i - 1] + j \in 1..Len(f) /\ f[top[i - 1] + j] = seqs[i][j]
             T == {n \in 0..N : \A i \in 1..n : There(flat[n], i)}
  <2> HIDE DEF nothing, N
  <2>3. top \in [0..N -> Nat] /\ top[0] = 0 /\ \A i \in 0..N : top[i] = Len(flat[i])
    <3>1. \A i \in 0..N : Len(flat[i]) \in Nat
      BY <2>2, LenProperties
    <3>2. 0 \in 0..N
      BY <1>1
    <3> QED BY <1>2, <2>2, <3>1, <3>2
  <2> HIDE DEF top
  <2>4. 0 \in T
    BY <1>1
  <2>5. ASSUME NEW i \in 1..N
        PROVE  /\ i - 1 \in 0..N /\ i \in 0..N /\ flat[i - 1] \in Seq(V) /\ flat[i] \in Seq(V) /\ seqs[i] \in Seq(V)
               /\ Len(seqs[i]) \in Nat /\ top[i - 1] \in Nat /\ top[i] = top[i - 1] + Len(seqs[i])
               /\ \A j \in 1..top[i - 1] : flat[i][j] = flat[i - 1][j]
               /\ \A j \in 1..Len(seqs[i]) : flat[i][top[i - 1] + j] = seqs[i][j]
    <3>1. i - 1 \in 0..N /\ i \in 0..N
      BY <1>1
    <3>2. PICK x, y, z : x = flat[i - 1] /\ y = seqs[i] /\ z = flat[i]
      OBVIOUS
    <3>3. x \in Seq(V) /\ y \in Seq(V) /\ z = x \o y /\ z \in Seq(V)
      BY <1>1, <2>2, <3>1, <3>2
    <3>4. /\ Len(x) \in Nat /\ Len(y) \in Nat /\ Len(z) = Len(x) + Len(y)
          /\ \A j \in 1..(Len(x) + Len(y)) : z[j] = IF j <= Len(x) THEN x[j] ELSE y[j - Len(x)]
      BY <3>3, ConcatProperties, LenProperties
    <3>5. \A j \in 1..Len(x) : z[j] = x[j]
      BY <3>4
    <3>6. ASSUME NEW j \in 1..Len(y) PROVE z[Len(x) + j] = y[j]
      <4>1. Len(x) + j \in 1..(Len(x) + Len(y)) /\ ~(Len(x) + j <= Len(x)) /\ (Len(x) + j) - Len(x) = j
        BY <3>4
      <4> QED BY <3>4, <4>1
    <3>7. top[i - 1] = Len(x) /\ top[i] = Len(z)
      BY <2>3, <3>1, <3>2
    <3> QED BY <3>1, <3>2, <3>3, <3>4, <3>5, <3>6, <3>7
  <2>6. ASSUME NEW n \in 0..(N - 1), n \in T PROVE n + 1 \in T
    <3>1. n + 1 \in 0..N /\ n + 1 \in 1..N /\ (n + 1) - 1 = n /\ n \in Nat /\ n \in 0..N
      BY <1>1
    <3>2. /\ Len(seqs[n + 1]) \in Nat /\ top[n] \in Nat /\ top[n + 1] = top[n] + Len(seqs[n + 1])
          /\ \A j \in 1..top[n] : flat[n + 1][j] = flat[n][j]
          /\ \A j \in 1..Len(seqs[n + 1]) : flat[n + 1][top[n] + j] = seqs[n + 1][j]
      <4>1. PICK q : q = n + 1
        OBVIOUS
      <4>2. q \in 1..N /\ q - 1 = n
        BY <3>1, <4>1
      <4>3. /\ Len(seqs[q]) \in Nat /\ top[q - 1] \in Nat /\ top[q] = top[q - 1] + Len(seqs[q])
            /\ \A j \in 1..top[q - 1] : flat[q][j] = flat[q - 1][j]
            /\ \A j \in 1..Len(seqs[q]) : flat[q][top[q - 1] + j] = seqs[q][j]
        BY <2>5, <4>2
      <4> QED BY <4>1, <4>2, <4>3
    <3>3. Len(flat[n]) = top[n] /\ Len(flat[n + 1]) = top[n + 1]
      BY <2>3, <3>1
    <3>4. ASSUME NEW i \in 1..n PROVE There(flat[n + 1], i)
      <4>1. There(flat[n], i)
        BY <2>6
      <4> SUFFICES ASSUME NEW j \in 1..Len(seqs[i])
                   PROVE  top[i - 1] + j \in 1..Len(flat[n + 1]) /\ flat[n + 1][top[i - 1] + j] = seqs[i][j]
        OBVIOUS
      <4>2. PICK p : p = top[i - 1] + j
        OBVIOUS
      <4>3. p \in 1..top[n] /\ flat[n][p] = seqs[i][j]
        BY <3>3, <4>1, <4>2
      <4>4. p \in 1..top[n + 1]
        BY <3>2, <4>3
      <4> QED BY <3>2, <3>3, <4>2, <4>3, <4>4
    <3>5. There(flat[n + 1], n + 1)
      <4>1. ASSUME NEW j \in 1..Len(seqs[n + 1])
            PROVE  top[n] + j \in 1..Len(flat[n + 1]) /\ flat[n + 1][top[n] + j] = seqs[n + 1][j]
        <5>1. PICK a, b, c : a = top[n] /\ b = Len(seqs[n + 1]) /\ c = Len(flat[n + 1])
          OBVIOUS
        <5>2. a \in Nat /\ b \in Nat /\ c = a + b /\ j \in 1..b
          BY <3>2, <3>3, <5>1
        <5>3. a + j \in 1..c
          BY <5>2
        <5> QED BY <3>2, <5>1, <5>3
      <4> QED BY <3>1, <4>1
    <3>6. \A i \in 1..(n + 1) : i \in 1..n \/ i = n + 1
      BY <3>1
    <3> HIDE DEF There
    <3> QED BY <3>1, <3>4, <3>5, <3>6
  <2>7. \A n \in 0..N : n \in T
    <3> HIDE DEF T
    <3> QED BY <1>1, <2>4, <2>6, ByInduction
  <2>8. EndsAt(top, seqs, FlattenSeq(seqs))
    <3>1. N \in T /\ N \in 0..N
      BY <1>1, <2>7
    <3>2. \A i \in 1..N : There(flat[N], i)
      BY <3>1
    <3>3. \A i \in 1..N : top[i] = top[i - 1] + Len(seqs[i])
      BY <2>5
    <3>4. \A i \in 1..N : \A j \in 1..Len(seqs[i]) : flat[N][top[i - 1] + j] = seqs[i][j]
      BY <3>2
    <3>5. Len(flat[N]) = top[N]
      BY <2>3, <3>1
    <3> HIDE DEF There, T
    <3> QED BY <2>2, <2>3, <3>3, <3>4, <3>5 DEF EndsAt, N
  <2>9. flat[N] \in Seq(V)
    BY <1>1, <2>2
  <2> QED BY <2>2, <2>8, <2>9
<1> QED BY <1>3, <1>4

\* A number lies in one of the steps that lead past it.
LEMMA InAStep ==
  ASSUME NEW m \in Nat, NEW top \in [0..m -> Nat], top[0] = 0, NEW i \in 1..top[m]
  PROVE  \E k \in 1..m : top[k - 1] < i /\ i <= top[k]
<1> DEFINE S == {k \in 0..m : i <= top[k]}
<1>1. S \subseteq Nat /\ m \in S /\ top[m] \in Nat
  OBVIOUS
<1>2. PICK k \in S : \A y \in S : k <= y
  <2> HIDE DEF S
  <2> QED BY <1>1, LeastNat
<1>3. k \in 0..m /\ i <= top[k] /\ k # 0
  BY <1>1, <1>2
<1>4. k \in 1..m /\ k - 1 \in 0..m /\ k - 1 \notin S
  BY <1>2, <1>3
<1>5. top[k - 1] \in Nat /\ ~(i <= top[k - 1])
  BY <1>4
<1>6. top[k - 1] < i
  BY <1>1, <1>5
<1> QED BY <1>3, <1>4, <1>6

\* Steps that only rise: what ends later ends no earlier.
LEMMA StepsRise ==
  ASSUME NEW m \in Nat, NEW top \in [0..m -> Nat], \A k \in 1..m : top[k - 1] <= top[k],
         NEW k \in 0..m, NEW l \in k..m
  PROVE  top[k] <= top[l]
<1> DEFINE T == {d \in 0..(m - k) : top[k] <= top[k + d]}
<1>1. 0 \in T
  OBVIOUS
<1>2. ASSUME NEW d \in 0..((m - k) - 1), d \in T PROVE d + 1 \in T
  <2>1. k + (d + 1) \in 1..m /\ (k + (d + 1)) - 1 = k + d /\ k + d \in 0..m /\ d + 1 \in 0..(m - k) /\ k + (d + 1) \in 0..m
    OBVIOUS
  <2>2. top[k + d] <= top[k + (d + 1)] /\ top[k] <= top[k + d]
    BY <1>2, <2>1
  <2>3. top[k] \in Nat /\ top[k + d] \in Nat /\ top[k + (d + 1)] \in Nat
    BY <2>1
  <2> QED BY <2>1, <2>2, <2>3
<1>3. \A d \in 0..(m - k) : d \in T
  <2> HIDE DEF T
  <2>1. m - k \in Nat
    OBVIOUS
  <2> QED BY <1>1, <1>2, <2>1, ByInduction
<1>4. l - k \in T /\ k + (l - k) = l
  <2>1. l - k \in 0..(m - k) /\ k + (l - k) = l
    OBVIOUS
  <2> HIDE DEF T
  <2> QED BY <1>3, <2>1
<1> QED BY <1>4

----------------------------------------------------------------------------
(* The diff, run by run *)

DiffLine == [old : Nat, new : Nat, text : Line]

\* What the diff shows of a run that comes after `before` lines of each side.
Shows(run, before, s) ==
  LET r == Len(run.removed)
      a == Len(run.added)
  IN  /\ s \in Seq(DiffLine) /\ Len(s) = r + a + Len(run.kept)
      /\ \A j \in 1..r : s[j] = [old |-> before["old"] + j, new |-> None, text |-> run.removed[j].text]
      /\ \A j \in 1..a : s[r + j] = [old |-> None, new |-> before["new"] + j, text |-> run.added[j].text]
      /\ \A j \in 1..Len(run.kept) :
           s[r + a + j] = [old |-> before["old"] + r + 1, new |-> before["new"] + a + 1, text |-> run.kept[j].text]

\* The lines of the new side before a run, ...
LEMMA NewBeforeIs ==
  ASSUME NEW old, NEW new, NEW runs, NEW eo, NEW en, NEW A, Given(old, new, runs, eo, en, A), NEW k \in 1..Len(runs)
  PROVE  NewBefore(runs, k) = en[k - 1]
<1> DEFINE of(j) == runs[j].added \o runs[j].kept
           seqs == [j \in 1..(k - 1) |-> of(j)]
<1>1. Len(runs) \in Nat /\ k - 1 \in Nat /\ en[0] = 0 /\ en \in [0..Len(runs) -> Nat] /\ \A j \in 1..(k - 1) : j \in 1..Len(runs)
  BY DEF Given, Lined
<1>2. ASSUME NEW j \in 1..(k - 1) PROVE of(j) \in Seq(LineRec) /\ Len(of(j)) = en[j] - en[j - 1] /\ en[j] \in Nat /\ en[j - 1] \in Nat
  <2>1. RunLies(old, new, eo, en, runs[j], j, Len(runs))
    BY <1>1, RunHas
  <2>2. PICK x, y : x = runs[j].added /\ y = runs[j].kept
    OBVIOUS
  <2>3. /\ x \in Seq(LineRec) /\ y \in Seq(LineRec) /\ Len(x) + Len(y) = en[j] - en[j - 1]
        /\ en[j] \in Nat /\ en[j - 1] \in Nat
    BY <2>1, <2>2 DEF RunLies
  <2>4. x \o y \in Seq(LineRec) /\ Len(x \o y) = Len(x) + Len(y)
    BY <2>3, ConcatProperties
  <2> QED BY <2>2, <2>3, <2>4
<1> HIDE DEF of
<1>3. seqs \in Seq(Seq(LineRec)) /\ Len(seqs) = k - 1 /\ \A j \in 1..(k - 1) : seqs[j] = of(j)
  BY <1>1, <1>2
<1>4. NewBefore(runs, k) = Len(FlattenSeq(seqs))
  BY DEF NewBefore, of
<1> HIDE DEF seqs
<1>5. PICK top : EndsAt(top, seqs, FlattenSeq(seqs))
  BY <1>3, FlattenEnds
<1>6. /\ top \in [0..(k - 1) -> Nat] /\ top[0] = 0 /\ Len(FlattenSeq(seqs)) = top[k - 1]
      /\ \A j \in 1..(k - 1) : top[j] = top[j - 1] + Len(of(j))
  BY <1>3, <1>5 DEF EndsAt
<1> DEFINE T == {j \in 0..(k - 1) : top[j] = en[j]}
<1>7. 0 \in T
  BY <1>1, <1>6
<1>8. ASSUME NEW j \in 0..((k - 1) - 1), j \in T PROVE j + 1 \in T
  <2>1. PICK q : q = j + 1
    OBVIOUS
  <2>2. q \in 1..(k - 1) /\ q - 1 = j /\ q \in 0..(k - 1)
    BY <1>1, <2>1
  <2>3. top[q] = top[q - 1] + (en[q] - en[q - 1]) /\ en[q] \in Nat /\ en[q - 1] \in Nat
    BY <1>2, <1>6, <2>2
  <2>4. top[j] = en[j]
    BY <1>8
  <2> QED BY <2>1, <2>2, <2>3, <2>4
<1>9. \A j \in 0..(k - 1) : j \in T
  <2> HIDE DEF T
  <2> QED BY <1>1, <1>7, <1>8, ByInduction
<1>10. top[k - 1] = en[k - 1]
  BY <1>1, <1>9
<1> QED BY <1>4, <1>6, <1>10

\* ... and what the diff shows of it.
LEMMA RunIsShown ==
  ASSUME NEW old, NEW new, NEW runs, NEW eo, NEW en, NEW A, Given(old, new, runs, eo, en, A), NEW k \in 1..Len(runs)
  PROVE  Shows(runs[k], [old |-> eo[k - 1], new |-> en[k - 1]], RunInDiff(runs, k))
<1>1. PICK x, y, z, o, n : x = runs[k].removed /\ y = runs[k].added /\ z = runs[k].kept /\ o = eo[k - 1] /\ n = en[k - 1]
  OBVIOUS
<1>2. /\ x \in Seq(LineRec) /\ y \in Seq(LineRec) /\ z \in Seq(LineRec) /\ o \in Nat /\ n \in Nat /\ runs[k].after = o
  <2>1. RunLies(old, new, eo, en, runs[k], k, Len(runs))
    BY RunHas
  <2> QED BY <1>1, <2>1 DEF RunLies
<1>3. NewBefore(runs, k) = n
  BY <1>1, NewBeforeIs
<1> DEFINE gone == [i \in 1..Len(x) |-> [old |-> o + i, new |-> None, text |-> x[i].text]]
           come == [i \in 1..Len(y) |-> [old |-> None, new |-> n + i, text |-> y[i].text]]
           stays == [i \in DOMAIN z |-> [old |-> o + Len(x) + 1, new |-> n + Len(y) + 1, text |-> z[i].text]]
<1>4. RunInDiff(runs, k) = gone \o come \o stays
  BY <1>1, <1>2, <1>3 DEF RunInDiff
<1>5. /\ Len(x) \in Nat /\ \A i \in 1..Len(x) : x[i].text \in Line
      /\ Len(y) \in Nat /\ \A i \in 1..Len(y) : y[i].text \in Line
      /\ Len(z) \in Nat /\ DOMAIN z = 1..Len(z) /\ \A i \in 1..Len(z) : z[i].text \in Line
  <2>1. ASSUME NEW t \in Seq(LineRec)
        PROVE  Len(t) \in Nat /\ DOMAIN t = 1..Len(t) /\ \A i \in 1..Len(t) : t[i].text \in Line
    <3>1. Len(t) \in Nat /\ DOMAIN t = 1..Len(t) /\ \A i \in 1..Len(t) : t[i] \in LineRec
      BY LenProperties, ElementOfSeq
    <3> QED BY <3>1 DEF LineRec
  <2> QED BY <1>2, <2>1
<1>6. /\ gone \in Seq(DiffLine) /\ Len(gone) = Len(x)
      /\ \A i \in 1..Len(x) : gone[i] = [old |-> o + i, new |-> None, text |-> x[i].text]
  BY <1>2, <1>5 DEF DiffLine, None
<1>7. /\ come \in Seq(DiffLine) /\ Len(come) = Len(y)
      /\ \A i \in 1..Len(y) : come[i] = [old |-> None, new |-> n + i, text |-> y[i].text]
  BY <1>2, <1>5 DEF DiffLine, None
<1>8. /\ stays \in Seq(DiffLine) /\ Len(stays) = Len(z)
      /\ \A i \in 1..Len(z) : stays[i] = [old |-> o + Len(x) + 1, new |-> n + Len(y) + 1, text |-> z[i].text]
  BY <1>2, <1>5 DEF DiffLine
<1> HIDE DEF gone, come, stays
<1>9. PICK two : two = gone \o come
  OBVIOUS
<1>10. /\ two \in Seq(DiffLine) /\ Len(two) = Len(x) + Len(y)
       /\ \A i \in 1..(Len(x) + Len(y)) : two[i] = IF i <= Len(x) THEN gone[i] ELSE come[i - Len(x)]
  <2>1. /\ gone \o come \in Seq(DiffLine) /\ Len(gone \o come) = Len(gone) + Len(come)
        /\ \A i \in 1..(Len(gone) + Len(come)) : (gone \o come)[i] = IF i <= Len(gone) THEN gone[i] ELSE come[i - Len(gone)]
    BY <1>6, <1>7, ConcatProperties
  <2>2. Len(gone) = Len(x) /\ Len(come) = Len(y)
    BY <1>6, <1>7
  <2> QED BY <1>9, <2>1, <2>2
<1>11. PICK s : s = two \o stays
  OBVIOUS
<1>12. /\ s \in Seq(DiffLine) /\ Len(s) = (Len(x) + Len(y)) + Len(z)
       /\ \A i \in 1..((Len(x) + Len(y)) + Len(z)) : s[i] = IF i <= Len(x) + Len(y) THEN two[i] ELSE stays[i - (Len(x) + Len(y))]
  <2>1. /\ two \o stays \in Seq(DiffLine) /\ Len(two \o stays) = Len(two) + Len(stays)
        /\ \A i \in 1..(Len(two) + Len(stays)) : (two \o stays)[i] = IF i <= Len(two) THEN two[i] ELSE stays[i - Len(two)]
    <3>1. two \in Seq(DiffLine) /\ stays \in Seq(DiffLine)
      BY <1>8, <1>10
    <3> QED BY <3>1, ConcatProperties
  <2>2. Len(two) = Len(x) + Len(y) /\ Len(stays) = Len(z)
    BY <1>8, <1>10
  <2> QED BY <1>11, <2>1, <2>2
<1>13. ASSUME NEW i \in 1..Len(x) PROVE s[i] = gone[i]
  <2>1. i \in 1..((Len(x) + Len(y)) + Len(z)) /\ i <= Len(x) + Len(y) /\ i \in 1..(Len(x) + Len(y)) /\ i <= Len(x)
    BY <1>5
  <2> QED BY <1>10, <1>12, <2>1
<1>14. ASSUME NEW i \in 1..Len(y) PROVE s[Len(x) + i] = come[i]
  <2>1. PICK q : q = Len(x) + i
    OBVIOUS
  <2>2. q \in 1..((Len(x) + Len(y)) + Len(z)) /\ q <= Len(x) + Len(y) /\ q \in 1..(Len(x) + Len(y)) /\ ~(q <= Len(x)) /\ q - Len(x) = i
    BY <1>5, <2>1
  <2> QED BY <1>10, <1>12, <2>1, <2>2
<1>15. ASSUME NEW i \in 1..Len(z) PROVE s[Len(x) + Len(y) + i] = stays[i]
  <2>1. PICK q : q = Len(x) + Len(y) + i
    OBVIOUS
  <2>2. q \in 1..((Len(x) + Len(y)) + Len(z)) /\ ~(q <= Len(x) + Len(y)) /\ q - (Len(x) + Len(y)) = i
    BY <1>5, <2>1
  <2> QED BY <1>12, <2>1, <2>2
<1>16. RunInDiff(runs, k) = s
  BY <1>4, <1>9, <1>11
<1>17. PICK b : b = [old |-> o, new |-> n]
  OBVIOUS
<1>18. b["old"] = o /\ b["new"] = n
  BY <1>17
<1>19. Shows(runs[k], b, s)
  BY <1>1, <1>6, <1>7, <1>8, <1>12, <1>13, <1>14, <1>15, <1>18 DEF Shows
<1> QED BY <1>1, <1>16, <1>17, <1>19

\* The diff is what it shows of one run after the other.
LEMMA DiffIsLaid ==
  ASSUME NEW old, NEW new, NEW runs, NEW eo, NEW en, NEW A, Given(old, new, runs, eo, en, A)
  PROVE  DiffLines(runs) \in Seq(DiffLine)
         /\ \E top : EndsAt(top, [k \in 1..Len(runs) |-> RunInDiff(runs, k)], DiffLines(runs))
<1> DEFINE seqs == [k \in 1..Len(runs) |-> RunInDiff(runs, k)]
<1>1. DOMAIN runs = 1..Len(runs) /\ Len(runs) \in Nat
  BY DEF Given, Lined
<1>2. \A k \in 1..Len(runs) : RunInDiff(runs, k) \in Seq(DiffLine)
  BY RunIsShown DEF Shows
<1>3. seqs \in Seq(Seq(DiffLine))
  BY <1>1, <1>2
<1>4. DiffLines(runs) = FlattenSeq(seqs)
  BY <1>1 DEF DiffLines
<1> HIDE DEF seqs
<1>5. FlattenSeq(seqs) \in Seq(DiffLine) /\ \E top : EndsAt(top, seqs, FlattenSeq(seqs))
  BY <1>3, FlattenEnds
<1> QED BY <1>4, <1>5 DEF seqs

\* The j-th line the diff shows of a run, after o lines of the old side and n of the new one.
ShownLine(run, o, n, j) ==
  LET r == Len(run.removed)
      a == Len(run.added)
  IN  IF j <= r THEN [old |-> o + j, new |-> None, text |-> run.removed[j].text]
      ELSE IF j <= r + a THEN [old |-> None, new |-> n + (j - r), text |-> run.added[j - r].text]
      ELSE [old |-> o + r + 1, new |-> n + a + 1, text |-> run.kept[j - (r + a)].text]

\* Run k is shown from line top[k - 1] of the diff to line top[k], after eo[k - 1] old and en[k - 1] new lines.
RunStands(diff, runs, eo, en, top, k) ==
  LET r == Len(runs[k].removed)
      a == Len(runs[k].added)
      c == IF k = Len(runs) THEN 0 ELSE 1
  IN  /\ r \in Nat /\ a \in Nat /\ runs[k].removed \in Seq(LineRec) /\ runs[k].added \in Seq(LineRec)
      /\ runs[k].after = eo[k - 1] /\ NewBefore(runs, k) = en[k - 1]
      /\ eo[k] = eo[k - 1] + r + c /\ en[k] = en[k - 1] + a + c /\ top[k] = top[k - 1] + r + a + c
      /\ \A j \in 1..(r + a + c) : diff[top[k - 1] + j] = ShownLine(runs[k], eo[k - 1], en[k - 1], j)

Stands(diff, runs, eo, en, top) ==
  /\ Len(runs) \in Nat \ {0} /\ DOMAIN runs = 1..Len(runs)
  /\ eo \in [0..Len(runs) -> Nat] /\ eo[0] = 0 /\ en \in [0..Len(runs) -> Nat] /\ en[0] = 0
  /\ top \in [0..Len(runs) -> Nat] /\ top[0] = 0 /\ Len(diff) = top[Len(runs)] /\ DOMAIN diff = 1..Len(diff)
  /\ \A k \in 1..Len(runs) : RunStands(diff, runs, eo, en, top, k)

\* A diff of a report stands, run by run.
LEMMA DiffStands ==
  ASSUME NEW old, NEW new, NEW runs, NEW eo, NEW en, NEW A, Given(old, new, runs, eo, en, A)
  PROVE  \E top : Stands(DiffLines(runs), runs, eo, en, top)
<1> DEFINE seqs == [k \in 1..Len(runs) |-> RunInDiff(runs, k)]
<1>1. PICK diff : diff = DiffLines(runs)
  OBVIOUS
<1>2. diff \in Seq(DiffLine) /\ \E top : EndsAt(top, seqs, diff)
  BY <1>1, DiffIsLaid
<1>3. PICK top : EndsAt(top, seqs, diff)
  BY <1>2
<1>4. /\ Len(runs) \in Nat \ {0} /\ DOMAIN runs = 1..Len(runs)
      /\ eo \in [0..Len(runs) -> Nat] /\ eo[0] = 0 /\ en \in [0..Len(runs) -> Nat] /\ en[0] = 0
  BY DEF Given, Lined
<1>5. Len(seqs) = Len(runs)
  BY <1>4
<1>6. /\ top \in [0..Len(runs) -> Nat] /\ top[0] = 0 /\ Len(diff) = top[Len(runs)]
      /\ \A k \in 1..Len(runs) : /\ top[k] = top[k - 1] + Len(RunInDiff(runs, k))
                                 /\ \A j \in 1..Len(RunInDiff(runs, k)) : diff[top[k - 1] + j] = RunInDiff(runs, k)[j]
  <2>1. \A k \in 1..Len(runs) : seqs[k] = RunInDiff(runs, k)
    OBVIOUS
  <2> HIDE DEF seqs
  <2> QED BY <1>3, <1>5, <2>1 DEF EndsAt
<1>7. ASSUME NEW k \in 1..Len(runs) PROVE RunStands(diff, runs, eo, en, top, k)
  <2>1. RunLies(old, new, eo, en, runs[k], k, Len(runs))
    BY RunHas
  <2>2. PICK x, y, z, o, n, s, c : /\ x = runs[k].removed /\ y = runs[k].added /\ z = runs[k].kept /\ o = eo[k - 1] /\ n = en[k - 1]
                                   /\ s = RunInDiff(runs, k) /\ c = IF k = Len(runs) THEN 0 ELSE 1
    OBVIOUS
  <2>3. /\ x \in Seq(LineRec) /\ y \in Seq(LineRec) /\ z \in Seq(LineRec) /\ o \in Nat /\ n \in Nat
        /\ runs[k].after = o /\ eo[k] \in Nat /\ en[k] \in Nat
        /\ Len(x) + Len(z) = eo[k] - o /\ Len(y) + Len(z) = en[k] - n /\ Len(z) = c
    <3>1. z = <<>> => Len(z) = 0
      OBVIOUS
    <3> QED BY <2>1, <2>2, <3>1 DEF RunLies
  <2>4. /\ Len(x) \in Nat /\ DOMAIN x = 1..Len(x) /\ Len(y) \in Nat /\ DOMAIN y = 1..Len(y) /\ c \in {0, 1}
    BY <2>2, <2>3
  <2>5. NewBefore(runs, k) = n
    BY <2>2, NewBeforeIs
  <2>6. PICK b : b = [old |-> o, new |-> n]
    OBVIOUS
  <2>7. b["old"] = o /\ b["new"] = n
    BY <2>6
  <2>8. Shows(runs[k], b, s)
    BY <2>2, <2>6, RunIsShown
  <2>9. /\ Len(s) = Len(x) + Len(y) + c
        /\ \A j \in 1..Len(x) : s[j] = [old |-> o + j, new |-> None, text |-> x[j].text]
        /\ \A j \in 1..Len(y) : s[Len(x) + j] = [old |-> None, new |-> n + j, text |-> y[j].text]
        /\ \A j \in 1..c : s[Len(x) + Len(y) + j] = [old |-> o + Len(x) + 1, new |-> n + Len(y) + 1, text |-> z[j].text]
    BY <2>2, <2>3, <2>7, <2>8 DEF Shows
  <2>10. ASSUME NEW j \in 1..(Len(x) + Len(y) + c) PROVE s[j] = ShownLine(runs[k], o, n, j)
    <3>1. CASE j <= Len(x)
      <4>1. j \in 1..Len(x)
        BY <2>4, <3>1
      <4> QED BY <2>2, <2>9, <3>1, <4>1 DEF ShownLine
    <3>2. CASE ~(j <= Len(x)) /\ j <= Len(x) + Len(y)
      <4>1. PICK q : q = j - Len(x)
        OBVIOUS
      <4>2. q \in 1..Len(y) /\ Len(x) + q = j
        BY <2>4, <3>2, <4>1
      <4>3. s[j] = [old |-> None, new |-> n + q, text |-> y[q].text]
        BY <2>9, <4>2
      <4>4. ShownLine(runs[k], o, n, j) = [old |-> None, new |-> n + (j - Len(x)), text |-> y[j - Len(x)].text]
        BY <2>2, <3>2 DEF ShownLine
      <4> QED BY <4>1, <4>3, <4>4
    <3>3. CASE ~(j <= Len(x)) /\ ~(j <= Len(x) + Len(y))
      <4>1. PICK q : q = j - (Len(x) + Len(y))
        OBVIOUS
      <4>2. q \in 1..c /\ Len(x) + Len(y) + q = j
        BY <2>4, <3>3, <4>1
      <4>3. s[j] = [old |-> o + Len(x) + 1, new |-> n + Len(y) + 1, text |-> z[q].text]
        BY <2>9, <4>2
      <4>4. ShownLine(runs[k], o, n, j) = [old |-> o + Len(x) + 1, new |-> n + Len(y) + 1, text |-> z[j - (Len(x) + Len(y))].text]
        BY <2>2, <3>3 DEF ShownLine
      <4> QED BY <4>1, <4>3, <4>4
    <3> QED BY <3>1, <3>2, <3>3
  <2>11. /\ top[k] = top[k - 1] + Len(s) /\ \A j \in 1..Len(s) : diff[top[k - 1] + j] = s[j]
    BY <1>6, <2>2
  <2>12. /\ eo[k] = o + Len(x) + c /\ en[k] = n + Len(y) + c
    <3>1. PICK e, f, l, q, t : e = eo[k] /\ f = en[k] /\ l = Len(x) /\ q = Len(y) /\ t = Len(z)
      OBVIOUS
    <3>2. e \in Nat /\ f \in Nat /\ l \in Nat /\ q \in Nat /\ t = c /\ c \in {0, 1} /\ o \in Nat /\ n \in Nat /\ l + t = e - o /\ q + t = f - n
      BY <2>3, <2>4, <3>1
    <3>3. e = o + l + c /\ f = n + q + c
      BY <3>2
    <3> QED BY <3>1, <3>3
  <2>13. top[k] = top[k - 1] + Len(x) + Len(y) + c
    <3>1. k - 1 \in 0..Len(runs)
      BY <1>4
    <3>2. top[k - 1] \in Nat
      BY <1>6, <3>1
    <3> QED BY <2>4, <2>9, <2>11, <3>2
  <2>14. \A j \in 1..(Len(x) + Len(y) + c) : diff[top[k - 1] + j] = ShownLine(runs[k], o, n, j)
    BY <2>9, <2>10, <2>11
  <2> QED BY <2>2, <2>3, <2>4, <2>5, <2>12, <2>13, <2>14 DEF RunStands
<1>8. DOMAIN diff = 1..Len(diff)
  BY <1>2
<1>9. Stands(diff, runs, eo, en, top)
  BY <1>4, <1>6, <1>7, <1>8 DEF Stands
<1> QED BY <1>1, <1>9

----------------------------------------------------------------------------
(* The lines counted *)

\* How many of the first j lines shown of a run are on a side, and how many were before it.
Up(run, side, j) ==
  LET r == Len(run.removed)
  IN  IF side = "old" THEN IF j <= r THEN j ELSE IF j <= r + Len(run.added) THEN r ELSE r + 1
      ELSE IF j <= r THEN 0 ELSE j - r
Base(eo, en, side, k) == IF side = "old" THEN eo[k - 1] ELSE en[k - 1]
RowAt(top, m, i) == CHOOSE k \in 1..m : top[k - 1] < i /\ i <= top[k]
Counts(runs, eo, en, top) ==
  [s \in Side |->
     [i \in 0..top[Len(runs)] |->
        IF i = 0 THEN 0
        ELSE LET k == RowAt(top, Len(runs), i) IN Base(eo, en, s, k) + Up(runs[k], s, i - top[k - 1])]]

\* The sizes of a run, and that those after it come later.
LEMMA RunSizes ==
  ASSUME NEW diff, NEW runs, NEW eo, NEW en, NEW top, Stands(diff, runs, eo, en, top), NEW k \in 1..Len(runs)
  PROVE  LET r == Len(runs[k].removed)
             a == Len(runs[k].added)
             c == IF k = Len(runs) THEN 0 ELSE 1
         IN  /\ r \in Nat /\ a \in Nat /\ k - 1 \in 0..Len(runs) /\ k \in 0..Len(runs) /\ Len(runs) \in Nat
             /\ eo[k - 1] \in Nat /\ en[k - 1] \in Nat /\ top[k - 1] \in Nat
             /\ eo[k] = eo[k - 1] + r + c /\ en[k] = en[k - 1] + a + c /\ top[k] = top[k - 1] + r + a + c
             /\ top[k] \in Nat /\ top[k] <= top[Len(runs)]
             /\ \A l \in (k + 1)..Len(runs) : top[k] <= top[l - 1]
<1>r. PICK r, a, c : r = Len(runs[k].removed) /\ a = Len(runs[k].added) /\ c = IF k = Len(runs) THEN 0 ELSE 1
  OBVIOUS
<1>0. PICK m : m = Len(runs)
  OBVIOUS
<1>1. /\ m \in Nat /\ k \in 1..m /\ eo \in [0..m -> Nat] /\ en \in [0..m -> Nat] /\ top \in [0..m -> Nat]
  BY <1>0 DEF Stands
<1>2. ASSUME NEW l \in 1..m PROVE top[l - 1] <= top[l] /\ RunStands(diff, runs, eo, en, top, l)
  <2>1. RunStands(diff, runs, eo, en, top, l)
    BY <1>0 DEF Stands
  <2>2. l - 1 \in 0..m
    BY <1>1
  <2>3. PICK x, y, z : x = Len(runs[l].removed) /\ y = Len(runs[l].added) /\ z = IF l = m THEN 0 ELSE 1
    OBVIOUS
  <2>4. x \in Nat /\ y \in Nat /\ z \in {0, 1} /\ top[l] = top[l - 1] + x + y + z
    BY <1>0, <2>1, <2>3 DEF RunStands
  <2>5. PICK p, q : p = top[l - 1] /\ q = top[l]
    OBVIOUS
  <2>6. p \in Nat /\ q = p + x + y + z
    BY <1>1, <2>2, <2>4, <2>5
  <2>7. p <= q
    BY <2>4, <2>6
  <2> QED BY <2>1, <2>5, <2>7
<1>3. RunStands(diff, runs, eo, en, top, k)
  BY <1>0, <1>2
<1>4. k - 1 \in 0..m /\ k \in 0..m /\ m \in k..m
  BY <1>1
<1>5. /\ r \in Nat /\ a \in Nat /\ c \in {0, 1}
      /\ eo[k] = eo[k - 1] + r + c /\ en[k] = en[k - 1] + a + c /\ top[k] = top[k - 1] + r + a + c
  BY <1>3, <1>r DEF RunStands
<1>6. \A l \in 1..m : top[l - 1] <= top[l]
  BY <1>2
<1>7. top[k] <= top[m]
  BY <1>1, <1>4, <1>6, StepsRise
<1>8. ASSUME NEW l \in (k + 1)..m PROVE top[k] <= top[l - 1]
  <2>1. l - 1 \in k..m
    BY <1>1
  <2> QED BY <1>1, <1>4, <1>6, <2>1, StepsRise
<1> QED BY <1>0, <1>r, <1>1, <1>4, <1>5, <1>7, <1>8

\* Where a run begins and ends in the diff.
LEMMA RunEnds ==
  ASSUME NEW diff, NEW runs, NEW eo, NEW en, NEW top, Stands(diff, runs, eo, en, top), NEW k \in 1..Len(runs)
  PROVE  /\ Len(runs) \in Nat /\ top[k - 1] \in Nat /\ top[k] \in Nat /\ top[Len(runs)] \in Nat
         /\ top[k - 1] <= top[k] /\ top[k] <= top[Len(runs)]
         /\ \A l \in (k + 1)..Len(runs) : top[k] <= top[l - 1]
<1>1. PICK r, a, c, p, q : /\ r = Len(runs[k].removed) /\ a = Len(runs[k].added) /\ c = IF k = Len(runs) THEN 0 ELSE 1
                           /\ p = top[k - 1] /\ q = top[k]
  OBVIOUS
<1>2. /\ r \in Nat /\ a \in Nat /\ c \in {0, 1} /\ Len(runs) \in Nat /\ p \in Nat /\ q \in Nat /\ q = p + r + a + c
      /\ top[k] <= top[Len(runs)] /\ \A l \in (k + 1)..Len(runs) : top[k] <= top[l - 1]
  BY <1>1, RunSizes
<1>3. p <= q
  BY <1>2
<1>4. top[Len(runs)] \in Nat
  BY DEF Stands
<1> QED BY <1>1, <1>2, <1>3, <1>4

\* A line of the diff is in one run.
LEMMA RowIs ==
  ASSUME NEW diff, NEW runs, NEW eo, NEW en, NEW top, Stands(diff, runs, eo, en, top),
         NEW k \in 1..Len(runs), NEW i, i \in (top[k - 1] + 1)..top[k]
  PROVE  RowAt(top, Len(runs), i) = k
<1>1. /\ Len(runs) \in Nat /\ top[k - 1] \in Nat /\ top[k] \in Nat
      /\ \A l \in (k + 1)..Len(runs) : top[k] <= top[l - 1]
  BY RunEnds
<1>2. ASSUME NEW l \in 1..Len(runs), top[l - 1] < i, i <= top[l] PROVE l = k
  <2>1. /\ top[l - 1] \in Nat /\ top[l] \in Nat /\ \A j \in (l + 1)..Len(runs) : top[l] <= top[j - 1]
    BY RunEnds
  <2>2. ~(l > k)
    <3> SUFFICES ASSUME l > k PROVE FALSE
      OBVIOUS
    <3>1. l \in (k + 1)..Len(runs)
      BY <1>1
    <3> QED BY <1>1, <1>2, <2>1, <3>1
  <2>3. ~(k > l)
    <3> SUFFICES ASSUME k > l PROVE FALSE
      OBVIOUS
    <3>1. k \in (l + 1)..Len(runs)
      BY <1>1
    <3> QED BY <1>1, <1>2, <2>1, <3>1
  <2> QED BY <2>2, <2>3
<1>3. top[k - 1] < i /\ i <= top[k]
  BY <1>1
<1> QED BY <1>2, <1>3 DEF RowAt

\* The count at the j-th line of a run.
LEMMA CountIs ==
  ASSUME NEW diff, NEW runs, NEW eo, NEW en, NEW top, Stands(diff, runs, eo, en, top),
         NEW k \in 1..Len(runs), NEW j \in 0..(top[k] - top[k - 1]), NEW s \in Side
  PROVE  Counts(runs, eo, en, top)[s][top[k - 1] + j] = Base(eo, en, s, k) + Up(runs[k], s, j)
<1> DEFINE m == Len(runs)
           N == Counts(runs, eo, en, top)
<1>1. ASSUME NEW l \in 1..m, NEW d \in 1..(top[l] - top[l - 1])
      PROVE  N[s][top[l - 1] + d] = Base(eo, en, s, l) + Up(runs[l], s, d)
  <2>1. m \in Nat /\ top[l - 1] \in Nat /\ top[l] \in Nat /\ top[l] <= top[m] /\ top[m] \in Nat
    BY RunEnds
  <2>2. PICK i, p, q, t : i = p + d /\ p = top[l - 1] /\ q = top[l] /\ t = top[m]
    OBVIOUS
  <2>3. p \in Nat /\ q \in Nat /\ t \in Nat /\ q <= t /\ d \in 1..(q - p)
    <3> HIDE DEF m, N
    <3> QED BY <1>1, <2>1, <2>2
  <2>a. i \in (p + 1)..q /\ i \in 0..t /\ i # 0 /\ i - p = d
    <3>1. i = p + d /\ p \in Nat /\ q \in Nat /\ t \in Nat /\ q <= t
      BY <2>2, <2>3
    <3>2. d \in Int /\ 1 <= d /\ d <= q - p
      BY <2>3
    <3> QED BY ONLY <3>1, <3>2
  <2>4. i \in (top[l - 1] + 1)..top[l] /\ i \in 0..top[m] /\ i # 0 /\ i - top[l - 1] = d
    BY <2>2, <2>a
  <2>5. RowAt(top, m, i) = l
    BY <2>4, RowIs
  <2>6. N[s][i] = Base(eo, en, s, RowAt(top, m, i)) + Up(runs[RowAt(top, m, i)], s, i - top[RowAt(top, m, i) - 1])
    BY <2>4 DEF Counts
  <2> QED BY <2>2, <2>4, <2>5, <2>6
<1>2. CASE j # 0
  BY <1>1, <1>2
<1>3. PICK r, a, c : r = Len(runs[k].removed) /\ a = Len(runs[k].added) /\ c = IF k = m THEN 0 ELSE 1
  OBVIOUS
<1>4. r \in Nat /\ a \in Nat /\ m \in Nat /\ eo[k - 1] \in Nat /\ en[k - 1] \in Nat /\ top[k - 1] \in Nat /\ top[m] \in Nat
  <2>1. top[m] \in Nat
    BY RunEnds
  <2>2. r \in Nat /\ a \in Nat /\ Len(runs) \in Nat /\ eo[k - 1] \in Nat /\ en[k - 1] \in Nat /\ top[k - 1] \in Nat
    BY <1>3, RunSizes
  <2> QED BY <2>1, <2>2
<1>5. CASE j = 0
  <2>1. Up(runs[k], s, j) = 0
    <3>1. j <= r
      BY <1>4, <1>5
    <3> QED BY <1>3, <1>5, <3>1 DEF Up
  <2>2. Base(eo, en, s, k) \in Nat
    BY <1>4 DEF Base
  <2>3. CASE k = 1
    <3>1. eo[0] = 0 /\ en[0] = 0 /\ top[0] = 0 /\ k - 1 = 0
      BY <2>3 DEF Stands
    <3>2. Base(eo, en, s, k) = 0
      BY <3>1 DEF Base
    <3>3. 0 \in 0..top[m]
      BY <1>4
    <3>4. N[s][0] = 0
      BY <3>3 DEF Counts
    <3> QED BY <1>5, <2>1, <3>1, <3>2, <3>4
  <2>4. CASE k # 1
    <3>1. PICK l : l = k - 1
      OBVIOUS
    <3>2. l \in 1..m /\ l # m /\ l + 1 = k
      BY <1>4, <2>4, <3>1
    <3>3. PICK x, y, z : x = Len(runs[l].removed) /\ y = Len(runs[l].added) /\ z = IF l = m THEN 0 ELSE 1
      OBVIOUS
    <3>4. /\ x \in Nat /\ y \in Nat /\ eo[l - 1] \in Nat /\ en[l - 1] \in Nat /\ top[l - 1] \in Nat
          /\ eo[l] = eo[l - 1] + x + z /\ en[l] = en[l - 1] + y + z /\ top[l] = top[l - 1] + x + y + z
      <4>1. l \in 1..Len(runs) /\ x = Len(runs[l].removed) /\ y = Len(runs[l].added) /\ z = IF l = Len(runs) THEN 0 ELSE 1
        BY <3>2, <3>3
      <4> HIDE DEF m, N
      <4>2. /\ x \in Nat /\ y \in Nat /\ z \in {0, 1} /\ l - 1 \in 0..Len(runs) /\ l \in 0..Len(runs) /\ Len(runs) \in Nat
            /\ eo[l - 1] \in Nat /\ en[l - 1] \in Nat /\ top[l - 1] \in Nat
            /\ eo[l] = eo[l - 1] + x + z /\ en[l] = en[l - 1] + y + z /\ top[l] = top[l - 1] + x + y + z
        BY <4>1, RunSizes
      <4> QED BY <4>2
    <3>5. PICK d, t, u : d = x + y + z /\ t = top[l - 1] /\ u = top[l]
      OBVIOUS
    <3>a. z = 1 /\ t \in Nat /\ u = t + x + y + z /\ x \in Nat /\ y \in Nat
      BY <3>2, <3>3, <3>4, <3>5
    <3>b. d \in 1..(u - t) /\ u = t + d
      <4>1. d = x + y + 1 /\ u = t + (x + y + 1)
        BY <3>5, <3>a
      <4> QED BY <3>a, <4>1
    <3>6. z = 1 /\ d \in 1..(top[l] - top[l - 1]) /\ top[l] = top[l - 1] + d
      BY <3>5, <3>a, <3>b
    <3>7. N[s][top[l]] = Base(eo, en, s, l) + Up(runs[l], s, d)
      BY <1>1, <3>2, <3>6
    <3>8. Base(eo, en, s, l) + Up(runs[l], s, d) = Base(eo, en, s, k)
      <4>1. d = x + y + 1 /\ ~(d <= x) /\ ~(d <= x + y) /\ d - x = y + 1
        BY <3>4, <3>5, <3>6
      <4>2. CASE s = "old"
        <5>1. Up(runs[l], s, d) = x + 1
          BY <3>3, <4>1, <4>2 DEF Up
        <5>2. Base(eo, en, s, l) = eo[l - 1] /\ Base(eo, en, s, k) = eo[l]
          BY <3>1, <4>2 DEF Base
        <5>3. eo[l] = eo[l - 1] + (x + 1)
          <6>1. PICK p, q : p = eo[l - 1] /\ q = eo[l]
            OBVIOUS
          <6>2. p \in Nat /\ q = p + x + 1 /\ x \in Nat
            BY <3>4, <3>6, <6>1
          <6> QED BY <6>1, <6>2
        <5> QED BY <5>1, <5>2, <5>3
      <4>3. CASE s # "old"
        <5>1. Up(runs[l], s, d) = y + 1
          BY <3>3, <4>1, <4>3 DEF Up
        <5>2. Base(eo, en, s, l) = en[l - 1] /\ Base(eo, en, s, k) = en[l]
          BY <3>1, <4>3 DEF Base
        <5>3. en[l] = en[l - 1] + (y + 1)
          <6>1. PICK p, q : p = en[l - 1] /\ q = en[l]
            OBVIOUS
          <6>2. p \in Nat /\ q = p + y + 1 /\ y \in Nat
            BY <3>4, <3>6, <6>1
          <6> QED BY <6>1, <6>2
        <5> QED BY <5>1, <5>2, <5>3
      <4> QED BY <4>2, <4>3
    <3>9. top[k - 1] + j = top[l]
      BY <1>4, <1>5, <3>1
    <3> QED BY <2>1, <2>2, <3>7, <3>8, <3>9
  <2> QED BY <2>3, <2>4
<1> QED BY <1>2, <1>5

\* A line shown of a run is counted on the sides it is on, has changed but for the one that
\* stays, and keeps its text under its number.
Tells(run, o, n, j, l) ==
  /\ \A s \in Side :
       LET b == IF s = "old" THEN o ELSE n
           kept == IF s = "old" THEN run.removed ELSE run.added
       IN  /\ Up(run, s, j) \in Nat /\ Up(run, s, j - 1) \in Nat
           /\ IF l[s] = None THEN Up(run, s, j) = Up(run, s, j - 1)
              ELSE Up(run, s, j) = Up(run, s, j - 1) + 1 /\ l[s] = b + Up(run, s, j)
           /\ j <= Len(run.removed) + Len(run.added) /\ l[s] # None => kept[l[s] - b].text = l.text
  /\ Changed(l) <=> j <= Len(run.removed) + Len(run.added)
  /\ \E s \in Side : l[s] # None

\* It tells so of each line shown of it.
LEMMA ShownCounts ==
  ASSUME NEW run, NEW r \in Nat, NEW a \in Nat, r = Len(run.removed), a = Len(run.added),
         NEW o \in Nat, NEW n \in Nat, NEW j \in 1..(r + a + 1), NEW l, l = ShownLine(run, o, n, j)
  PROVE  Tells(run, o, n, j, l)
<1>0. r \in Nat /\ a \in Nat /\ o \in Nat /\ n \in Nat /\ j \in 1..(r + a + 1)
  OBVIOUS
<1> DEFINE b(s) == IF s = "old" THEN o ELSE n
           kept(s) == IF s = "old" THEN run.removed ELSE run.added
           Told(s) == /\ Up(run, s, j) \in Nat /\ Up(run, s, j - 1) \in Nat
                      /\ IF l[s] = None THEN Up(run, s, j) = Up(run, s, j - 1)
                         ELSE Up(run, s, j) = Up(run, s, j - 1) + 1 /\ l[s] = b(s) + Up(run, s, j)
                      /\ j <= r + a /\ l[s] # None => kept(s)[l[s] - b(s)].text = l.text
<1> SUFFICES Told("old") /\ Told("new") /\ (Changed(l) <=> j <= r + a) /\ (l["old"] # None \/ l["new"] # None)
  BY DEF Side, Tells
<1>1. CASE j <= r
  <2>1. l = [old |-> o + j, new |-> None, text |-> run.removed[j].text]
    BY <1>1 DEF ShownLine
  <2>2. l["old"] = o + j /\ l["new"] = None /\ l.old = o + j /\ l.new = None /\ l.text = run.removed[j].text
    BY <2>1
  <2>3. /\ Up(run, "old", j) = j /\ Up(run, "new", j) = 0
    BY <1>1 DEF Up
  <2>4. (o + j) - o = j /\ o + j # 0 /\ j <= r + a /\ j - 1 \in Nat /\ j \in Nat /\ j - 1 <= r /\ j = (j - 1) + 1
    BY ONLY <1>0, <1>1
  <2>5. Up(run, "old", j - 1) = j - 1 /\ Up(run, "new", j - 1) = 0
    BY <2>4 DEF Up
  <2>6. Told("old")
    <3>1. b("old") = o /\ kept("old") = run.removed
      OBVIOUS
    <3> HIDE DEF b, kept
    <3> QED BY <2>2, <2>3, <2>4, <2>5, <3>1, Zenon DEF None
  <2>7. Told("new")
    <3> HIDE DEF b, kept
    <3>1. 0 \in Nat
      OBVIOUS
    <3> QED BY <2>2, <2>3, <2>5, <3>1, Zenon DEF None
  <2> QED BY <2>2, <2>4, <2>6, <2>7, Zenon DEF Changed, None
<1>2. CASE ~(j <= r) /\ j <= r + a
  <2>1. l = [old |-> None, new |-> n + (j - r), text |-> run.added[j - r].text]
    BY <1>2 DEF ShownLine
  <2>2. l["old"] = None /\ l["new"] = n + (j - r) /\ l.old = None /\ l.new = n + (j - r) /\ l.text = run.added[j - r].text
    BY <2>1
  <2>3. /\ Up(run, "old", j) = r /\ Up(run, "new", j) = j - r
    BY <1>2 DEF Up
  <2>4. /\ (n + (j - r)) - n = j - r /\ n + (j - r) # 0 /\ j - r \in Nat /\ n + (j - r) \in Nat
        /\ j - 1 <= r + a /\ (j - 1 <= r => j - 1 = r /\ (j - r) - 1 = 0)
        /\ (j - r) - 1 \in Nat /\ (j - 1) - r = (j - r) - 1 /\ j - r = ((j - r) - 1) + 1
    BY ONLY <1>0, <1>2
  <2>5. Up(run, "old", j - 1) = r /\ Up(run, "new", j - 1) = (j - r) - 1
    BY <2>4 DEF Up
  <2>6. Told("new")
    <3>1. b("new") = n /\ kept("new") = run.added
      OBVIOUS
    <3> HIDE DEF b, kept
    <3> QED BY <2>2, <2>3, <2>4, <2>5, <3>1, Zenon DEF None
  <2>7. Told("old")
    <3> HIDE DEF b, kept
    <3> QED BY <1>0, <2>2, <2>3, <2>5, Zenon DEF None
  <2> QED BY <1>2, <2>2, <2>4, <2>6, <2>7, Zenon DEF Changed, None
<1>3. CASE ~(j <= r + a)
  <2>0. j = r + a + 1 /\ ~(j <= r) /\ j - 1 <= r + a /\ j - r = a + 1 /\ (j - 1) - r = a
        /\ (j - 1 <= r => a = 0 /\ j - 1 = r) /\ r + 1 \in Nat /\ a + 1 \in Nat
    BY ONLY <1>0, <1>3
  <2>1. l = [old |-> o + r + 1, new |-> n + a + 1, text |-> run.kept[j - (r + a)].text]
    BY <1>3, <2>0 DEF ShownLine
  <2>2. l["old"] = o + r + 1 /\ l["new"] = n + a + 1 /\ l.old = o + r + 1 /\ l.new = n + a + 1
    BY <2>1
  <2>3. /\ Up(run, "old", j) = r + 1 /\ Up(run, "new", j) = a + 1
    BY <1>3, <2>0 DEF Up
  <2>5. Up(run, "old", j - 1) = r /\ Up(run, "new", j - 1) = a
    BY <2>0 DEF Up
  <2>4. o + r + 1 # 0 /\ n + a + 1 # 0 /\ o + r + 1 = o + (r + 1) /\ n + a + 1 = n + (a + 1)
    BY ONLY <1>0
  <2>6. Told("old")
    <3>1. b("old") = o
      OBVIOUS
    <3> HIDE DEF b, kept
    <3> QED BY <1>0, <1>3, <2>0, <2>2, <2>3, <2>4, <2>5, <3>1, Zenon DEF None
  <2>7. Told("new")
    <3>1. b("new") = n
      OBVIOUS
    <3> HIDE DEF b, kept
    <3> QED BY <1>0, <1>3, <2>0, <2>2, <2>3, <2>4, <2>5, <3>1, Zenon DEF None
  <2> QED BY <1>3, <2>2, <2>4, <2>6, <2>7, Zenon DEF Changed, None
<1> QED BY <1>1, <1>2, <1>3

\* Line i of the diff, the j-th of a run that is shown after line t.
LineIs(diff, run, N, t, j, i) ==
  /\ i \in 1..Len(diff) /\ i - 1 \in 0..Len(diff)
  /\ \A s \in Side :
       /\ N[s][i - 1] \in Nat /\ N[s][i] \in Nat
       /\ IF diff[i][s] = None THEN N[s][i] = N[s][i - 1] ELSE N[s][i] = N[s][i - 1] + 1 /\ diff[i][s] = N[s][i]
       /\ j <= Len(run.removed) + Len(run.added) /\ diff[i][s] # None =>
            (IF s = "old" THEN run.removed ELSE run.added)[diff[i][s] - N[s][t]].text = diff[i].text
  /\ Changed(diff[i]) <=> j <= Len(run.removed) + Len(run.added)
  /\ \E s \in Side : diff[i][s] # None

\* It is so of each.
LEMMA LineStands ==
  ASSUME NEW diff, NEW runs, NEW eo, NEW en, NEW top, Stands(diff, runs, eo, en, top), NEW N, N = Counts(runs, eo, en, top),
         NEW k \in 1..Len(runs), NEW j \in 1..(top[k] - top[k - 1]), NEW i, i = top[k - 1] + j
  PROVE  LineIs(diff, runs[k], N, top[k - 1], j, i)
<1>r. PICK r, a : r = Len(runs[k].removed) /\ a = Len(runs[k].added)
  OBVIOUS
<1>1. PICK m, c, o, n, t, u : /\ m = Len(runs) /\ c = (IF k = m THEN 0 ELSE 1) /\ o = eo[k - 1] /\ n = en[k - 1]
                              /\ t = top[k - 1] /\ u = top[k]
  OBVIOUS
<1>2. /\ r \in Nat /\ a \in Nat /\ o \in Nat /\ n \in Nat /\ t \in Nat /\ u = t + r + a + c /\ c \in {0, 1}
      /\ u <= top[m] /\ top[m] \in Nat /\ Len(diff) = top[m]
  <2>1. Len(diff) = top[m] /\ top[m] \in Nat /\ top[k] <= top[m]
    BY <1>1, RunEnds DEF Stands
  <2>2. /\ Len(runs[k].removed) \in Nat /\ Len(runs[k].added) \in Nat
        /\ eo[k - 1] \in Nat /\ en[k - 1] \in Nat /\ top[k - 1] \in Nat
        /\ top[k] = top[k - 1] + Len(runs[k].removed) + Len(runs[k].added) + (IF k = Len(runs) THEN 0 ELSE 1)
    BY RunSizes
  <2>3. c \in {0, 1}
    BY <1>1
  <2> QED BY <1>r, <1>1, <2>1, <2>2, <2>3, Zenon
<1>3. j \in 1..(u - t) /\ i = t + j
  BY <1>1, Zenon
<1>4. j \in 1..(r + a + c) /\ j \in 1..(r + a + 1) /\ j \in 0..(u - t) /\ j - 1 \in 0..(u - t) /\ 0 \in 0..(u - t)
  BY ONLY <1>2, <1>3
<1>5. i \in 1..Len(diff) /\ i - 1 \in 0..Len(diff) /\ i - 1 = t + (j - 1) /\ t + 0 = t
  <2>1. PICK d : d = Len(diff)
    OBVIOUS
  <2>2. d \in Nat /\ t \in Nat /\ u \in Nat /\ u <= d
    BY ONLY <1>2, <2>1
  <2>3. i \in 1..d /\ i - 1 \in 0..d /\ i - 1 = t + (j - 1) /\ t + 0 = t
    BY ONLY <2>2, <1>3
  <2> QED BY <2>1, <2>3, Zenon
<1>6. diff[i] = ShownLine(runs[k], o, n, j)
  <2>1. RunStands(diff, runs, eo, en, top, k)
    BY DEF Stands
  <2>2. \A d \in 1..(r + a + c) : diff[t + d] = ShownLine(runs[k], o, n, d)
    BY <1>r, <1>1, <2>1 DEF RunStands
  <2> QED BY <1>3, <1>4, <2>2
<1>7. ASSUME NEW s \in Side
      PROVE  /\ N[s][i] = Base(eo, en, s, k) + Up(runs[k], s, j)
             /\ N[s][i - 1] = Base(eo, en, s, k) + Up(runs[k], s, j - 1)
             /\ N[s][t] = Base(eo, en, s, k)
             /\ Base(eo, en, s, k) = (IF s = "old" THEN o ELSE n) /\ Base(eo, en, s, k) \in Nat
  <2>1. \A d \in 0..(u - t) : N[s][t + d] = Base(eo, en, s, k) + Up(runs[k], s, d)
    BY <1>1, CountIs
  <2>2. N[s][t + j] = Base(eo, en, s, k) + Up(runs[k], s, j)
    BY <1>4, <2>1
  <2>3. N[s][t + (j - 1)] = Base(eo, en, s, k) + Up(runs[k], s, j - 1)
    BY <1>4, <2>1
  <2>4. N[s][t + 0] = Base(eo, en, s, k) + Up(runs[k], s, 0)
    BY <1>4, <2>1
  <2>5. Up(runs[k], s, 0) = 0
    <3>1. 0 <= r
      BY <1>2
    <3> QED BY <1>r, <3>1 DEF Up
  <2>6. Base(eo, en, s, k) = (IF s = "old" THEN o ELSE n) /\ Base(eo, en, s, k) \in Nat
    BY <1>1, <1>2 DEF Base
  <2> QED BY <1>3, <1>5, <2>2, <2>3, <2>4, <2>5, <2>6
<1>8. /\ \A s \in Side :
           LET b == IF s = "old" THEN o ELSE n
               kept == IF s = "old" THEN runs[k].removed ELSE runs[k].added
           IN  /\ Up(runs[k], s, j) \in Nat /\ Up(runs[k], s, j - 1) \in Nat
               /\ IF diff[i][s] = None THEN Up(runs[k], s, j) = Up(runs[k], s, j - 1)
                  ELSE Up(runs[k], s, j) = Up(runs[k], s, j - 1) + 1 /\ diff[i][s] = b + Up(runs[k], s, j)
               /\ j <= r + a /\ diff[i][s] # None => kept[diff[i][s] - b].text = diff[i].text
      /\ Changed(diff[i]) <=> j <= r + a
      /\ \E s \in Side : diff[i][s] # None
  <2>1. PICK run : run = runs[k]
    OBVIOUS
  <2>2. /\ r \in Nat /\ a \in Nat /\ r = Len(run.removed) /\ a = Len(run.added) /\ o \in Nat /\ n \in Nat
        /\ j \in 1..(r + a + 1) /\ diff[i] = ShownLine(run, o, n, j)
    BY <1>r, <1>2, <1>4, <1>6, <2>1, Zenon
  <2>3. Tells(run, o, n, j, diff[i])
    BY <2>2, ShownCounts, Zenon
  <2> QED BY <2>1, <2>2, <2>3, Zenon DEF Tells
<1>9. ASSUME NEW s \in Side
      PROVE  /\ N[s][i - 1] \in Nat /\ N[s][i] \in Nat
             /\ IF diff[i][s] = None THEN N[s][i] = N[s][i - 1] ELSE N[s][i] = N[s][i - 1] + 1 /\ diff[i][s] = N[s][i]
             /\ j <= r + a /\ diff[i][s] # None =>
                  (IF s = "old" THEN runs[k].removed ELSE runs[k].added)[diff[i][s] - N[s][top[k - 1]]].text = diff[i].text
  <2>1. PICK b, x, y : b = (IF s = "old" THEN o ELSE n) /\ x = Up(runs[k], s, j) /\ y = Up(runs[k], s, j - 1)
    OBVIOUS
  <2>2. N[s][i] = b + x /\ N[s][i - 1] = b + y /\ N[s][t] = b /\ b \in Nat
    BY <1>7, <2>1
  <2>3. /\ x \in Nat /\ y \in Nat /\ (IF diff[i][s] = None THEN x = y ELSE x = y + 1 /\ diff[i][s] = b + x)
        /\ j <= r + a /\ diff[i][s] # None =>
             (IF s = "old" THEN runs[k].removed ELSE runs[k].added)[diff[i][s] - b].text = diff[i].text
    BY <1>8, <2>1
  <2>4. N[s][i] \in Nat /\ N[s][i - 1] \in Nat /\ (x = y + 1 => N[s][i] = N[s][i - 1] + 1)
    BY ONLY <2>2, <2>3
  <2>5. (x = y => N[s][i] = N[s][i - 1])
    BY <2>2
  <2>6. N[s][top[k - 1]] = b
    BY <1>1, <2>2
  <2> QED BY <2>2, <2>3, <2>4, <2>5, <2>6, Zenon
<1> QED BY <1>r, <1>5, <1>8, <1>9, Zenon DEF LineIs

\* A hunk as it is kept of its run.
LEMMA HunkOfRun ==
  ASSUME NEW runs, NEW k \in DOMAIN runs, IsHunk(runs[k])
  PROVE  /\ k \in DOMAIN HunkEntries(runs)
         /\ HunkEntries(runs)[k].text["old"] = runs[k].removed /\ HunkEntries(runs)[k].text["new"] = runs[k].added
         /\ HunkEntries(runs)[k].count["old"] = Len(runs[k].removed) /\ HunkEntries(runs)[k].count["new"] = Len(runs[k].added)
         /\ HunkEntries(runs)[k].start["old"] = IF runs[k].removed = <<>> THEN runs[k].after ELSE runs[k].after + 1
         /\ HunkEntries(runs)[k].start["new"] = IF runs[k].added = <<>> THEN NewBefore(runs, k) ELSE NewBefore(runs, k) + 1
<1>1. k \in DOMAIN HunkEntries(runs) /\ HunkEntries(runs)[k] = EntryOf(runs, k)
  BY DEF HunkEntries
<1>2. PICK h, x, y : h = EntryOf(runs, k) /\ x = [old |-> runs[k].removed, new |-> runs[k].added]
                     /\ y = [old |-> runs[k].after, new |-> NewBefore(runs, k)]
  OBVIOUS
<1>3. /\ x["old"] = runs[k].removed /\ x["new"] = runs[k].added
      /\ y["old"] = runs[k].after /\ y["new"] = NewBefore(runs, k)
  BY <1>2
<1>4. /\ h.text = x /\ h.count = [s \in Side |-> Len(x[s])]
      /\ h.start = [s \in Side |-> IF x[s] = <<>> THEN y[s] ELSE y[s] + 1]
  BY <1>2 DEF EntryOf
<1>5. "old" \in Side /\ "new" \in Side
  BY DEF Side
<1>6. \A s \in Side : h.text[s] = x[s] /\ h.count[s] = Len(x[s]) /\ h.start[s] = IF x[s] = <<>> THEN y[s] ELSE y[s] + 1
  BY <1>4
<1>7. /\ h.text["old"] = x["old"] /\ h.count["old"] = Len(x["old"])
      /\ h.start["old"] = IF x["old"] = <<>> THEN y["old"] ELSE y["old"] + 1
  BY <1>5, <1>6
<1>8. /\ h.text["new"] = x["new"] /\ h.count["new"] = Len(x["new"])
      /\ h.start["new"] = IF x["new"] = <<>> THEN y["new"] ELSE y["new"] + 1
  BY <1>5, <1>6
<1> QED BY <1>1, <1>2, <1>3, <1>7, <1>8, Zenon

FirstLine(runs, top) == [k \in 1..Len(runs) |-> top[k - 1] + 1]
LastLine(runs, top) == [k \in 1..Len(runs) |-> top[k - 1] + Len(runs[k].removed) + Len(runs[k].added)]

\* A hunk is where its run is.
LEMMA HunkStands ==
  ASSUME NEW diff, NEW runs, NEW eo, NEW en, NEW top, Stands(diff, runs, eo, en, top), NEW N, N = Counts(runs, eo, en, top),
         NEW k \in 1..Len(runs), IsHunk(runs[k]), NEW F, F = FirstLine(runs, top), NEW L, L = LastLine(runs, top)
  PROVE  HunkIsThere(HunkEntries(runs)[k], diff, N, F[k], L[k])
<1>1. PICK r, a, c, t, u, o, n : /\ r = Len(runs[k].removed) /\ a = Len(runs[k].added) /\ c = (IF k = Len(runs) THEN 0 ELSE 1)
                                 /\ t = top[k - 1] /\ u = top[k] /\ o = eo[k - 1] /\ n = en[k - 1]
  OBVIOUS
<1>2. RunStands(diff, runs, eo, en, top, k) /\ DOMAIN runs = 1..Len(runs)
  BY DEF Stands
<1>3. /\ r \in Nat /\ a \in Nat /\ t \in Nat /\ o \in Nat /\ n \in Nat /\ u = t + r + a + c /\ c \in {0, 1}
      /\ u <= Len(diff) /\ Len(diff) \in Nat
  <2>1. Len(diff) = top[Len(runs)] /\ top[Len(runs)] \in Nat /\ top[k] <= top[Len(runs)]
    BY RunEnds DEF Stands
  <2>2. /\ Len(runs[k].removed) \in Nat /\ Len(runs[k].added) \in Nat
        /\ eo[k - 1] \in Nat /\ en[k - 1] \in Nat /\ top[k - 1] \in Nat
        /\ top[k] = top[k - 1] + Len(runs[k].removed) + Len(runs[k].added) + (IF k = Len(runs) THEN 0 ELSE 1)
    BY RunSizes
  <2>3. c \in {0, 1}
    BY <1>1
  <2> QED BY <1>1, <2>1, <2>2, <2>3, Zenon
<1>4. F[k] = t + 1 /\ L[k] = t + r + a
  BY <1>1 DEF FirstLine, LastLine
<1>5. PICK x, y : x = runs[k].removed /\ y = runs[k].added
  OBVIOUS
<1>6. /\ x \in Seq(LineRec) /\ y \in Seq(LineRec) /\ Len(x) = r /\ Len(y) = a /\ runs[k].after = o /\ NewBefore(runs, k) = n
  BY <1>1, <1>2, <1>5, Zenon DEF RunStands
<1>7. (x = <<>> <=> r = 0) /\ (y = <<>> <=> a = 0) /\ DOMAIN x = 1..r /\ DOMAIN y = 1..a
  BY <1>6, EmptySeq
<1>8. r + a # 0
  <2>1. x # <<>> \/ y # <<>>
    BY <1>5 DEF IsHunk
  <2> QED BY ONLY <1>3, <1>7, <2>1
<1>9. PICK d : d = Len(diff)
  OBVIOUS
<1>10. /\ F[k] \in 1..d /\ L[k] \in F[k]..d /\ F[k] - 1 = t /\ L[k] = t + (r + a)
       /\ 0 \in 0..(u - t) /\ r + a \in 0..(u - t) /\ t + 0 = t
       /\ \A i \in F[k]..L[k] : i - t \in 1..(u - t) /\ i - t <= r + a /\ i = t + (i - t)
  <2>1. d \in Nat /\ u <= d /\ u = t + r + a + c /\ r + a # 0
    BY <1>3, <1>8, <1>9, Zenon
  <2>2. r \in Nat /\ a \in Nat /\ t \in Nat /\ c \in {0, 1}
    BY <1>3
  <2> QED BY ONLY <2>1, <2>2, <1>4
<1>11. PICK h : h = HunkEntries(runs)[k]
  OBVIOUS
<1>12. /\ h.text["old"] = x /\ h.text["new"] = y /\ h.count["old"] = r /\ h.count["new"] = a
       /\ h.start["old"] = (IF x = <<>> THEN o ELSE o + 1) /\ h.start["new"] = (IF y = <<>> THEN n ELSE n + 1)
  <2>1. k \in DOMAIN runs
    BY <1>2
  <2> QED BY <1>5, <1>6, <1>11, <2>1, HunkOfRun, Zenon
<1>13. ASSUME NEW s \in Side PROVE N[s][t] = Base(eo, en, s, k) /\ N[s][t + (r + a)] = Base(eo, en, s, k) + Up(runs[k], s, r + a)
  <2>1. \A j \in 0..(u - t) : N[s][t + j] = Base(eo, en, s, k) + Up(runs[k], s, j)
    BY <1>1, CountIs
  <2>2. Up(runs[k], s, 0) = 0
    <3>1. 0 <= Len(runs[k].removed)
      BY ONLY <1>1, <1>3
    <3> QED BY <3>1 DEF Up
  <2>3. Base(eo, en, s, k) \in Nat
    BY <1>1, <1>3 DEF Base
  <2>4. N[s][t + 0] = Base(eo, en, s, k) + Up(runs[k], s, 0)
    BY <1>10, <2>1, Zenon
  <2>5. N[s][t + (r + a)] = Base(eo, en, s, k) + Up(runs[k], s, r + a)
    BY <1>10, <2>1, Zenon
  <2>6. N[s][t + 0] = Base(eo, en, s, k)
    BY ONLY <2>2, <2>3, <2>4
  <2> QED BY <1>10, <2>5, <2>6, Zenon
<1>14. /\ Base(eo, en, "old", k) = o /\ Base(eo, en, "new", k) = n
       /\ Up(runs[k], "old", r + a) = r /\ Up(runs[k], "new", r + a) = a
  <2>1. r + a <= r + a /\ (r + a <= r => a = 0 /\ r + a = r) /\ (r + a) - r = a
    BY ONLY <1>3
  <2>2. Base(eo, en, "old", k) = o /\ Base(eo, en, "new", k) = n
    BY <1>1 DEF Base
  <2>3. Up(runs[k], "old", r + a) = IF r + a <= r THEN r + a ELSE IF r + a <= r + a THEN r ELSE r + 1
    BY <1>1 DEF Up
  <2>4. Up(runs[k], "new", r + a) = IF r + a <= r THEN 0 ELSE (r + a) - r
    BY <1>1 DEF Up
  <2>5. Up(runs[k], "old", r + a) = r /\ Up(runs[k], "new", r + a) = a
    BY ONLY <1>3, <2>1, <2>3, <2>4
  <2> QED BY <2>2, <2>5
<1>15. ASSUME NEW i \in F[k]..L[k]
       PROVE  /\ Changed(diff[i])
              /\ \A s \in Side : diff[i][s] # None =>
                   (IF s = "old" THEN x ELSE y)[diff[i][s] - N[s][t]].text = diff[i].text
  <2>1. PICK j : j = i - t
    OBVIOUS
  <2>2. j \in 1..(top[k] - top[k - 1]) /\ i = top[k - 1] + j /\ j <= r + a
    BY <1>1, <1>10, <2>1, Zenon
  <2>3. LineIs(diff, runs[k], N, top[k - 1], j, i)
    BY <2>2, LineStands, Zenon
  <2> QED BY <1>1, <1>5, <2>2, <2>3, Zenon DEF LineIs
<1>16. "old" \in Side /\ "new" \in Side /\ \A s \in Side : s = "old" \/ s = "new"
  BY DEF Side
<1>17. /\ h.count["old"] = N["old"][L[k]] - N["old"][F[k] - 1] /\ h.count["new"] = N["new"][L[k]] - N["new"][F[k] - 1]
  <2>1. N["old"][t] = o /\ N["old"][t + (r + a)] = o + r /\ N["new"][t] = n /\ N["new"][t + (r + a)] = n + a
    BY <1>13, <1>14, <1>16, Zenon
  <2>2. r = (o + r) - o /\ a = (n + a) - n
    BY ONLY <1>3
  <2> QED BY <1>10, <1>12, <2>1, <2>2, Zenon
<1>18. ASSUME NEW s \in Side
       PROVE  /\ h.count[s] = N[s][L[k]] - N[s][F[k] - 1]
              /\ h.start[s] = IF h.count[s] = 0 THEN N[s][F[k] - 1] ELSE N[s][F[k] - 1] + 1
              /\ DOMAIN h.text[s] = 1..h.count[s]
              /\ \A i \in F[k]..L[k] : diff[i][s] # None => h.text[s][diff[i][s] - N[s][F[k] - 1]].text = diff[i].text
  <2>1. N["old"][F[k] - 1] = o /\ N["new"][F[k] - 1] = n
    BY <1>10, <1>13, <1>14, <1>16, Zenon
  <2>2. h.text[s] = (IF s = "old" THEN x ELSE y)
    BY <1>12, <1>16, Zenon
  <2>3. \A i \in F[k]..L[k] : diff[i][s] # None => h.text[s][diff[i][s] - N[s][F[k] - 1]].text = diff[i].text
    <3> TAKE i \in F[k]..L[k]
    <3> HAVE diff[i][s] # None
    <3>1. (IF s = "old" THEN x ELSE y)[diff[i][s] - N[s][t]].text = diff[i].text
      BY <1>15
    <3> QED BY <1>10, <2>2, <3>1, Zenon
  <2>4. CASE s = "old"
    BY <1>7, <1>12, <1>17, <2>1, <2>3, <2>4, Zenon
  <2>5. CASE s = "new"
    BY <1>7, <1>12, <1>17, <2>1, <2>3, <2>5, Zenon
  <2> QED BY <1>16, <2>4, <2>5
<1> QED BY <1>9, <1>10, <1>11, <1>15, <1>18, Zenon DEF HunkIsThere

\* A line of the diff is the j-th of a run.
LEMMA LineOfARun ==
  ASSUME NEW diff, NEW runs, NEW eo, NEW en, NEW top, Stands(diff, runs, eo, en, top), NEW N, N = Counts(runs, eo, en, top),
         NEW i \in 1..Len(diff)
  PROVE  \E k \in 1..Len(runs) : \E j \in 1..(top[k] - top[k - 1]) :
           i = top[k - 1] + j /\ LineIs(diff, runs[k], N, top[k - 1], j, i)
<1>1. /\ Len(runs) \in Nat /\ top \in [0..Len(runs) -> Nat] /\ top[0] = 0 /\ i \in 1..top[Len(runs)]
  BY DEF Stands
<1>2. PICK k \in 1..Len(runs) : top[k - 1] < i /\ i <= top[k]
  <2>1. PICK m : m = Len(runs)
    OBVIOUS
  <2>2. m \in Nat /\ top \in [0..m -> Nat] /\ top[0] = 0 /\ i \in 1..top[m]
    BY <1>1, <2>1
  <2>3. \E k \in 1..m : top[k - 1] < i /\ i <= top[k]
    BY <2>2, InAStep
  <2> QED BY <2>1, <2>3
<1>3. top[k - 1] \in Nat /\ top[k] \in Nat
  BY RunEnds
<1>4. PICK p, q, j : p = top[k - 1] /\ q = top[k] /\ j = i - p
  OBVIOUS
<1>5. p \in Nat /\ q \in Nat /\ p < i /\ i <= q
  BY <1>1, <1>2, <1>3, <1>4, Zenon
<1>6. i \in Nat
  BY <1>1
<1>7. j \in 1..(q - p) /\ i = p + j
  BY ONLY <1>4, <1>5, <1>6
<1>8. j \in 1..(top[k] - top[k - 1]) /\ i = top[k - 1] + j
  BY <1>4, <1>7, Zenon
<1>9. LineIs(diff, runs[k], N, top[k - 1], j, i)
  BY <1>8, LineStands, Zenon
<1> QED BY <1>8, <1>9

\* The lines of each side are counted down the whole diff.
LEMMA DiffIsCounted ==
  ASSUME NEW diff, NEW runs, NEW eo, NEW en, NEW top, Stands(diff, runs, eo, en, top), NEW N, N = Counts(runs, eo, en, top)
  PROVE  /\ \A s \in Side : Counted(diff, s, N[s])
         /\ \A i \in DOMAIN diff : \E s \in Side : diff[i][s] # None
<1>1. Len(diff) \in Nat /\ DOMAIN diff = 1..Len(diff) /\ Len(diff) = top[Len(runs)]
  BY RunEnds DEF Stands
<1>2. ASSUME NEW i \in 1..Len(diff)
      PROVE  /\ \A s \in Side :
                  /\ N[s][i - 1] \in Nat /\ N[s][i] \in Nat
                  /\ IF diff[i][s] = None THEN N[s][i] = N[s][i - 1] ELSE N[s][i] = N[s][i - 1] + 1 /\ diff[i][s] = N[s][i]
             /\ \E s \in Side : diff[i][s] # None
  <2>1. PICK k \in 1..Len(runs) : \E j \in 1..(top[k] - top[k - 1]) :
           i = top[k - 1] + j /\ LineIs(diff, runs[k], N, top[k - 1], j, i)
    BY LineOfARun
  <2>2. PICK j : LineIs(diff, runs[k], N, top[k - 1], j, i)
    BY <2>1
  <2> QED BY <2>2 DEF LineIs
<1>3. ASSUME NEW s \in Side PROVE N[s] \in [0..Len(diff) -> Nat] /\ N[s][0] = 0
  <2>1. N[s] = [i \in 0..Len(diff) |->
                  IF i = 0 THEN 0
                  ELSE LET k == RowAt(top, Len(runs), i) IN Base(eo, en, s, k) + Up(runs[k], s, i - top[k - 1])]
    BY <1>1 DEF Counts
  <2>2. 0 \in 0..Len(diff)
    BY <1>1
  <2>3. N[s][0] = 0
    BY <2>1, <2>2, Zenon
  <2>4. ASSUME NEW i \in 0..Len(diff) PROVE N[s][i] \in Nat
    <3>1. CASE i = 0
      BY <2>3, <3>1
    <3>2. CASE i # 0
      <4>1. i \in 1..Len(diff)
        BY <1>1, <3>2
      <4> QED BY <1>2, <4>1
    <3> QED BY <3>1, <3>2
  <2>5. DOMAIN N[s] = 0..Len(diff) /\ N[s] = [i \in DOMAIN N[s] |-> N[s][i]]
    <3>1. PICK f : f = N[s]
      OBVIOUS
    <3>2. DOMAIN f = 0..Len(diff) /\ f = [i \in DOMAIN f |-> f[i]]
      BY <2>1, <3>1
    <3> QED BY <3>1, <3>2
  <2> QED BY <2>3, <2>4, <2>5
<1>4. ASSUME NEW s \in Side PROVE Counted(diff, s, N[s])
  BY <1>1, <1>2, <1>3 DEF Counted
<1> QED BY <1>1, <1>2, <1>4

\* What changed is in a hunk, and hunks are apart.
LEMMA DiffIsInHunks ==
  ASSUME NEW diff, NEW runs, NEW eo, NEW en, NEW top, Stands(diff, runs, eo, en, top)
  PROVE  InDiff(HunkEntries(runs), diff, Counts(runs, eo, en, top), FirstLine(runs, top), LastLine(runs, top))
<1>1. PICK N, F, L, hs : /\ N = Counts(runs, eo, en, top) /\ F = FirstLine(runs, top) /\ L = LastLine(runs, top)
                         /\ hs = HunkEntries(runs)
  OBVIOUS
<1>2. DOMAIN hs = {k \in DOMAIN runs : IsHunk(runs[k])} /\ DOMAIN runs = 1..Len(runs) /\ Len(runs) \in Nat
  BY <1>1 DEF HunkEntries, Stands
<1>3. DOMAIN hs \subseteq Nat
  BY <1>2
<1>4. \A k \in DOMAIN hs : HunkIsThere(hs[k], diff, N, F[k], L[k])
  BY <1>1, <1>2, HunkStands
<1>5. ASSUME NEW k \in 1..Len(runs), NEW l \in 1..Len(runs), k < l PROVE L[k] + 1 < F[l]
  <2>1. PICK r, a, p, q, z : /\ r = Len(runs[k].removed) /\ a = Len(runs[k].added) /\ p = top[k - 1] /\ q = top[k]
                             /\ z = top[l - 1]
    OBVIOUS
  <2>2. k # Len(runs) /\ l \in (k + 1)..Len(runs)
    <3>1. PICK m : m = Len(runs)
      OBVIOUS
    <3>2. m \in Nat /\ k \in 1..m /\ l \in 1..m /\ k < l
      BY <1>2, <1>5, <3>1, Zenon
    <3>3. k # m /\ l \in (k + 1)..m
      BY ONLY <3>2
    <3> QED BY <3>1, <3>3, Zenon
  <2>3. /\ r \in Nat /\ a \in Nat /\ p \in Nat /\ q = p + r + a + 1
    BY <2>1, <2>2, RunSizes
  <2>4. q <= z
    BY <2>1, <2>2, RunEnds
  <2>5. z \in Nat
    BY <2>1, RunEnds
  <2>6. L[k] = p + r + a /\ F[l] = z + 1
    BY <1>1, <2>1 DEF FirstLine, LastLine
  <2> QED BY ONLY <2>3, <2>4, <2>5, <2>6
<1>6. ASSUME NEW i \in DOMAIN diff, Changed(diff[i]) PROVE \E k \in DOMAIN hs : i \in F[k]..L[k]
  <2>0. i \in 1..Len(diff)
    BY <1>6 DEF Stands
  <2>1. PICK k \in 1..Len(runs) : \E j \in 1..(top[k] - top[k - 1]) :
           i = top[k - 1] + j /\ LineIs(diff, runs[k], N, top[k - 1], j, i)
    BY <1>1, <2>0, LineOfARun
  <2>2. PICK j \in 1..(top[k] - top[k - 1]) : i = top[k - 1] + j /\ LineIs(diff, runs[k], N, top[k - 1], j, i)
    BY <2>1
  <2>3. PICK r, a, p : r = Len(runs[k].removed) /\ a = Len(runs[k].added) /\ p = top[k - 1]
    OBVIOUS
  <2>4. j <= r + a
    BY <1>6, <2>2, <2>3 DEF LineIs
  <2>5. r \in Nat /\ a \in Nat /\ p \in Nat /\ top[k] \in Nat
    BY <2>3, RunSizes
  <2>6. j \in 1..(top[k] - p) /\ i = p + j
    BY <2>2, <2>3
  <2>7. F[k] = p + 1 /\ L[k] = p + r + a
    BY <1>1, <2>3 DEF FirstLine, LastLine
  <2>8. i \in F[k]..L[k] /\ r + a # 0
    BY ONLY <2>4, <2>5, <2>6, <2>7
  <2>9. IsHunk(runs[k])
    <3> SUFFICES ASSUME ~IsHunk(runs[k]) PROVE FALSE
      OBVIOUS
    <3>1. runs[k].removed = <<>> /\ runs[k].added = <<>>
      BY DEF IsHunk
    <3>2. r = 0 /\ a = 0
      BY <2>3, <3>1, EmptySeq
    <3> QED BY <2>8, <3>2
  <2>10. k \in DOMAIN hs
    BY <1>2, <2>9
  <2> QED BY <2>8, <2>10
<1>7. \A s \in Side : Counted(diff, s, N[s])
  BY <1>1, DiffIsCounted
<1>8. \A i \in DOMAIN diff : \E s \in Side : diff[i][s] # None
  BY <1>1, DiffIsCounted
<1>9. \A k, l \in DOMAIN hs : k < l => L[k] + 1 < F[l]
  BY <1>2, <1>5
<1>10. InDiff(hs, diff, N, F, L)
  BY <1>3, <1>4, <1>6, <1>7, <1>8, <1>9 DEF InDiff
<1> QED BY <1>1, <1>10

\* The diff of a change under review, with its hunks where they are.
LEMMA ReviewIsInDiff ==
  ASSUME NEW c, IsAChange(c), PlainText(c)
  PROVE  \E N, F, L : InDiff(HunkEntries(c.runs), DiffLines(c.runs), N, F, L)
<1>1. PICK old, new, runs : old = TextOf(c.base) /\ new = TextOf(c.head) /\ runs = c.runs
  OBVIOUS
<1>2. c.base \in Entry \cup {Absent} /\ c.head \in Entry \cup {Absent} /\ IsText(c.base) /\ IsText(c.head)
  BY DEF IsAChange, PlainText
<1>3. old \in Seq(LineRec) /\ AreLines(old) /\ new \in Seq(LineRec) /\ AreLines(new)
  BY <1>1, <1>2, TextIsItsLines
<1>4. runs \in {Runs(old, new, stay) : stay \in Alignments(old, new)}
  <2>1. ~TypeChange([base |-> c.base, head |-> c.head]) /\ ~IsBinary(c.base) /\ ~IsBinary(c.head)
    BY DEF PlainText, TypeChange, IsText
  <2>2. c.runs \in Report(c.base, c.head)
    BY <2>1 DEF IsAChange, RunsBetween
  <2> QED BY <1>1, <2>2 DEF Report
<1>5. PICK eo, en : Lined(runs, old, new, eo, en)
  BY <1>3, <1>4, ReportIsLined
<1>6. PICK A : A = {}
  OBVIOUS
<1>7. Given(old, new, runs, eo, en, A)
  BY <1>3, <1>5, <1>6 DEF Given
<1>8. PICK top : Stands(DiffLines(runs), runs, eo, en, top)
  BY <1>7, DiffStands
<1>9. InDiff(HunkEntries(runs), DiffLines(runs), Counts(runs, eo, en, top), FirstLine(runs, top), LastLine(runs, top))
  BY <1>8, DiffIsInHunks
<1> QED BY <1>1, <1>9

\* What is in review is text.
LEMMA InReviewIsText ==
  ASSUME Staged, NEW c \in InReview
  PROVE  IsAChange(c) /\ PlainText(c)
<1>1. PICK p \in Path : c = change[p] /\ IsText(change[p].base) /\ IsText(change[p].head) /\ ~TypeChange(change[p])
  BY DEF InReview
<1> QED BY <1>1 DEF Staged, PlainText

\* SentIsOnThePage: a note that the check of a publish lets through is on the request's page, with all the lines of
\* its range, and where every hunk has a line on the note's side a line that is there is let through.
THEOREM SentIsThere == Spec => []SentIsOnThePage
<1>1. ASSUME Staged, NEW c \in InReview, NEW hs, hs = HunkEntries(c.runs), NEW diff, diff = DiffLines(c.runs),
             NEW n \in Notes(diff), NEW plain,
             plain = [k \in {k \in DOMAIN hs : hs[k].count[n.side] > 0 \/ hs[k].start[n.side] = 0} |-> hs[k]],
             NEW first, NEW last, first = Index(diff, n.side, n.line), last = Index(diff, n.side, n.end_line)
      PROVE  /\ InRequestDiff(plain, n) => TogetherOnPage(diff, first, last)
             /\ plain = hs /\ first = last /\ Displayed(diff, first) => InRequestDiff(hs, n)
  <2>1. PICK N, F, L : InDiff(hs, diff, N, F, L)
    BY <1>1, InReviewIsText, ReviewIsInDiff
  <2>2. ASSUME InRequestDiff(plain, n) PROVE TogetherOnPage(diff, first, last)
    <3>1. PICK k \in DOMAIN plain : /\ n.line >= From(plain[k], n.side) - RequestContext
                                    /\ n.end_line <= From(plain[k], n.side) + plain[k].count[n.side] - 1 + RequestContext
      BY <2>2 DEF InRequestDiff
    <3>2. k \in DOMAIN hs /\ plain[k] = hs[k] /\ (hs[k].count[n.side] > 0 \/ hs[k].start[n.side] = 0)
      BY <1>1
    <3>3. /\ n.line >= From(hs[k], n.side) - RequestContext
          /\ n.end_line <= From(hs[k], n.side) + hs[k].count[n.side] - 1 + RequestContext
      BY <3>1, <3>2
    <3> QED BY <1>1, <2>1, <3>2, <3>3, TakenIsOnThePage
  <2>3. ASSUME plain = hs, first = last, Displayed(diff, first) PROVE InRequestDiff(hs, n)
    <3>1. \A k \in DOMAIN hs : hs[k].count[n.side] > 0 \/ hs[k].start[n.side] = 0
      BY <1>1, <2>3
    <3>2. first = Index(diff, n.side, n.line) /\ first = Index(diff, n.side, n.end_line)
      BY <1>1, <2>3
    <3> QED BY <2>1, <2>3, <3>1, <3>2, ShownIsTaken
  <2> QED BY <2>2, <2>3
<1>2. Staged => SentIsOnThePage
  <2> SUFFICES ASSUME Staged, NEW c \in InReview, NEW hs \in {HunkEntries(c.runs)}, NEW diff \in {DiffLines(c.runs)},
                      NEW n \in Notes(diff)
               PROVE  LET plain == [k \in {k \in DOMAIN hs : hs[k].count[n.side] > 0 \/ hs[k].start[n.side] = 0} |-> hs[k]]
                          first == Index(diff, n.side, n.line)
                          last == Index(diff, n.side, n.end_line)
                      IN  /\ InRequestDiff(plain, n) => TogetherOnPage(diff, first, last)
                          /\ plain = hs /\ first = last /\ Displayed(diff, first) => InRequestDiff(hs, n)
    BY DEF SentIsOnThePage
  <2>1. hs = HunkEntries(c.runs) /\ diff = DiffLines(c.runs)
    OBVIOUS
  <2>2. PICK plain, first, last :
          /\ plain = [k \in {k \in DOMAIN hs : hs[k].count[n.side] > 0 \/ hs[k].start[n.side] = 0} |-> hs[k]]
          /\ first = Index(diff, n.side, n.line) /\ last = Index(diff, n.side, n.end_line)
    OBVIOUS
  <2>3. /\ InRequestDiff(plain, n) => TogetherOnPage(diff, first, last)
        /\ plain = hs /\ first = last /\ Displayed(diff, first) => InRequestDiff(hs, n)
    BY <1>1, <2>1, <2>2
  <2> QED BY <2>2, <2>3
<1> QED BY <1>2, RebuildIsInvariant, PTL DEF RebuildInv

----------------------------------------------------------------------------
(* The number on the other side *)

\* A hunk that ends above a line is above it by the numbers kept of it.
LEMMA EndsAbove ==
  ASSUME NEW hs, NEW diff, NEW N, NEW F, NEW L, InDiff(hs, diff, N, F, L), NEW k \in DOMAIN hs, NEW s \in Side,
         NEW i \in DOMAIN diff, diff[i][s] # None, L[k] < i
  PROVE  k \in Above(hs, s, diff[i][s])
<1>1. PICK b, e, c, f, t : b = N[s][F[k] - 1] /\ e = N[s][L[k]] /\ c = hs[k].count[s] /\ f = From(hs[k], s) /\ t = hs[k].start[s]
  OBVIOUS
<1>2. /\ Counted(diff, s, N[s]) /\ F[k] \in 1..Len(diff) /\ L[k] \in F[k]..Len(diff)
      /\ b \in Nat /\ e \in Nat /\ c \in Nat /\ c = e - b /\ f = IF c = 0 /\ t # 0 THEN b ELSE b + 1
  BY <1>1, HunkBegins
<1>3. PICK v, u : v = diff[i][s] /\ u = N[s][i - 1]
  OBVIOUS
<1>4. i \in 1..Len(diff) /\ v = u + 1 /\ u \in Nat
  BY <1>2, <1>3, NumberIsOnce
<1>5. L[k] \in 0..Len(diff) /\ i - 1 \in L[k]..Len(diff)
  <2>1. PICK n, l, g : n = Len(diff) /\ l = L[k] /\ g = F[k]
    OBVIOUS
  <2>2. n \in Nat
    BY <1>2, <2>1 DEF Counted
  <2>3. g \in 1..n /\ l \in g..n /\ i \in 1..n /\ l < i
    BY <1>2, <1>4, <2>1, Zenon
  <2>4. l \in 0..n /\ i - 1 \in l..n
    BY ONLY <2>2, <2>3
  <2> QED BY <2>1, <2>4, Zenon
<1>6. e <= u
  BY <1>1, <1>2, <1>3, <1>5, CountsRise
<1>7. f + c <= v
  BY ONLY <1>2, <1>4, <1>6
<1> QED BY <1>1, <1>3, <1>7 DEF Above

\* Lines that stayed are one for one on both sides.
LEMMA StayTogether ==
  ASSUME NEW diff, NEW N, \A s \in Side : Counted(diff, s, N[s]), NEW i \in 0..Len(diff), NEW j \in i..Len(diff),
         \A x \in (i + 1)..j : ~Changed(diff[x]), NEW s \in Side
  PROVE  N[s][i] \in Nat /\ N[s][j] \in Nat /\ N[s][j] - N[s][i] = j - i
<1>1. \A x \in (i + 1)..j : diff[x][s] # None
  BY StayedOnBoth
<1> QED BY <1>1, CountsRise

\* There are two sides.
LEMMA OtherIsASide ==
  ASSUME NEW s \in Side
  PROVE  Other(s) \in Side /\ Other(s) # s /\ \A t \in Side : t = s \/ t = Other(s)
  BY DEF Side, Other

\* A changed line is on one side.
LEMMA ChangedOnOneSide ==
  ASSUME NEW l, NEW s \in Side, l[s] # None
  PROVE  Changed(l) <=> l[Other(s)] = None
  BY DEF Changed, Side, Other

\* Above every hunk the numbers are the same on both sides.
LEMMA SameAboveAll ==
  ASSUME NEW hs, NEW diff, NEW N, NEW F, NEW L, InDiff(hs, diff, N, F, L), NEW s \in Side,
         NEW i \in DOMAIN diff, diff[i][s] # None, ~Changed(diff[i]), Above(hs, s, diff[i][s]) = {}
  PROVE  diff[i][Other(s)] = diff[i][s]
<1>1. \A t \in Side : Counted(diff, t, N[t])
  BY DEF InDiff
<1>2. Other(s) \in Side
  BY OtherIsASide
<1>3. Len(diff) \in Nat /\ DOMAIN diff = 1..Len(diff) /\ i \in 1..Len(diff)
  BY <1>1 DEF Counted
<1>4. ASSUME NEW x \in 1..i, Changed(diff[x]) PROVE FALSE
  <2>1. x \in DOMAIN diff
    BY <1>3
  <2>2. PICK k \in DOMAIN hs : x \in F[k]..L[k]
    BY <1>4, <2>1 DEF InDiff
  <2>3. F[k] \in 1..Len(diff) /\ L[k] \in F[k]..Len(diff) /\ \A y \in F[k]..L[k] : Changed(diff[y])
    BY DEF InDiff, HunkIsThere
  <2>4. ~(i \in F[k]..L[k])
    BY <2>3
  <2>5. L[k] < i
    BY <1>3, <2>2, <2>3, <2>4
  <2> QED BY <2>5, EndsAbove
<1>5. 0 \in 0..Len(diff) /\ i \in 0..Len(diff) /\ 0 + 1 = 1
  BY <1>3
<1>6. ASSUME NEW t \in Side PROVE N[t][i] = i /\ diff[i][t] = N[t][i]
  <2>1. \A x \in (0 + 1)..i : ~Changed(diff[x])
    BY <1>4, <1>5
  <2>2. N[t][0] \in Nat /\ N[t][i] \in Nat /\ N[t][i] - N[t][0] = i - 0
    BY <1>1, <1>5, <2>1, StayTogether
  <2>3. N[t][0] = 0
    BY <1>1 DEF Counted
  <2>4. diff[i][t] # None
    BY StayedOnBoth
  <2>5. diff[i][t] = N[t][i]
    BY <1>1, <2>4, NumberIsOnce
  <2>6. N[t][i] = i
    BY <1>3, <2>2, <2>3
  <2> QED BY <2>5, <2>6
<1> QED BY <1>2, <1>6

\* After a hunk a line stays.
LEMMA StaysAfter ==
  ASSUME NEW hs, NEW diff, NEW N, NEW F, NEW L, InDiff(hs, diff, N, F, L), NEW g \in DOMAIN hs, L[g] + 1 \in DOMAIN diff
  PROVE  ~Changed(diff[L[g] + 1])
<1> SUFFICES ASSUME Changed(diff[L[g] + 1]) PROVE FALSE
  OBVIOUS
<1>1. PICK k \in DOMAIN hs : L[g] + 1 \in F[k]..L[k]
  BY DEF InDiff
<1>2. /\ g \in Nat /\ k \in Nat /\ (g < k => L[g] + 1 < F[k]) /\ (k < g => L[k] + 1 < F[g])
      /\ HunkIsThere(hs[g], diff, N, F[g], L[g]) /\ HunkIsThere(hs[k], diff, N, F[k], L[k])
      /\ \A s \in Side : Counted(diff, s, N[s])
  BY DEF InDiff
<1>3. PICK a, b, c, d, n : a = F[g] /\ b = L[g] /\ c = F[k] /\ d = L[k] /\ n = Len(diff)
  OBVIOUS
<1>4. a \in 1..n /\ b \in a..n /\ c \in 1..n /\ d \in c..n /\ n \in Nat
  BY <1>2, <1>3 DEF HunkIsThere, Counted, Side
<1>5. b + 1 \in c..d /\ (g < k => b + 1 < c) /\ (k < g => d + 1 < a) /\ (g = k => b = d)
  BY <1>1, <1>2, <1>3
<1> QED BY ONLY <1>2, <1>4, <1>5

\* The hunk whose end carries the shift is the last one above the line, where it has a line
\* on the side or is at the top.
LEMMA GovernsIsLast ==
  ASSUME NEW hs, NEW diff, NEW N, NEW F, NEW L, InDiff(hs, diff, N, F, L), NEW s \in Side,
         NEW i \in DOMAIN diff, diff[i][s] # None, ~Changed(diff[i]), ~OffByOne(hs, s, diff[i][s]),
         NEW g \in DOMAIN hs, Governs(hs, s, diff[i][s], g)
  PROVE  L[g] \in 0..Len(diff) /\ i \in L[g]..Len(diff) /\ \A x \in (L[g] + 1)..i : ~Changed(diff[x])
<1>1. PICK v, M, n : v = diff[i][s] /\ M = N[s] /\ n = Len(diff)
  OBVIOUS
<1>2. Counted(diff, s, M) /\ n \in Nat /\ DOMAIN diff = 1..n /\ i \in 1..n
  BY <1>1 DEF InDiff, Counted
<1>3. v = M[i - 1] + 1 /\ v = M[i] /\ M[i - 1] \in Nat
  BY <1>1, <1>2, NumberIsOnce
<1>4. PICK a, b, f, c, t : a = F[g] /\ b = L[g] /\ f = From(hs[g], s) /\ c = hs[g].count[s] /\ t = hs[g].start[s]
  OBVIOUS
<1>5. /\ a \in 1..n /\ b \in a..n /\ M[a - 1] \in Nat /\ M[b] \in Nat /\ M[a - 1] <= M[b]
      /\ c \in Nat /\ c = M[b] - M[a - 1]
  BY <1>1, <1>4, HunkBegins
<1>6. \A u \in Side : ~(hs[g].count[u] = 0 /\ hs[g].start[u] # 0)
  BY DEF OffByOne, OneSided
<1>7. c > 0 \/ t = 0
  <2>1. ~(c = 0 /\ t # 0)
    BY <1>4, <1>6, Zenon
  <2> QED BY <1>5, <2>1
<1>8. f = M[a - 1] + 1 /\ f + c = M[b] + 1
  BY <1>1, <1>4, <1>7, PlainHunkBegins
<1>9. f + c <= v
  BY <1>1, <1>4 DEF Governs, Above
<1>10. b < i
  <2> SUFFICES ASSUME ~(b < i) PROVE FALSE
    OBVIOUS
  <2>1. i \in 0..n /\ b \in i..n
    BY <1>2, <1>5
  <2>2. M[i] <= M[b]
    BY <1>1, <1>2, <2>1, CountsRise
  <2> QED BY <1>3, <1>5, <1>8, <1>9, <2>2
<1>11. b \in 0..n /\ i \in b..n /\ b + 1 \in 1..n
  BY <1>2, <1>5, <1>10
<1>12. ASSUME NEW x \in (b + 1)..i, Changed(diff[x]) PROVE FALSE
  <2>1. x \in 1..n /\ x < i
    <3>1. x # i
      BY <1>12
    <3> QED BY <1>2, <1>11, <1>12, <3>1
  <2>2. PICK k \in DOMAIN hs : x \in F[k]..L[k]
    BY <1>2, <1>12, <2>1 DEF InDiff
  <2>3. PICK d, e, h : d = F[k] /\ e = L[k] /\ h = From(hs[k], s)
    OBVIOUS
  <2>4. /\ d \in 1..n /\ e \in d..n /\ M[d - 1] \in Nat /\ M[e] \in Nat /\ M[d - 1] <= M[e]
        /\ hs[k].count[s] \in Nat /\ hs[k].count[s] = M[e] - M[d - 1]
        /\ h = IF hs[k].count[s] = 0 /\ hs[k].start[s] # 0 THEN M[d - 1] ELSE M[d - 1] + 1
    BY <1>1, <2>3, HunkBegins
  <2>5. /\ g \in Nat /\ k \in Nat /\ (g < k => b + 1 < d) /\ (k < g => e + 1 < a)
        /\ ~(i \in d..e) /\ x \in d..e /\ (k = g => e = b)
    <3>1. /\ g \in Nat /\ k \in Nat /\ (g < k => L[g] + 1 < F[k]) /\ (k < g => L[k] + 1 < F[g])
          /\ HunkIsThere(hs[k], diff, N, F[k], L[k])
      BY DEF InDiff
    <3> QED BY <1>4, <2>2, <2>3, <3>1 DEF HunkIsThere
  <2>6. b + 1 < d /\ e < i
    BY ONLY <1>2, <1>5, <1>12, <2>1, <2>4, <2>5
  <2>7. k \in Above(hs, s, v)
    BY <1>1, <2>3, <2>6, EndsAbove
  <2>8. h <= f
    BY <1>1, <1>4, <2>3, <2>7 DEF Governs
  <2>9. M[b + 1] = M[b] + 1
    <3>1. ~Changed(diff[b + 1])
      BY <1>2, <1>4, <1>11, StaysAfter
    <3>2. diff[b + 1][s] # None
      BY <3>1, StayedOnBoth
    <3>3. b + 1 \in DOMAIN diff /\ (b + 1) - 1 = b
      BY <1>2, <1>11
    <3>4. M[b + 1] = M[(b + 1) - 1] + 1
      BY <1>2, <3>2, <3>3, NumberIsOnce
    <3> QED BY <3>3, <3>4
  <2>10. M[b + 1] <= M[d - 1]
    <3>1. b + 1 \in 0..n /\ d - 1 \in (b + 1)..n
      BY ONLY <1>2, <1>11, <2>4, <2>6
    <3> QED BY <1>1, <1>2, <3>1, CountsRise
  <2>11. h = f /\ hs[k].count[s] = 0 /\ hs[k].start[s] # 0
    <3>1. PICK p, q, r, z, y, w : /\ p = M[a - 1] /\ q = M[b] /\ r = M[d - 1] /\ z = M[e] /\ y = hs[k].count[s]
                                  /\ w = M[b + 1]
      OBVIOUS
    <3>2. /\ p \in Nat /\ q \in Nat /\ p <= q /\ r \in Nat /\ z \in Nat /\ y \in Nat /\ w = q + 1 /\ w <= r
          /\ f = p + 1 /\ h <= f /\ h = IF y = 0 /\ hs[k].start[s] # 0 THEN r ELSE r + 1
      BY <1>5, <1>8, <2>4, <2>8, <2>9, <2>10, <3>1
    <3>3. h = f /\ y = 0 /\ hs[k].start[s] # 0
      BY ONLY <3>2
    <3> QED BY <3>1, <3>3
  <2>12. OneSided(hs[k])
    BY <2>11 DEF OneSided
  <2>13. Governs(hs, s, v, k)
    BY <1>1, <1>4, <2>3, <2>7, <2>11 DEF Governs
  <2> QED BY <1>1, <2>12, <2>13 DEF OffByOne
<1> QED BY <1>1, <1>4, <1>11, <1>12

\* One hunk carries the shift, of those that are above.
LEMMA SomeGoverns ==
  ASSUME NEW hs, NEW diff, NEW N, NEW F, NEW L, InDiff(hs, diff, N, F, L), NEW s \in Side, NEW v \in Nat,
         Above(hs, s, v) # {}
  PROVE  \E k \in DOMAIN hs : Governs(hs, s, v, k)
<1> DEFINE D == {v - From(hs[k], s) : k \in Above(hs, s, v)}
<1>1. ASSUME NEW k \in Above(hs, s, v) PROVE k \in DOMAIN hs /\ From(hs[k], s) \in Nat /\ From(hs[k], s) <= v
  <2>1. k \in DOMAIN hs /\ From(hs[k], s) + hs[k].count[s] <= v
    BY DEF Above
  <2>2. From(hs[k], s) \in Nat /\ hs[k].count[s] \in Nat
    BY <2>1, HunkBegins
  <2> QED BY <2>1, <2>2
<1>2. D \subseteq Nat /\ D # {}
  <2>1. \A k \in Above(hs, s, v) : v - From(hs[k], s) \in Nat
    BY <1>1
  <2> QED BY <2>1
<1>3. PICK d \in D : \A e \in D : d <= e
  <2> HIDE DEF D
  <2> QED BY <1>2, LeastNat
<1>4. PICK k \in Above(hs, s, v) : d = v - From(hs[k], s)
  BY <1>3
<1>5. ASSUME NEW j \in Above(hs, s, v) PROVE From(hs[j], s) <= From(hs[k], s)
  <2>1. d <= v - From(hs[j], s)
    BY <1>3
  <2> QED BY <1>1, <1>4, <2>1
<1>6. k \in DOMAIN hs /\ Governs(hs, s, v, k)
  BY <1>1, <1>5 DEF Governs
<1> QED BY <1>6

\* The number on the other side is that of the same line, and none of a changed one.
LEMMA OtherSideIsRight ==
  ASSUME NEW hs, NEW diff, NEW N, NEW F, NEW L, InDiff(hs, diff, N, F, L), NEW s \in Side,
         NEW i \in DOMAIN diff, diff[i][s] # None, ~OffByOne(hs, s, diff[i][s])
  PROVE  OtherSideLine(hs, s, diff[i][s]) = diff[i][Other(s)]
<1>1. PICK v, o : v = diff[i][s] /\ o = Other(s)
  OBVIOUS
<1>2. o \in Side /\ \A t \in Side : Counted(diff, t, N[t])
  BY <1>1, OtherIsASide DEF InDiff
<1>3. CASE Changed(diff[i])
  <2>1. diff[i][o] = None
    BY <1>1, <1>3, ChangedOnOneSide
  <2>2. PICK k \in DOMAIN hs : i \in F[k]..L[k]
    BY <1>3 DEF InDiff
  <2>3. Holds(hs[k], s, v)
    BY <1>1, <2>2, HoldsItsLines
  <2> QED BY <1>1, <2>1, <2>3 DEF OtherSideLine
<1>4. CASE ~Changed(diff[i])
  <2>1. \A k \in DOMAIN hs : ~Holds(hs[k], s, v)
    <3> TAKE k \in DOMAIN hs
    <3>1. i \notin F[k]..L[k]
      BY <1>4 DEF InDiff, HunkIsThere
    <3> QED BY <1>1, <3>1, HoldsItsLines
  <2>2. CASE Above(hs, s, v) = {}
    <3>1. diff[i][o] = v
      BY <1>1, <1>4, <2>2, SameAboveAll
    <3> QED BY <1>1, <2>1, <2>2, <3>1 DEF OtherSideLine
  <2>3. CASE Above(hs, s, v) # {}
    <3>1. i \in 1..Len(diff) /\ v = N[s][i] /\ v \in Nat
      BY <1>1, <1>2, NumberIsOnce
    <3>2. \E k \in DOMAIN hs : Governs(hs, s, v, k)
      BY <2>3, <3>1, SomeGoverns
    <3>3. PICK g : g = CHOOSE k \in DOMAIN hs : Governs(hs, s, v, k)
      OBVIOUS
    <3>4. g \in DOMAIN hs /\ Governs(hs, s, v, g)
      BY <3>2, <3>3
    <3>5. L[g] \in 0..Len(diff) /\ i \in L[g]..Len(diff) /\ \A x \in (L[g] + 1)..i : ~Changed(diff[x])
      BY <1>1, <1>4, <3>4, GovernsIsLast
    <3>6. \A t \in Side : N[t][L[g]] \in Nat /\ N[t][i] \in Nat /\ N[t][i] - N[t][L[g]] = i - L[g]
      <4>1. PICK l : l = L[g]
        OBVIOUS
      <4>2. l \in 0..Len(diff) /\ i \in l..Len(diff) /\ \A x \in (l + 1)..i : ~Changed(diff[x])
        BY <3>5, <4>1
      <4>3. \A t \in Side : N[t][l] \in Nat /\ N[t][i] \in Nat /\ N[t][i] - N[t][l] = i - l
        BY <1>2, <4>2, StayTogether
      <4> QED BY <4>1, <4>3
    <3>7. ASSUME NEW t \in Side PROVE From(hs[g], t) + hs[g].count[t] = N[t][L[g]] + 1
      <4>1. ~(hs[g].count[t] = 0 /\ hs[g].start[t] # 0)
        BY <1>1, <3>4 DEF OffByOne, OneSided
      <4>2. hs[g].count[t] \in Nat
        BY <3>4, HunkBegins
      <4>3. hs[g].count[t] > 0 \/ hs[g].start[t] = 0
        BY <4>1, <4>2
      <4> QED BY <3>4, <4>3, PlainHunkBegins
    <3>8. diff[i][o] # None
      BY <1>2, <1>4, StayedOnBoth
    <3>9. diff[i][o] = N[o][i]
      BY <1>2, <3>8, NumberIsOnce
    <3>10. OtherSideLine(hs, s, v) = v + (From(hs[g], o) + hs[g].count[o]) - (From(hs[g], s) + hs[g].count[s])
      BY <1>1, <2>1, <2>3, <3>3, Zenon DEF OtherSideLine
    <3>11. PICK p, q, x, y, l : p = N[s][L[g]] /\ q = N[o][L[g]] /\ x = N[s][i] /\ y = N[o][i] /\ l = L[g]
      OBVIOUS
    <3>12. /\ p \in Nat /\ q \in Nat /\ x \in Nat /\ y \in Nat /\ x - p = i - l /\ y - q = i - l
           /\ OtherSideLine(hs, s, v) = x + (q + 1) - (p + 1)
      BY <1>2, <3>1, <3>6, <3>7, <3>10, <3>11
    <3>13. i - l \in Int
      BY <3>5, <3>11
    <3>14. OtherSideLine(hs, s, v) = y
      BY ONLY <3>12, <3>13
    <3> QED BY <1>1, <3>9, <3>11, <3>14
  <2> QED BY <2>2, <2>3
<1> QED BY <1>3, <1>4

\* Where no hunk with an empty side carries its shift, an unchanged line's two numbers are of one line of the
\* diff, and a changed one has no second number: what BothNumbersAreOneLine says, less the lines it fails at.
THEOREM ElsewhereBothNumbersAreOneLine ==
  ASSUME NEW c, IsAChange(c), PlainText(c), NEW hs, hs = HunkEntries(c.runs), NEW diff, diff = DiffLines(c.runs),
         NEW s \in Side, NEW i \in DOMAIN diff, diff[i][s] # None, ~OffByOne(hs, s, diff[i][s])
  PROVE  OtherSideLine(hs, s, diff[i][s]) = diff[i][Other(s)]
<1>1. PICK N, F, L : InDiff(hs, diff, N, F, L)
  BY ReviewIsInDiff
<1> QED BY <1>1, OtherSideIsRight


----------------------------------------------------------------------------
(* Where a thread is shown *)

\* One hunk is the nearest, the first of those as near.
LEMMA NearestIsAHunk ==
  ASSUME NEW hs, NEW diff, NEW N, NEW F, NEW L, InDiff(hs, diff, N, F, L), DOMAIN hs # {}, NEW s \in Side, NEW v \in Nat
  PROVE  Nearest(hs, s, v) \in DOMAIN hs
<1> DEFINE dist(k) == Distance(hs[k], s, v)
           D == {dist(k) : k \in DOMAIN hs}
<1>0. DOMAIN hs \subseteq Nat
  BY DEF InDiff
<1>1. ASSUME NEW k \in DOMAIN hs PROVE dist(k) \in Nat
  <2>1. PICK f, c : f = From(hs[k], s) /\ c = hs[k].count[s]
    OBVIOUS
  <2>2. f \in Nat /\ c \in Nat
    BY <2>1, HunkBegins
  <2>3. dist(k) = LET end == f + (IF c = 0 THEN 1 ELSE c) - 1
                  IN  IF v < f THEN f - v ELSE IF v > end THEN v - end ELSE 0
    BY <2>1 DEF Distance
  <2> HIDE DEF dist
  <2> QED BY <2>2, <2>3
<1> HIDE DEF dist
<1>2. D \subseteq Nat /\ D # {}
  BY <1>1
<1>3. PICK d \in D : \A e \in D : d <= e
  <2> HIDE DEF D
  <2> QED BY <1>2, LeastNat
<1> DEFINE K == {k \in DOMAIN hs : dist(k) = d}
<1>4. K \subseteq Nat /\ K # {}
  BY <1>0, <1>3
<1>5. PICK k \in K : \A j \in K : k <= j
  <2> HIDE DEF K
  <2> QED BY <1>4, LeastNat
<1>6. k \in DOMAIN hs /\ k \in Nat /\ dist(k) = d /\ \A j \in DOMAIN hs : dist(k) <= dist(j)
  BY <1>0, <1>3, <1>5
<1>7. ASSUME NEW j \in DOMAIN hs, j < k PROVE dist(k) < dist(j)
  <2>1. dist(j) # d
    BY <1>0, <1>5, <1>6, <1>7
  <2> QED BY <1>1, <1>6, <2>1
<1>8. \E x \in DOMAIN hs : /\ \A j \in DOMAIN hs : dist(x) <= dist(j)
                           /\ \A j \in DOMAIN hs : j < x => dist(x) < dist(j)
  BY <1>6, <1>7
<1> QED BY <1>8 DEF Nearest, dist

\* A thread that is shown at a line: the words it keeps are those of its lines, ...
Keeps(diff, last, s, a) ==
  /\ a.line_text \subseteq {diff[Index(diff, s, a.line)].text}
  /\ a.end_line_text \subseteq {diff[last].text}
  /\ Changed(diff[last]) => a.end_line_text # {} /\ (a.line = a.end_line => a.line_text # {})
\* ... and the hunk it is counted from holds its line, if one does.
HeldBy(hs, diff, last, s, a) ==
  /\ a.line = From(hs[a.hunk], s) + a.offset
  /\ Changed(diff[last]) => Holds(hs[a.hunk], s, a.end_line)

\* A thread at a line is shown there.
LEMMA PlacedOnItsLine ==
  ASSUME NEW hs, NEW diff, NEW N, NEW F, NEW L, InDiff(hs, diff, N, F, L), DOMAIN hs # {},
         NEW s \in Side, NEW last \in DOMAIN diff, NEW first \in DOMAIN diff, NEW t, t.side = s,
         t.line = diff[last][s], t.line # None, t.start_line = None \/ t.start_line = diff[first][s],
         t.text \subseteq {diff[last].text}, NEW a, a = Place(hs, t)
  PROVE  /\ a.side = s /\ a.end_line = t.line
         /\ a.line = IF t.start_line = None \/ t.start_line > t.line THEN t.line ELSE t.start_line
         /\ Keeps(diff, last, s, a) /\ HeldBy(hs, diff, last, s, a)
<1> DEFINE begin == IF t.start_line = None \/ t.start_line > t.line THEN t.line ELSE t.start_line
           held == {j \in DOMAIN hs : Holds(hs[j], s, t.line)}
           k == IF \E j \in DOMAIN hs : Holds(hs[j], s, t.line) THEN Min(held) ELSE Nearest(hs, s, t.line)
           Said(line) == TextAt(hs[k], s, line)
           end == IF Said(t.line) # {} THEN Said(t.line) ELSE t.text
<1>1. DOMAIN hs \subseteq Nat /\ Counted(diff, s, N[s])
  BY DEF InDiff
<1>2. t.line \in Nat /\ Index(diff, s, t.line) = last
  BY <1>1, NumberIsOnce
<1>3. k \in DOMAIN hs /\ ((\E j \in DOMAIN hs : Holds(hs[j], s, t.line)) => Holds(hs[k], s, t.line))
  <2>1. CASE \E j \in DOMAIN hs : Holds(hs[j], s, t.line)
    <3>1. held \subseteq Nat /\ held # {}
      BY <1>1, <2>1
    <3>2. Min(held) \in held
      <4> HIDE DEF held
      <4> QED BY <3>1, MinIsLeast
    <3>3. k = Min(held)
      BY <2>1
    <3> QED BY <3>2, <3>3
  <2>2. CASE ~\E j \in DOMAIN hs : Holds(hs[j], s, t.line)
    <3>1. k = Nearest(hs, s, t.line)
      BY <2>2
    <3> HIDE DEF k
    <3> QED BY <1>2, <2>2, <3>1, NearestIsAHunk
  <2> QED BY <2>1, <2>2
<1>4. a = AnchorAt(s, begin, t.line, hs[k], k, <<IF begin = t.line THEN end ELSE Said(begin), end>>)
  BY DEF Place, PlaceAtLine
<1> HIDE DEF k
<1>5. /\ Said(t.line) \subseteq {diff[last].text}
      /\ Holds(hs[k], s, t.line) <=> last \in F[k]..L[k]
      /\ Holds(hs[k], s, t.line) => Said(t.line) # {}
  <2>1. diff[last][s] # None
    OBVIOUS
  <2>2. /\ Holds(hs[k], s, diff[last][s]) <=> last \in F[k]..L[k]
        /\ TextAt(hs[k], s, diff[last][s]) = IF last \in F[k]..L[k] THEN {diff[last].text} ELSE {}
    BY <1>3, <2>1, HoldsItsLines
  <2>3. Said(t.line) = TextAt(hs[k], s, diff[last][s])
    BY Zenon
  <2>4. Holds(hs[k], s, t.line) <=> Holds(hs[k], s, diff[last][s])
    BY Zenon
  <2> QED BY <2>2, <2>3, <2>4
<1>6. end \subseteq {diff[last].text}
  BY <1>5
<1>7. Changed(diff[last]) => Holds(hs[k], s, t.line) /\ end # {}
  <2> SUFFICES ASSUME Changed(diff[last]) PROVE Holds(hs[k], s, t.line) /\ end # {}
    OBVIOUS
  <2>1. PICK j \in DOMAIN hs : last \in F[j]..L[j]
    BY DEF InDiff
  <2>2. Holds(hs[j], s, t.line)
    <3>1. diff[last][s] # None
      OBVIOUS
    <3>2. Holds(hs[j], s, diff[last][s])
      BY <2>1, <3>1, HoldsItsLines
    <3> QED BY <3>2, Zenon
  <2> QED BY <1>3, <1>5, <2>2
<1>8. begin \in Nat /\ begin # None /\ (begin # t.line => begin = diff[first][s])
  <2>1. CASE begin = t.line
    BY <1>2, <2>1
  <2>2. CASE begin # t.line
    <3>1. begin = t.start_line /\ t.start_line # None /\ t.start_line = diff[first][s]
      BY <2>2
    <3>2. diff[first][s] \in Nat
      BY <1>1, <3>1, NumberIsOnce
    <3> QED BY <3>1, <3>2
  <2> QED BY <2>1, <2>2
<1> HIDE DEF end, begin, Said
<1>9. begin # t.line => Said(begin) \subseteq {diff[Index(diff, s, begin)].text}
  <2> SUFFICES ASSUME begin # t.line PROVE Said(begin) \subseteq {diff[Index(diff, s, begin)].text}
    OBVIOUS
  <2>1. begin = diff[first][s] /\ diff[first][s] # None
    BY <1>8
  <2>2. Index(diff, s, begin) = first
    BY <1>1, <2>1, NumberIsOnce
  <2>3. Said(begin) \subseteq {diff[first].text}
    <3>1. TextAt(hs[k], s, diff[first][s]) = IF first \in F[k]..L[k] THEN {diff[first].text} ELSE {}
      BY <1>3, <2>1, HoldsItsLines
    <3>2. Said(begin) = TextAt(hs[k], s, diff[first][s])
      BY <2>1, Zenon DEF Said
    <3> QED BY <3>1, <3>2
  <2> QED BY <2>2, <2>3
<1>10. /\ a.side = s /\ a.line = begin /\ a.end_line = t.line /\ a.hunk = k /\ a.offset = begin - From(hs[k], s)
       /\ a.line_text = (IF begin = t.line THEN end ELSE Said(begin)) /\ a.end_line_text = end
  BY <1>4 DEF AnchorAt
<1>11. Keeps(diff, last, s, a)
  <2>1. begin = t.line => Index(diff, s, begin) = last
    BY <1>2
  <2> QED BY <1>6, <1>7, <1>9, <1>10, <2>1, Zenon DEF Keeps
<1>12. HeldBy(hs, diff, last, s, a)
  <2>1. From(hs[k], s) \in Nat
    BY <1>3, HunkBegins
  <2>2. begin = From(hs[k], s) + (begin - From(hs[k], s))
    BY <1>8, <2>1
  <2> QED BY <1>7, <1>10, <2>2, Zenon DEF HeldBy
<1> QED BY <1>10, <1>11, <1>12 DEF begin

\* Each line kept of a hunk is a line of the diff, and the other way round.
LEMMA HunkSays ==
  ASSUME NEW hs, NEW diff, NEW N, NEW F, NEW L, InDiff(hs, diff, N, F, L), NEW k \in DOMAIN hs, NEW s \in Side,
         NEW x \in DOMAIN hs[k].text[s]
  PROVE  \E i \in DOMAIN diff :
           /\ Changed(diff[i]) /\ diff[i][s] # None /\ diff[i].text = hs[k].text[s][x].text
           /\ From(hs[k], s) - 1 + x = diff[i][s]
<1>1. PICK b, e, c, f, M : /\ b = N[s][F[k] - 1] /\ e = N[s][L[k]] /\ c = hs[k].count[s] /\ f = From(hs[k], s)
                           /\ M = N[s]
  OBVIOUS
<1>2. /\ Counted(diff, s, M) /\ F[k] \in 1..Len(diff) /\ L[k] \in F[k]..Len(diff)
      /\ b \in Nat /\ e \in Nat /\ c \in Nat /\ c = e - b /\ f = IF c = 0 /\ hs[k].start[s] # 0 THEN b ELSE b + 1
  BY <1>1, HunkBegins
<1>3. /\ DOMAIN hs[k].text[s] = 1..c
      /\ \A i \in F[k]..L[k] : Changed(diff[i])
      /\ \A i \in F[k]..L[k] : diff[i][s] # None => hs[k].text[s][diff[i][s] - b].text = diff[i].text
  BY <1>1 DEF InDiff, HunkIsThere
<1>4. x \in 1..c
  BY <1>3
<1>5. b < b + x /\ b + x <= e /\ b + x \in Int /\ (b + x) - b = x /\ f - 1 + x = b + x /\ b + x # 0
  BY ONLY <1>2, <1>4
<1>6. PICK p, q, n, v : p = F[k] - 1 /\ q = L[k] /\ n = Len(diff) /\ v = b + x
  OBVIOUS
<1>7. n \in Nat /\ DOMAIN diff = 1..n
  BY <1>2, <1>6 DEF Counted
<1>8. p \in 0..n /\ q \in p..n /\ p + 1 = F[k]
  BY <1>2, <1>6, <1>7
<1>9. M[p] < v /\ v <= M[q] /\ v \in Int
  BY <1>1, <1>5, <1>6, Zenon
<1>10. \E i \in (p + 1)..q : diff[i][s] = v
  <2>1. p \in 0..Len(diff) /\ q \in p..Len(diff)
    BY <1>6, <1>8, Zenon
  <2>2. Counted(diff, s, M)
    BY <1>2
  <2> QED BY ONLY <2>1, <2>2, <1>9, NumberIsThere
<1>11. PICK i \in F[k]..L[k] : diff[i][s] = v
  BY <1>6, <1>8, <1>10
<1>12. i \in DOMAIN diff
  BY <1>2, <1>6, <1>7, <1>11
<1>13. diff[i][s] # None /\ diff[i].text = hs[k].text[s][x].text
  <2>1. diff[i][s] # None
    BY <1>5, <1>6, <1>11 DEF None
  <2>2. diff[i][s] - b = x
    BY <1>5, <1>6, <1>11
  <2> QED BY <1>3, <2>1, <2>2
<1>14. From(hs[k], s) - 1 + x = diff[i][s]
  BY <1>1, <1>5, <1>6, <1>11
<1> QED BY <1>3, <1>12, <1>13, <1>14

\* What changed is said by a hunk.
LEMMA ChangedIsSaid ==
  ASSUME NEW hs, NEW diff, NEW N, NEW F, NEW L, InDiff(hs, diff, N, F, L), NEW i \in DOMAIN diff, Changed(diff[i])
  PROVE  \E k \in DOMAIN hs, s \in Side : Says(hs[k], s, {diff[i].text})
<1>1. PICK k \in DOMAIN hs : i \in F[k]..L[k]
  BY DEF InDiff
<1>2. PICK s \in Side : diff[i][s] # None
  BY DEF InDiff
<1>3. Holds(hs[k], s, diff[i][s])
  BY <1>1, <1>2, HoldsItsLines
<1>4. PICK v, f, c, b : v = diff[i][s] /\ f = From(hs[k], s) /\ c = hs[k].count[s] /\ b = N[s][F[k] - 1]
  OBVIOUS
<1>5. /\ c \in Nat /\ b \in Nat /\ f = IF c = 0 /\ hs[k].start[s] # 0 THEN b ELSE b + 1
      /\ Counted(diff, s, N[s])
  BY <1>4, HunkBegins
<1>6. v \in Nat
  BY <1>2, <1>4, <1>5, NumberIsOnce
<1>7. v >= f /\ v < f + c
  BY <1>3, <1>4 DEF Holds
<1>8. v - b \in 1..c
  BY ONLY <1>5, <1>6, <1>7
<1>9. DOMAIN hs[k].text[s] = 1..c /\ hs[k].text[s][v - b].text = diff[i].text
  BY <1>1, <1>2, <1>4 DEF InDiff, HunkIsThere
<1> QED BY <1>8, <1>9 DEF Says

\* Where the line has left the diff its words decide.
LEMMA FoundByItsText ==
  ASSUME NEW hs, NEW diff, NEW N, NEW F, NEW L, InDiff(hs, diff, N, F, L), DOMAIN hs # {}, NEW t, t.side \in Side,
         t.line = None, NEW word, t.text = {word}, word # Blank
  PROVE  FoundByText(hs, diff, t)
<1> DEFINE said == {i \in DOMAIN diff : Changed(diff[i]) /\ {diff[i].text} = t.text}
           a == Place(hs, t)
<1>1. t.text \notin {{}, {Blank}}
  OBVIOUS
<1>2. a = PlaceAtText(hs, t)
  BY DEF Place
<1>3. DOMAIN hs \subseteq Nat
  BY DEF InDiff
<1>4. ASSUME NEW k \in DOMAIN hs, NEW s \in Side, NEW x \in DOMAIN hs[k].text[s], {hs[k].text[s][x].text} = t.text
      PROVE  \E i \in said : diff[i][s] # None /\ From(hs[k], s) - 1 + x = diff[i][s]
  <2>1. PICK i \in DOMAIN diff :
           /\ Changed(diff[i]) /\ diff[i][s] # None /\ diff[i].text = hs[k].text[s][x].text
           /\ From(hs[k], s) - 1 + x = diff[i][s]
    BY HunkSays
  <2> QED BY <1>4, <2>1
<1>5. CASE said = {}
  <2>1. \A k \in DOMAIN hs : \A s \in Side : ~Says(hs[k], s, t.text)
    <3> HIDE DEF said
    <3> QED BY <1>4, <1>5 DEF Says
  <2>2. a = Nowhere
    BY <1>2, <2>1 DEF PlaceAtText
  <2> QED BY <1>5, <2>2 DEF FoundByText
<1>6. CASE said # {}
  <2>1. PICK i \in said : TRUE
    BY <1>6
  <2>2. \E k \in DOMAIN hs, s \in Side : Says(hs[k], s, {diff[i].text})
    BY <2>1, ChangedIsSaid
  <2>3. \E k \in DOMAIN hs, s \in Side : Says(hs[k], s, t.text)
    BY <2>1, <2>2
  <2> DEFINE found == {j \in DOMAIN hs : \E s \in Side : Says(hs[j], s, t.text)}
             k == Min(found)
             side == IF Says(hs[k], t.side, t.text) THEN t.side ELSE Other(t.side)
             at == {x \in DOMAIN hs[k].text[side] : {hs[k].text[side][x].text} = t.text}
             line == From(hs[k], side) - 1 + Min(at)
  <2>4. a = AnchorAt(side, line, line, hs[k], k, <<t.text, t.text>>)
    BY <1>1, <1>2, <2>3 DEF PlaceAtText
  <2>5. k \in found
    <3>1. found \subseteq Nat /\ found # {}
      BY <1>3, <2>3
    <3> HIDE DEF found
    <3> QED BY <3>1, MinIsLeast
  <2>6. k \in DOMAIN hs /\ \E s \in Side : Says(hs[k], s, t.text)
    BY <2>5
  <2> HIDE DEF k, found
  <2>7. side \in Side /\ Says(hs[k], side, t.text)
    <3>1. Other(t.side) \in Side /\ \A s \in Side : s = t.side \/ s = Other(t.side)
      BY OtherIsASide
    <3> QED BY <2>6, <3>1
  <2> HIDE DEF side
  <2>8. Min(at) \in at
    <3>1. at # {}
      BY <2>7 DEF Says
    <3>2. DOMAIN hs[k].text[side] = 1..hs[k].count[side]
      BY <2>6, <2>7 DEF InDiff, HunkIsThere
    <3>3. at \subseteq Nat
      BY <3>2
    <3> HIDE DEF at
    <3> QED BY <3>1, <3>3, MinIsLeast
  <2>9. PICK x : x = Min(at)
    OBVIOUS
  <2>10. x \in DOMAIN hs[k].text[side] /\ {hs[k].text[side][x].text} = t.text
    BY <2>8, <2>9
  <2>11. PICK y \in said : diff[y][side] # None /\ From(hs[k], side) - 1 + x = diff[y][side]
    <3> HIDE DEF said
    <3> QED BY <1>4, <2>6, <2>7, <2>10
  <2>12. line = diff[y][side]
    BY <2>9, <2>11
  <2> HIDE DEF line, at
  <2>13. Index(diff, side, line) = y
    <3>1. Counted(diff, side, N[side]) /\ y \in DOMAIN diff
      BY <2>7, <2>11 DEF InDiff
    <3> QED BY <2>11, <2>12, <3>1, NumberIsOnce
  <2>14. a.side = side /\ a.line = line
    BY <2>4 DEF AnchorAt
  <2>15. Index(diff, a.side, a.line) \in said
    BY <2>11, <2>13, <2>14
  <2> QED BY <1>6, <2>15 DEF FoundByText
<1> QED BY <1>5, <1>6

----------------------------------------------------------------------------
(* There and back *)

TruthfulOn(diff, a) ==
  \A at \in {<<a.line, a.line_text>>, <<a.end_line, a.end_line_text>>} :
    LET i == Index(diff, a.side, at[1])
    IN  at[2] \subseteq {diff[i].text} /\ (Changed(diff[i]) /\ a.line = a.end_line => at[2] # {})
HeldOn(hs, diff, a) ==
  /\ a.line = From(hs[a.hunk], a.side) + a.offset
  /\ Changed(diff[Index(diff, a.side, a.end_line)]) => Holds(hs[a.hunk], a.side, a.end_line)

\* In the words of ComesBackToItsLine.
LEMMA PlacedIsTruthful ==
  ASSUME NEW hs, NEW diff, NEW last, NEW s, NEW a, a.side = s, Index(diff, s, a.end_line) = last,
         Keeps(diff, last, s, a), HeldBy(hs, diff, last, s, a)
  PROVE  TruthfulOn(diff, a) /\ HeldOn(hs, diff, a)
<1>1. HeldOn(hs, diff, a)
  BY DEF HeldOn, HeldBy
<1>2. ASSUME NEW at \in {<<a.line, a.line_text>>, <<a.end_line, a.end_line_text>>}, NEW i, i = Index(diff, a.side, at[1])
      PROVE  at[2] \subseteq {diff[i].text} /\ (Changed(diff[i]) /\ a.line = a.end_line => at[2] # {})
  <2>1. CASE at = <<a.line, a.line_text>>
    <3>1. at[1] = a.line /\ at[2] = a.line_text
      BY <2>1
    <3>2. i = Index(diff, s, a.line)
      BY <1>2, <3>1, Zenon
    <3>3. at[2] \subseteq {diff[i].text}
      BY <3>1, <3>2, Zenon DEF Keeps
    <3>4. ASSUME Changed(diff[i]), a.line = a.end_line PROVE at[2] # {}
      <4>1. i = last
        BY <3>2, <3>4, Zenon
      <4> QED BY <3>1, <3>4, <4>1, Zenon DEF Keeps
    <3> QED BY <3>3, <3>4
  <2>2. CASE at = <<a.end_line, a.end_line_text>>
    <3>1. at[1] = a.end_line /\ at[2] = a.end_line_text
      BY <2>2
    <3>2. i = last
      BY <1>2, <3>1, Zenon
    <3> QED BY <3>1, <3>2, Zenon DEF Keeps
  <2> QED BY <2>1, <2>2
<1> QED BY <1>1, <1>2 DEF TruthfulOn

\* A comment as GitHub answers with it.
FromGitHub(sent, text) == ParseGhThread(ReviewBody(sent), text, FALSE)

\* On GitHub a note keeps its numbers.
LEMMA GitHubBringsItBack ==
  ASSUME NEW hs, NEW diff, NEW N, NEW F, NEW L, InDiff(hs, diff, N, F, L), DOMAIN hs # {}, NEW n \in Notes(diff),
         NEW sent, sent = NewComment(hs, n), NEW last, last = Index(diff, n.side, n.end_line),
         NEW t, t = FromGitHub(sent, diff[last].text), NEW a, a = Place(hs, t)
  PROVE  /\ a.side = n.side /\ a.line = n.line /\ a.end_line = n.end_line
         /\ TruthfulOn(diff, a) /\ HeldOn(hs, diff, a)
<1>1. PICK first, s : first = Index(diff, n.side, n.line) /\ s = n.side
  OBVIOUS
<1>2. \A u \in Side : Counted(diff, u, N[u])
  BY DEF InDiff
<1>3. /\ s \in Side /\ first \in 1..Len(diff) /\ last \in first..Len(diff)
      /\ n.line = diff[first][s] /\ n.line # None /\ n.line \in Nat
      /\ n.end_line = diff[last][s] /\ n.end_line # None /\ n.end_line \in Nat
      /\ n.line <= n.end_line
  BY <1>1, <1>2, NoteIsOnLines
<1>4. first \in DOMAIN diff /\ last \in DOMAIN diff
  <2>1. Len(diff) \in Nat /\ DOMAIN diff = 1..Len(diff)
    BY <1>2, <1>3 DEF Counted
  <2> QED BY <1>3, <2>1
<1>5. t = ParseGhThread(ReviewBody(sent), diff[last].text, FALSE)
  BY DEF FromGitHub
<1>6. /\ t.side = s /\ t.line = n.end_line /\ t.text = {diff[last].text}
      /\ t.start_line = (IF n.end_line > n.line THEN n.line ELSE None)
  <2>1. /\ sent.side = s /\ sent.line = n.end_line
        /\ sent.start_line = (IF n.end_line > n.line THEN n.line ELSE None)
    BY <1>1 DEF NewComment
  <2>2. /\ t.side = ReviewBody(sent).side /\ t.line = ReviewBody(sent).line
        /\ t.start_line = ReviewBody(sent).start_line /\ t.text = {diff[last].text}
    BY <1>5 DEF ParseGhThread
  <2>3. ReviewBody(sent).side = sent.side /\ ReviewBody(sent).line = sent.line /\ ReviewBody(sent).start_line = sent.start_line
    BY DEF ReviewBody
  <2> QED BY <2>1, <2>2, <2>3, Zenon
<1>7. t.line = diff[last][s] /\ t.line # None /\ (t.start_line = None \/ t.start_line = diff[first][s])
  BY <1>3, <1>6
<1>8. a = Place(hs, t)
  BY <1>5, Zenon
<1>9. /\ a.side = s /\ a.end_line = t.line
      /\ a.line = (IF t.start_line = None \/ t.start_line > t.line THEN t.line ELSE t.start_line)
      /\ Keeps(diff, last, s, a) /\ HeldBy(hs, diff, last, s, a)
  <2>1. t.text \subseteq {diff[last].text} /\ t.side = s /\ s \in Side
    BY <1>3, <1>6
  <2>2. t.line = diff[last][s] /\ t.line # None
    BY <1>7
  <2>3. t.start_line = None \/ t.start_line = diff[first][s]
    BY <1>7
  <2>4. s \in Side /\ first \in DOMAIN diff /\ last \in DOMAIN diff /\ InDiff(hs, diff, N, F, L) /\ DOMAIN hs # {}
    BY <1>3, <1>4
  <2> QED BY ONLY <1>8, <2>1, <2>2, <2>3, <2>4, PlacedOnItsLine
<1>10. a.line = n.line
  <2>1. PICK v, w : v = n.line /\ w = n.end_line
    OBVIOUS
  <2>2. v \in Nat /\ w \in Nat /\ v <= w /\ v # None
    BY <1>3, <2>1
  <2>3. t.line = w /\ t.start_line = IF w > v THEN v ELSE None
    BY <1>6, <2>1
  <2>4. (IF t.start_line = None \/ t.start_line > t.line THEN t.line ELSE t.start_line) = v
    BY ONLY <2>2, <2>3
  <2> QED BY <1>9, <2>1, <2>4
<1>11. Index(diff, s, a.end_line) = last
  BY <1>1, <1>6, <1>9
<1>12. TruthfulOn(diff, a) /\ HeldOn(hs, diff, a)
  BY <1>9, <1>11, PlacedIsTruthful, Zenon
<1> QED BY <1>1, <1>6, <1>9, <1>10, <1>12

\* On GitLab it is on the same line of the diff, if both numbers of its ends are real.
LEMMA GitLabBringsItBack ==
  ASSUME NEW hs, NEW diff, NEW N, NEW F, NEW L, InDiff(hs, diff, N, F, L), DOMAIN hs # {}, NEW n \in Notes(diff),
         \A line \in {n.line, n.end_line} : ~OffByOne(hs, n.side, line),
         NEW sent, sent = NewComment(hs, n), NEW last, last = Index(diff, n.side, n.end_line),
         NEW a, a = Place(hs, ParseDiscussion(DraftNotePosition(sent)))
  PROVE  /\ Index(diff, a.side, a.end_line) = last
         /\ a.line \in {a.end_line, diff[Index(diff, n.side, n.line)][a.side]}
         /\ TruthfulOn(diff, a) /\ HeldOn(hs, diff, a)
<1>1. PICK first, s, o : first = Index(diff, n.side, n.line) /\ s = n.side /\ o = Other(s)
  OBVIOUS
<1>2. \A u \in Side : Counted(diff, u, N[u])
  BY DEF InDiff
<1>3. /\ s \in Side /\ first \in 1..Len(diff) /\ last \in first..Len(diff)
      /\ n.line = diff[first][s] /\ n.line # None /\ n.line \in Nat
      /\ n.end_line = diff[last][s] /\ n.end_line # None /\ n.end_line \in Nat
      /\ n.line <= n.end_line
  BY <1>1, <1>2, NoteIsOnLines
<1>4. first \in DOMAIN diff /\ last \in DOMAIN diff
  <2>1. Len(diff) \in Nat /\ DOMAIN diff = 1..Len(diff)
    BY <1>2, <1>3 DEF Counted
  <2> QED BY <1>3, <2>1
<1>5. o \in Side /\ o # s /\ \A u \in Side : u = s \/ u = o
  BY <1>1, <1>3, OtherIsASide
<1>6. OtherSideLine(hs, s, n.line) = diff[first][o] /\ OtherSideLine(hs, s, n.end_line) = diff[last][o]
  <2>1. ~OffByOne(hs, s, diff[first][s]) /\ ~OffByOne(hs, s, diff[last][s])
    BY <1>1, <1>3, Zenon
  <2>2. diff[first][s] # None /\ diff[last][s] # None
    BY <1>3, Zenon
  <2>3. OtherSideLine(hs, s, diff[first][s]) = diff[first][Other(s)]
    BY <1>3, <1>4, <2>1, <2>2, OtherSideIsRight
  <2>4. OtherSideLine(hs, s, diff[last][s]) = diff[last][Other(s)]
    BY <1>3, <1>4, <2>1, <2>2, OtherSideIsRight
  <2> QED BY <1>1, <1>3, <2>3, <2>4, Zenon
<1>7. PICK pos : pos = DraftNotePosition(sent)
  OBVIOUS
<1>8. ASSUME NEW u \in Side PROVE pos.line[u] = diff[last][u]
  <2>1. pos.line[u] = IF u = sent.side THEN sent.line ELSE sent.other_line
    BY <1>7 DEF DraftNotePosition
  <2>2. sent.side = s /\ sent.line = n.end_line /\ sent.other_line = OtherSideLine(hs, s, n.end_line)
    BY <1>1 DEF NewComment
  <2> QED BY <1>3, <1>5, <1>6, <2>1, <2>2, Zenon
<1>9. ASSUME NEW u \in Side, NEW p \in pos.span PROVE p.start[u] = diff[first][u]
  <2>1. pos.span = sent.span
    BY <1>7 DEF DraftNotePosition
  <2>2. p = [start |-> LineEnd(hs, s, n.line), end |-> LineEnd(hs, s, n.end_line)]
    <3>1. sent.span = IF n.end_line > n.line
                      THEN {[start |-> LineEnd(hs, s, n.line), end |-> LineEnd(hs, s, n.end_line)]} ELSE {}
      BY <1>1 DEF NewComment
    <3> QED BY <1>9, <2>1, <3>1
  <2>3. p.start = LineEnd(hs, s, n.line)
    BY <2>2
  <2>4. p.start[u] = IF u = s THEN n.line ELSE OtherSideLine(hs, s, n.line)
    BY <2>3 DEF LineEnd
  <2> QED BY <1>3, <1>5, <1>6, <2>4, Zenon
<1>10. PICK t, side, starts : /\ t = ParseDiscussion(pos) /\ side = (IF pos.line["new"] # None THEN "new" ELSE "old")
                              /\ starts = {span.start[side] : span \in pos.span}
  OBVIOUS
<1>11. /\ t.side = side /\ t.line = pos.line[side] /\ t.text = {}
       /\ t.start_line = IF \E x \in starts : x < pos.line[side] THEN CHOOSE x \in starts : TRUE ELSE None
  BY <1>10 DEF ParseDiscussion
<1>12. side \in Side /\ t.line = diff[last][side] /\ t.line # None
  <2>1. "old" \in Side /\ "new" \in Side /\ side \in Side
    BY <1>10 DEF Side
  <2>2. t.line = diff[last][side]
    BY <1>8, <1>11, <2>1
  <2>3. diff[last]["old"] # None \/ diff[last]["new"] # None
    BY <1>3 DEF Side
  <2>4. side = IF diff[last]["new"] # None THEN "new" ELSE "old"
    BY <1>8, <1>10, <2>1
  <2> QED BY <2>1, <2>2, <2>3, <2>4
<1>13. t.start_line = None \/ t.start_line = diff[first][side]
  <2>1. \A x \in starts : x = diff[first][side]
    BY <1>9, <1>10, <1>12
  <2>2. CASE starts = {}
    BY <1>11, <2>2
  <2>3. CASE starts # {}
    <3>1. (CHOOSE x \in starts : TRUE) \in starts
      BY <2>3
    <3> QED BY <1>11, <2>1, <3>1
  <2> QED BY <2>2, <2>3
<1>14. a = Place(hs, t)
  BY <1>7, <1>10, Zenon
<1>15. /\ a.side = side /\ a.end_line = t.line
       /\ a.line = (IF t.start_line = None \/ t.start_line > t.line THEN t.line ELSE t.start_line)
       /\ Keeps(diff, last, side, a) /\ HeldBy(hs, diff, last, side, a)
  <2>1. t.text \subseteq {diff[last].text} /\ t.side = side
    BY <1>11
  <2>2. side \in Side /\ first \in DOMAIN diff /\ last \in DOMAIN diff /\ InDiff(hs, diff, N, F, L) /\ DOMAIN hs # {}
    BY <1>4, <1>12
  <2> QED BY ONLY <1>12, <1>13, <1>14, <2>1, <2>2, PlacedOnItsLine
<1>16. Index(diff, side, a.end_line) = last
  <2>1. Index(diff, side, diff[last][side]) = last
    BY <1>2, <1>4, <1>12, NumberIsOnce
  <2> QED BY <1>12, <1>15, <2>1, Zenon
<1>17. a.line \in {a.end_line, diff[first][side]}
  BY <1>13, <1>15
<1>18. TruthfulOn(diff, a) /\ HeldOn(hs, diff, a)
  BY <1>15, <1>16, PlacedIsTruthful, Zenon
<1> QED BY <1>1, <1>15, <1>16, <1>17, <1>18, Zenon

\* Once the line has left the diff its words decide.
LEMMA WordsBringItBack ==
  ASSUME NEW hs, NEW diff, NEW N, NEW F, NEW L, InDiff(hs, diff, N, F, L), DOMAIN hs # {}, NEW n \in Notes(diff),
         NEW sent, sent = NewComment(hs, n), NEW word, word # Blank
  PROVE  FoundByText(hs, diff, ParseGhThread(ReviewBody(sent), word, TRUE))
<1>1. PICK t : t = ParseGhThread(ReviewBody(sent), word, TRUE)
  OBVIOUS
<1>2. t.side = ReviewBody(sent).side /\ t.line = None /\ t.text = {word}
  BY <1>1 DEF ParseGhThread
<1>3. ReviewBody(sent).side = n.side
  BY DEF ReviewBody, NewComment
<1>4. n.side \in Side
  BY DEF Notes
<1>5. t.side \in Side
  BY <1>2, <1>3, <1>4
<1>6. FoundByText(hs, diff, t)
  BY <1>2, <1>5, FoundByItsText
<1> QED BY <1>1, <1>6, Zenon

\* ComesBackToItsLine: a note that went to a request comes back to its own line, with its hunk, its offset and its
\* words, on either forge, and by its words once the line has left the diff.
THEOREM NotesComeBack == Spec => []ComesBackToItsLine
<1> DEFINE github(hs, diff, n) ==
             Place(hs, ParseGhThread(ReviewBody(NewComment(hs, n)), diff[Index(diff, n.side, n.end_line)].text, FALSE))
           gitlab(hs, n) == Place(hs, ParseDiscussion(DraftNotePosition(NewComment(hs, n))))
           Back(hs, diff, n) ==
             DOMAIN hs # {} =>
                /\ <<github(hs, diff, n).side, github(hs, diff, n).line, github(hs, diff, n).end_line>>
                     = <<n.side, n.line, n.end_line>>
                /\ TruthfulOn(diff, github(hs, diff, n)) /\ HeldOn(hs, diff, github(hs, diff, n))
                /\ (\A line \in {n.line, n.end_line} : ~OffByOne(hs, n.side, line)) =>
                    /\ Index(diff, gitlab(hs, n).side, gitlab(hs, n).end_line) = Index(diff, n.side, n.end_line)
                    /\ gitlab(hs, n).line \in {gitlab(hs, n).end_line, diff[Index(diff, n.side, n.line)][gitlab(hs, n).side]}
                    /\ TruthfulOn(diff, gitlab(hs, n)) /\ HeldOn(hs, diff, gitlab(hs, n))
                /\ diff[Index(diff, n.side, n.end_line)].text # Blank =>
                    FoundByText(hs, diff,
                      ParseGhThread(ReviewBody(NewComment(hs, n)), diff[Index(diff, n.side, n.end_line)].text, TRUE))
<1>1. ASSUME Staged, NEW c \in InReview, NEW hs, hs = HunkEntries(c.runs), NEW diff, diff = DiffLines(c.runs),
             NEW n \in Notes(diff)
      PROVE  Back(hs, diff, n)
  <2>1. PICK N, F, L : InDiff(hs, diff, N, F, L)
    BY <1>1, InReviewIsText, ReviewIsInDiff
  <2> SUFFICES ASSUME DOMAIN hs # {}
               PROVE  /\ <<github(hs, diff, n).side, github(hs, diff, n).line, github(hs, diff, n).end_line>>
                           = <<n.side, n.line, n.end_line>>
                      /\ TruthfulOn(diff, github(hs, diff, n)) /\ HeldOn(hs, diff, github(hs, diff, n))
                      /\ (\A line \in {n.line, n.end_line} : ~OffByOne(hs, n.side, line)) =>
                          /\ Index(diff, gitlab(hs, n).side, gitlab(hs, n).end_line) = Index(diff, n.side, n.end_line)
                          /\ gitlab(hs, n).line \in {gitlab(hs, n).end_line, diff[Index(diff, n.side, n.line)][gitlab(hs, n).side]}
                          /\ TruthfulOn(diff, gitlab(hs, n)) /\ HeldOn(hs, diff, gitlab(hs, n))
                      /\ diff[Index(diff, n.side, n.end_line)].text # Blank =>
                          FoundByText(hs, diff,
                            ParseGhThread(ReviewBody(NewComment(hs, n)), diff[Index(diff, n.side, n.end_line)].text, TRUE))
    OBVIOUS
  <2>2. PICK sent, last : sent = NewComment(hs, n) /\ last = Index(diff, n.side, n.end_line)
    OBVIOUS
  <2>3. PICK a, b : a = github(hs, diff, n) /\ b = gitlab(hs, n)
    OBVIOUS
  <2>4. /\ a = Place(hs, ParseGhThread(ReviewBody(sent), diff[last].text, FALSE))
        /\ b = Place(hs, ParseDiscussion(DraftNotePosition(sent)))
    BY <2>2, <2>3, Zenon
  <2> HIDE DEF github, gitlab
  <2>5. <<a.side, a.line, a.end_line>> = <<n.side, n.line, n.end_line>> /\ TruthfulOn(diff, a) /\ HeldOn(hs, diff, a)
    <3>1. n \in Notes(diff) /\ DOMAIN hs # {} /\ sent = NewComment(hs, n) /\ last = Index(diff, n.side, n.end_line)
      BY <1>1, <2>2
    <3>2. PICK t : t = FromGitHub(sent, diff[last].text) /\ a = Place(hs, t)
      BY <2>4 DEF FromGitHub
    <3>3. a.side = n.side /\ a.line = n.line /\ a.end_line = n.end_line /\ TruthfulOn(diff, a) /\ HeldOn(hs, diff, a)
      BY ONLY <2>1, <3>1, <3>2, GitHubBringsItBack
    <3> QED BY <3>3
  <2>6. (\A line \in {n.line, n.end_line} : ~OffByOne(hs, n.side, line)) =>
          /\ Index(diff, b.side, b.end_line) = last
          /\ b.line \in {b.end_line, diff[Index(diff, n.side, n.line)][b.side]}
          /\ TruthfulOn(diff, b) /\ HeldOn(hs, diff, b)
    <3>1. n \in Notes(diff) /\ DOMAIN hs # {} /\ sent = NewComment(hs, n) /\ last = Index(diff, n.side, n.end_line)
      BY <1>1, <2>2
    <3> SUFFICES ASSUME \A line \in {n.line, n.end_line} : ~OffByOne(hs, n.side, line)
                 PROVE  /\ Index(diff, b.side, b.end_line) = last
                        /\ b.line \in {b.end_line, diff[Index(diff, n.side, n.line)][b.side]}
                        /\ TruthfulOn(diff, b) /\ HeldOn(hs, diff, b)
      OBVIOUS
    <3>2. \A line \in {n.line, n.end_line} : ~OffByOne(hs, n.side, line)
      OBVIOUS
    <3> QED BY ONLY <2>1, <2>4, <3>1, <3>2, GitLabBringsItBack
  <2>7. diff[last].text # Blank => FoundByText(hs, diff, ParseGhThread(ReviewBody(sent), diff[last].text, TRUE))
    BY <1>1, <2>1, <2>2, WordsBringItBack, Zenon
  <2> QED BY <2>2, <2>3, <2>5, <2>6, <2>7, Zenon
<1>2. Staged => ComesBackToItsLine
  <2>1. ASSUME Staged, NEW c \in InReview, NEW hs \in {HunkEntries(c.runs)}, NEW diff \in {DiffLines(c.runs)},
               NEW n \in Notes(diff)
        PROVE  Back(hs, diff, n)
    <3>1. hs = HunkEntries(c.runs) /\ diff = DiffLines(c.runs)
      OBVIOUS
    <3> HIDE DEF Back
    <3> QED BY <1>1, <2>1, <3>1, Zenon
  <2> QED BY <2>1, Zenon DEF ComesBackToItsLine, TruthfulOn, HeldOn
<1> QED BY <1>2, RebuildIsInvariant, PTL DEF RebuildInv
=============================================================================
