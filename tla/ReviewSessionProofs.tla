------------------------ MODULE ReviewSessionProofs ------------------------
(***************************************************************************)
(* What `reanchor` and the writing of an anchor guarantee, and from it the *)
(* invariance of the properties of ReviewSession, for any plans, notes and *)
(* number of sessions, and the refinement of NoteBook by a session that is *)
(* alone.                                                                  *)
(***************************************************************************)
EXTENDS ReviewSession, FiniteInduction

----------------------------------------------------------------------------
(* Anchors (module Anchoring) *)

LEMMA HunkType ==
  ASSUME NEW p \in Plan, NEW k \in DOMAIN HunksOf[p]
  PROVE  HunksOf[p][k] \in Hunk
BY PlansAssumption

LEMMA StartType ==
  ASSUME NEW h \in Hunk, NEW side
  PROVE  StartOn(h, side) \in Nat \ {0} /\ LinesOn(h, side) \in Seq(Text)
         /\ DigestOf(h) \in Digest
BY DEF StartOn, AtLeastOne, LinesOn, Hunk, DigestOf, Digest

\* The offset of a text that some line has is the offset of such a line.
LEMMA OffsetHolds ==
  ASSUME NEW lines \in Seq(Text), NEW text, Holds(lines, text)
  PROVE  /\ OffsetOf(lines, text) \in Nat
         /\ OffsetOf(lines, text) + 1 \in DOMAIN lines
         /\ lines[OffsetOf(lines, text) + 1] = text
<1> DEFINE T == {i \in DOMAIN lines : lines[i] = text}
<1>1. T \subseteq Nat /\ T # {}
  BY DEF Holds
<1>2. \E x \in T : \A y \in T : x <= y
  <2> HIDE DEF T
  <2> QED BY <1>1, LeastNat
<1>3. \E i \in DOMAIN lines :
        lines[i] = text /\ \A j \in DOMAIN lines : lines[j] = text => i <= j
  BY <1>2
<1> DEFINE c == CHOOSE i \in DOMAIN lines :
        lines[i] = text /\ \A j \in DOMAIN lines : lines[j] = text => i <= j
<1>4. c \in DOMAIN lines /\ lines[c] = text
  BY <1>3
<1>5. OffsetOf(lines, text) = c - 1
  BY DEF OffsetOf
<1>6. c \in Nat /\ c >= 1
  BY <1>4
<1> QED BY <1>4, <1>5, <1>6

LEMMA ReattachType ==
  ASSUME NEW f \in Finding, NEW a \in Anchor, NEW h \in Hunk, NEW p \in Plan,
         NEW moved \in BOOLEAN,
         NEW g, g = Reattach(f, a, h, p, moved)
  PROVE  /\ g \in Finding
         /\ g.body = f.body /\ g.upstream = f.upstream
         /\ g.plan_hash = p /\ g.status # "orphaned"
         /\ g.anchor.file = a.file /\ g.anchor.side = a.side
         /\ g.anchor.digest = a.digest /\ g.anchor.offset = a.offset
         /\ g.anchor.line_text = a.line_text /\ g.anchor.span = a.span
         /\ g.anchor.line = AtLeastOne(StartOn(h, a.side) + a.offset)
         /\ g.anchor.end_line = g.anchor.line + a.span
<1> DEFINE line == AtLeastOne(StartOn(h, a.side) + a.offset)
           r == Resolve(a, StartOn(h, a.side))
<1>1. StartOn(h, a.side) \in Nat
  BY StartType
<1>2. line \in Nat
  BY <1>1 DEF AtLeastOne, Anchor
<1>3. r = [a EXCEPT !.line = line, !.end_line = line + a.span]
  BY DEF Resolve
<1>4. g = [f EXCEPT !.anchor = r, !.plan_hash = p, !.moved = moved,
                  !.status = IF f.status = "orphaned" THEN "open" ELSE f.status]
  BY DEF Reattach
<1> HIDE DEF r, line
<1>5. line + a.span \in Nat
  BY <1>2 DEF Anchor
<1>6. r \in Anchor
  BY <1>2, <1>3, <1>5 DEF Anchor
<1>7. /\ r.file = a.file /\ r.side = a.side /\ r.digest = a.digest
      /\ r.offset = a.offset /\ r.line_text = a.line_text /\ r.span = a.span
      /\ r.line = line /\ r.end_line = line + a.span
  BY <1>3 DEF Anchor
<1> QED BY <1>4, <1>6, <1>7 DEF Finding, Status, line

\* A clean re-anchor: the note is on the hunk that has its digest, and what was
\* the text at its offset still is.
LEMMA ExactPlaced ==
  ASSUME NEW f \in Finding, NEW p \in Plan, NEW k \in DOMAIN HunksOf[p],
         ExactAt(f, p, k), Placed(f)
  PROVE  LET g == ReattachExact(f, p, k)
         IN  /\ g \in Finding /\ Placed(g) /\ g.plan_hash = p
             /\ g.status # "orphaned"
             /\ g.body = f.body /\ g.upstream = f.upstream
<1> DEFINE h == HunksOf[p][k]
           a == [f.anchor EXCEPT !.file = h.file]
           g == ReattachExact(f, p, k)
<1>1. h \in Hunk
  BY HunkType
<1>2. a \in Anchor /\ a.file = h.file /\ a.digest = f.anchor.digest
      /\ a.side = f.anchor.side /\ a.offset = f.anchor.offset
      /\ a.line_text = f.anchor.line_text /\ a.span = f.anchor.span
  BY <1>1 DEF Finding, Anchor, Hunk
<1>3. PICK moved \in BOOLEAN : g = Reattach(f, a, h, p, moved)
  BY DEF ReattachExact
<1> HIDE DEF a, h, g
<1>4. /\ g \in Finding /\ g.plan_hash = p /\ g.status # "orphaned"
      /\ g.body = f.body /\ g.upstream = f.upstream
      /\ g.anchor.file = a.file /\ g.anchor.side = a.side
      /\ g.anchor.digest = a.digest /\ g.anchor.offset = a.offset
      /\ g.anchor.line_text = a.line_text /\ g.anchor.span = a.span
      /\ g.anchor.line = AtLeastOne(StartOn(h, a.side) + a.offset)
      /\ g.anchor.end_line = g.anchor.line + a.span
  BY <1>1, <1>2, <1>3, ReattachType
<1>5. PICK j \in DOMAIN HunksOf[f.plan_hash] :
        LET e == HunksOf[f.plan_hash][j]
            i == f.anchor.offset + 1
        IN  /\ DigestOf(e) = f.anchor.digest
            /\ i \in DOMAIN LinesOn(e, f.anchor.side) =>
                 Lossy[LinesOn(e, f.anchor.side)[i]] = f.anchor.line_text
  BY DEF Placed
<1> DEFINE e == HunksOf[f.plan_hash][j]
<1>6. DigestOf(h) = f.anchor.digest
  BY DEF ExactAt, h
<1>7. LinesOn(h, a.side) = LinesOn(e, a.side)
  <2>1. DigestOf(h) = DigestOf(e)
    BY <1>5, <1>6
  <2> HIDE DEF e
  <2> QED BY <2>1 DEF DigestOf, LinesOn
<1>8. g.anchor.offset + 1 \in DOMAIN LinesOn(h, g.anchor.side) =>
        Lossy[LinesOn(h, g.anchor.side)[g.anchor.offset + 1]] = g.anchor.line_text
  BY <1>2, <1>4, <1>5, <1>7
<1>9. Placed(g)
  <2>1. HunksOf[g.plan_hash][k] = h /\ k \in DOMAIN HunksOf[g.plan_hash]
    BY <1>4 DEF h
  <2>2. DigestOf(h) = g.anchor.digest /\ h.file = g.anchor.file
    BY <1>2, <1>4, <1>6
  <2> QED BY <2>1, <2>2, <1>4, <1>8 DEF Placed
<1> QED BY <1>4, <1>9 DEF g

\* A content match: the note is put on a line that reads as its own does.
LEMMA ContentPlaced ==
  ASSUME NEW f \in Finding, NEW p \in Plan, NEW k \in DOMAIN HunksOf[p],
         ContentAt(f, p, k)
  PROVE  LET g == ReattachContent(f, p, k)
         IN  /\ g \in Finding /\ Placed(g) /\ g.plan_hash = p
             /\ g.status # "orphaned"
             /\ g.body = f.body /\ g.upstream = f.upstream
<1> DEFINE h == HunksOf[p][k]
           side == SideHolding(f.anchor, h)
           offset == OffsetOf(LinesOn(h, side), f.anchor.line_text)
           a == [f.anchor EXCEPT !.digest = DigestOf(h), !.side = side,
                                 !.offset = offset]
           g == ReattachContent(f, p, k)
<1>1. h \in Hunk
  BY HunkType
<1>2. f.anchor \in Anchor
  BY DEF Finding
<1>3. h.file = f.anchor.file
      /\ (Holds(h.added, f.anchor.line_text) \/ Holds(h.removed, f.anchor.line_text))
  BY DEF ContentAt, HoldsText
<1>4. side \in Side /\ Holds(LinesOn(h, side), f.anchor.line_text)
  BY <1>2, <1>3 DEF SideHolding, LinesOn, Side, Anchor
<1>5. LinesOn(h, side) \in Seq(Text) /\ DigestOf(h) \in Digest
  BY <1>1, StartType
<1> HIDE DEF h, side
<1>6. /\ offset \in Nat /\ offset + 1 \in DOMAIN LinesOn(h, side)
      /\ Lossy[LinesOn(h, side)[offset + 1]] = f.anchor.line_text
  BY <1>2, <1>4, <1>5, OffsetHolds DEF Anchor, Utf8
<1> HIDE DEF offset
<1>7. a \in Anchor /\ a.file = f.anchor.file /\ a.digest = DigestOf(h)
      /\ a.side = side /\ a.offset = offset
      /\ a.line_text = f.anchor.line_text /\ a.span = f.anchor.span
  <2>1. /\ a.file = f.anchor.file /\ a.digest = DigestOf(h)
        /\ a.side = side /\ a.offset = offset
        /\ a.line_text = f.anchor.line_text /\ a.span = f.anchor.span
    BY <1>2 DEF Anchor
  <2>2. offset \in Int /\ side \in Side /\ DigestOf(h) \in Digest
    BY <1>4, <1>5, <1>6
  <2>3. a \in Anchor
    <3> DEFINE d == DigestOf(h)
    <3> HIDE DEF d
    <3>1. a = [f.anchor EXCEPT !.digest = d, !.side = side, !.offset = offset]
      BY DEF d
    <3>2. d \in Digest
      BY <2>2 DEF d
    <3> QED BY <1>2, <2>2, <3>1, <3>2 DEF Anchor
  <2> QED BY <2>1, <2>3
<1>8. PICK moved \in BOOLEAN : g = Reattach(f, a, h, p, moved)
  BY DEF ReattachContent, h, side, offset
<1> HIDE DEF a, g
<1>9. /\ g \in Finding /\ g.plan_hash = p /\ g.status # "orphaned"
      /\ g.body = f.body /\ g.upstream = f.upstream
      /\ g.anchor.file = a.file /\ g.anchor.side = a.side
      /\ g.anchor.digest = a.digest /\ g.anchor.offset = a.offset
      /\ g.anchor.line_text = a.line_text /\ g.anchor.span = a.span
      /\ g.anchor.line = AtLeastOne(StartOn(h, a.side) + a.offset)
      /\ g.anchor.end_line = g.anchor.line + a.span
  BY <1>1, <1>7, <1>8, ReattachType
<1>10. HunksOf[g.plan_hash][k] = h /\ k \in DOMAIN HunksOf[g.plan_hash]
  BY <1>9 DEF h
<1>11. Placed(g)
  BY <1>3, <1>6, <1>7, <1>9, <1>10 DEF Placed
<1> QED BY <1>9, <1>11 DEF g

\* What one pass makes of a well-placed note: a well-placed note with the same
\* words, in the new plan unless it is orphaned, and then in its old one.
LEMMA ReanchorPlaced ==
  ASSUME NEW f \in Finding, NEW p \in Plan, Placed(f),
         NEW g, g = Reanchor(f, p)
  PROVE  /\ g \in Finding /\ Placed(g)
         /\ g.body = f.body /\ g.upstream = f.upstream
         /\ g.plan_hash \in {f.plan_hash, p}
         /\ g.status # "orphaned" => g.plan_hash = p
<1>1. CASE f.plan_hash = p
  BY <1>1 DEF Reanchor
<1>2. CASE f.plan_hash # p /\ \E k \in DOMAIN HunksOf[p] : ExactAt(f, p, k)
  <2>1. PICK k \in DOMAIN HunksOf[p] : ExactAt(f, p, k) /\ g = ReattachExact(f, p, k)
    BY <1>2 DEF Reanchor
  <2> QED BY <2>1, ExactPlaced
<1>3. CASE /\ f.plan_hash # p /\ ~\E k \in DOMAIN HunksOf[p] : ExactAt(f, p, k)
           /\ \E k \in DOMAIN HunksOf[p] : ContentAt(f, p, k)
  <2>1. PICK k \in DOMAIN HunksOf[p] :
               ContentAt(f, p, k) /\ g = ReattachContent(f, p, k)
    BY <1>3 DEF Reanchor
  <2> QED BY <2>1, ContentPlaced
<1>4. CASE /\ f.plan_hash # p /\ ~\E k \in DOMAIN HunksOf[p] : ExactAt(f, p, k)
           /\ ~\E k \in DOMAIN HunksOf[p] : ContentAt(f, p, k)
  <2>1. g = [f EXCEPT !.status = "orphaned"]
    BY <1>4 DEF Reanchor
  <2>2. g \in Finding /\ g.anchor = f.anchor /\ g.plan_hash = f.plan_hash
        /\ g.body = f.body /\ g.upstream = f.upstream /\ g.status = "orphaned"
    BY <2>1 DEF Finding, Status
  <2>3. Placed(g)
    BY <2>2 DEF Placed
  <2> QED BY <2>2, <2>3
<1> QED BY <1>1, <1>2, <1>3, <1>4

LEMMA LinesType ==
  ASSUME NEW h \in Hunk, NEW pointed \in Lines \cup {NoLines}
  PROVE  (IF pointed = NoLines THEN HeaderLines(h) ELSE pointed) \in Lines
<1>1. HeaderLines(h) \in Lines
  <2> DEFINE side == IF h.added # <<>> THEN "new" ELSE "old"
             text == IF LinesOn(h, side) = <<>> THEN NoText ELSE Lossy[LinesOn(h, side)[1]]
  <2>1. LinesOn(h, side) \in Seq(Text) /\ StartOn(h, side) \in Nat \ {0}
    BY StartType
  <2>2. text \in Utf8
    BY <2>1, PlansAssumption
  <2>3. side \in Side
    BY DEF Side
  <2> HIDE DEF side, text
  <2>4. HeaderLines(h) = [side |-> side, start |-> StartOn(h, side),
                          end |-> StartOn(h, side),
                          start_text |-> text, end_text |-> text]
    BY DEF HeaderLines, side, text
  <2> QED BY <2>1, <2>2, <2>3, <2>4 DEF Lines
<1> QED BY <1>1

LEMMA TextAtType ==
  ASSUME NEW h \in Hunk, NEW side, NEW line \in Nat, NEW read \in Utf8
  PROVE  TextAt(h, side, line, read) \in Utf8
BY StartType, PlansAssumption DEF TextAt

\* A note written on a hunk is well placed, whatever the renderer says its
\* lines read.
LEMMA AnchorPlaced ==
  ASSUME NEW p \in Plan, NEW k \in DOMAIN HunksOf[p],
         NEW pointed \in Lines \cup {NoLines},
         NEW a, a = AnchorAt(HunksOf[p][k], pointed)
  PROVE  /\ a \in Anchor
         /\ \A f : f.plan_hash = p /\ f.anchor = a => Placed(f)
<1> DEFINE h == HunksOf[p][k]
           lines == IF pointed = NoLines THEN HeaderLines(h) ELSE pointed
           end == IF lines.end < lines.start THEN lines.start ELSE lines.end
           start == StartOn(h, lines.side)
           t1 == TextAt(h, lines.side, lines.start, lines.start_text)
           t2 == TextAt(h, lines.side, end, lines.end_text)
<1>1. h \in Hunk
  BY HunkType
<1>2. lines \in Lines
  BY <1>1, LinesType
<1>3. a = [file |-> h.file, side |-> lines.side,
           line |-> lines.start, end_line |-> end,
           offset |-> lines.start - start, span |-> end - lines.start,
           digest |-> DigestOf(h), line_text |-> t1, end_line_text |-> t2]
  BY DEF AnchorAt
<1> HIDE DEF h, lines
<1>4. /\ lines.start \in Nat \ {0} /\ lines.end \in Nat /\ lines.side \in Side
      /\ lines.start_text \in Utf8 /\ lines.end_text \in Utf8
  BY <1>2 DEF Lines
<1>5. end \in Nat /\ end - lines.start \in Nat
  BY <1>4
<1> HIDE DEF end
<1>6. start \in Nat \ {0} /\ DigestOf(h) \in Digest /\ h.file \in File
  BY <1>1, StartType DEF Hunk
<1>7. t1 \in Utf8 /\ t2 \in Utf8
  BY <1>1, <1>4, <1>5, TextAtType
<1> HIDE DEF start
<1>8. lines.start - start \in Int
  BY <1>4, <1>6
<1>9. a \in Anchor
  <2> HIDE DEF t1, t2
  <2> QED BY <1>3, <1>4, <1>5, <1>6, <1>7, <1>8 DEF Anchor
<1>10. /\ a.digest = DigestOf(h) /\ a.file = h.file /\ a.side = lines.side
       /\ a.line = lines.start /\ a.offset = lines.start - start
       /\ a.end_line = end /\ a.span = end - lines.start /\ a.line_text = t1
  BY <1>3
<1>11. a.line = AtLeastOne(StartOn(h, a.side) + a.offset)
  BY <1>4, <1>6, <1>10 DEF AtLeastOne, start
<1>12. a.end_line = a.line + a.span
  BY <1>4, <1>5, <1>10
<1>13. a.offset + 1 \in DOMAIN LinesOn(h, a.side) =>
         Lossy[LinesOn(h, a.side)[a.offset + 1]] = a.line_text
  BY <1>10 DEF TextAt, start
<1>14. ASSUME NEW f, f.plan_hash = p, f.anchor = a
       PROVE  Placed(f)
  BY <1>10, <1>11, <1>12, <1>13, <1>14 DEF Placed, h
<1> QED BY <1>9, <1>14

----------------------------------------------------------------------------
(* Types *)

LEMMA DefaultsType == NoNotes \in Notes /\ DefaultState \in State
BY DEF NoNotes, Notes, DefaultState, State

LEMMA InitType == Init => TypeOK
<1> SUFFICES ASSUME Init PROVE TypeOK
  OBVIOUS
<1>1. findings \in Notes /\ state \in State
  BY DefaultsType DEF Init
<1>2. note \in [Session -> Notes] /\ view \in [Session -> State]
  BY DefaultsType DEF Init
<1>3. /\ at \in [Session -> Stage] /\ plan \in [Session -> Plan \cup {NoPlan}]
      /\ \A s \in Session : at[s] # "closed" => plan[s] \in Plan
  BY DEF Init, Stage
<1> QED BY <1>1, <1>2, <1>3 DEF Init, TypeOK

----------------------------------------------------------------------------
(* The two ways a mutation writes *)

LEMMA ReanchorAllType ==
  ASSUME NEW notes \in Notes, NEW p \in Plan,
         \A i \in NoteId : notes[i] # Absent => Placed(notes[i])
  PROVE  LET new == ReanchorAll(notes, p)
         IN  /\ new \in Notes
             /\ \A i \in NoteId :
                  /\ new[i] = Absent <=> notes[i] = Absent
                  /\ notes[i] # Absent =>
                       /\ Placed(new[i])
                       /\ new[i].body = notes[i].body
                       /\ new[i].plan_hash \in {notes[i].plan_hash, p}
                       /\ new[i].status # "orphaned" => new[i].plan_hash = p
<1> DEFINE new == ReanchorAll(notes, p)
<1>1. ASSUME NEW i \in NoteId, notes[i] # Absent
      PROVE  /\ new[i] \in Finding /\ Placed(new[i])
             /\ new[i].body = notes[i].body
             /\ new[i].plan_hash \in {notes[i].plan_hash, p}
             /\ new[i].status # "orphaned" => new[i].plan_hash = p
  <2>1. new[i] = Reanchor(notes[i], p)
    BY <1>1 DEF ReanchorAll
  <2>2. notes[i] \in Finding
    BY <1>1 DEF Notes
  <2> HIDE DEF new
  <2> QED BY <1>1, <2>1, <2>2, ReanchorPlaced
<1>2. ASSUME NEW i \in NoteId, notes[i] = Absent
      PROVE  new[i] = Absent
  BY <1>2 DEF ReanchorAll
<1>3. new = [i \in NoteId |-> new[i]]
  BY DEF ReanchorAll
<1> HIDE DEF new
<1>4. new \in Notes
  BY <1>1, <1>2, <1>3 DEF Notes
<1> QED BY <1>1, <1>2, <1>4, AbsentAssumption DEF new

Sound(notes, s) ==
  \A i \in NoteId :
    notes[i] # Absent =>
      /\ Placed(notes[i]) /\ notes[i].plan_hash \in plans
      /\ notes[i].status # "orphaned" => notes[i].plan_hash = plan[s]

KeptType == kept \in [NoteId -> SUBSET Body]

\* One note of a session is written.
LEMMA WriteOne ==
  ASSUME NEW notes \in Notes, NEW s, Sound(notes, s),
         NEW i \in NoteId, NEW f \in Finding,
         Placed(f), f.plan_hash \in plans,
         f.status # "orphaned" => f.plan_hash = plan[s]
  PROVE  LET new == [notes EXCEPT ![i] = f]
         IN  new \in Notes /\ Sound(new, s)
BY DEF Notes, Sound

\* Every mutation of the notes by an open session writes sound notes, and
\* loses none that is kept.
LEMMA NoteStepForm ==
  ASSUME TypeOK, AnchorInv, NEW s \in Session, NoteStep(s)
  PROVE  \E notes \in Notes, ok \in BOOLEAN :
           /\ at[s] = "ready" /\ SaveNotes(s, notes, ok) /\ Sound(notes, s)
           /\ KeptType'
           /\ Keeps(kept, note[s]) => Keeps(kept', notes)
           /\ ~ok /\ Keeps(kept, findings) => Keeps(kept', findings)
<1> USE DEF KeptType
<1> DEFINE Good(notes, ok) ==
             /\ at[s] = "ready" /\ SaveNotes(s, notes, ok) /\ Sound(notes, s)
             /\ KeptType'
             /\ Keeps(kept, note[s]) => Keeps(kept', notes)
             /\ ~ok /\ Keeps(kept, findings) => Keeps(kept', findings)
<1>1. PICK i \in NoteId, ok \in BOOLEAN :
        \/ /\ at[s] = "ready"
           /\ \E k \in DOMAIN HunksOf[plan[s]], b \in Body :
                \E lines \in Pointed[plan[s]][k] \cup {NoLines} :
                  AddFinding(s, i, k, lines, b, ok)
        \/ \E b \in Body : EditFinding(s, i, b, ok)
        \/ DeleteFinding(s, i, ok)
        \/ ClearFindings(s, ok)
        \/ MarkPublished(s, i, ok)
  BY DEF NoteStep
<1>2. at[s] = "ready"
  BY <1>1 DEF EditFinding, DeleteFinding, ClearFindings, MarkPublished
<1>3. /\ note[s] \in Notes /\ Sound(note[s], s) /\ KeptType
      /\ plan[s] \in Plan /\ plan[s] \in plans
  BY <1>2 DEF TypeOK, AnchorInv, PlacedAndSaved, Sound, Loaded
<1>4. ASSUME NEW k \in DOMAIN HunksOf[plan[s]], NEW b \in Body,
             NEW lines \in Pointed[plan[s]][k] \cup {NoLines},
             AddFinding(s, i, k, lines, b, ok)
      PROVE  \E notes \in Notes : Good(notes, ok)
  <2> DEFINE h == HunksOf[plan[s]][k]
             a == AnchorAt(h, lines)
             f == [body |-> b, status |-> "open", moved |-> FALSE,
                   plan_hash |-> plan[s], upstream |-> FALSE, anchor |-> a]
             new == [note[s] EXCEPT ![i] = f]
  <2>1. lines \in Lines \cup {NoLines}
    BY <1>3, SessionAssumption
  <2>2. a \in Anchor /\ \A g : g.plan_hash = plan[s] /\ g.anchor = a => Placed(g)
    BY <1>3, <2>1, AnchorPlaced
  <2>3. h.file \in File /\ DigestOf(h) \in Digest
    BY <1>3, HunkType, StartType DEF Hunk
  <2>4. SaveNotes(s, new, ok)
        /\ kept' = [kept EXCEPT ![i] = IF ok THEN {b} ELSE {}]
    BY <1>4 DEF AddFinding
  <2> HIDE DEF h, a
  <2>5. f \in Finding /\ Placed(f) /\ f.plan_hash = plan[s] /\ f.body = b
    BY <1>3, <2>2 DEF Finding, Status
  <2> HIDE DEF f
  <2>6. new \in Notes /\ Sound(new, s)
    BY <1>3, <2>5, WriteOne
  <2>7. KeptType'
    BY <1>3, <2>3, <2>4
  <2>8. f # Absent
    BY <2>5, AbsentAssumption
  <2>9. Keeps(kept, note[s]) => Keeps(kept', new)
    BY <1>3, <2>4, <2>5, <2>8 DEF Keeps, Notes
  <2>10. ~ok /\ Keeps(kept, findings) => Keeps(kept', findings)
    BY <1>3, <2>4 DEF Keeps, SaveNotes
  <2> QED BY <1>2, <2>4, <2>6, <2>7, <2>9, <2>10
<1>5. ASSUME NEW b \in Body, EditFinding(s, i, b, ok)
      PROVE  \E notes \in Notes : Good(notes, ok)
  <2> DEFINE f == [note[s][i] EXCEPT !.body = b]
             new == [note[s] EXCEPT ![i] = f]
  <2>1. /\ note[s][i] # Absent /\ SaveNotes(s, new, ok)
        /\ kept' = [kept EXCEPT ![i] =
                      IF ok THEN {b} ELSE IF @ = {} THEN {} ELSE @ \cup {b}]
    BY <1>5 DEF EditFinding
  <2>2. note[s][i] \in Finding
    BY <1>3, <2>1 DEF Notes
  <2>3. /\ f \in Finding /\ f.body = b /\ f.anchor = note[s][i].anchor
        /\ f.status = note[s][i].status /\ f.plan_hash = note[s][i].plan_hash
    BY <2>2 DEF Finding
  <2> HIDE DEF f
  <2>4. Placed(f) /\ f.plan_hash \in plans
        /\ (f.status # "orphaned" => f.plan_hash = plan[s])
    <3>1. /\ Placed(note[s][i]) /\ note[s][i].plan_hash \in plans
          /\ (note[s][i].status # "orphaned" => note[s][i].plan_hash = plan[s])
      BY <1>3, <2>1 DEF Sound
    <3>2. Placed(f) <=> Placed(note[s][i])
      BY <2>3 DEF Placed
    <3> QED BY <2>3, <3>1, <3>2
  <2>5. new \in Notes /\ Sound(new, s)
    BY <1>3, <2>3, <2>4, WriteOne
  <2>6. KeptType'
    BY <1>3, <2>1
  <2>7. f # Absent
    BY <2>3, AbsentAssumption
  <2>8. Keeps(kept, note[s]) => Keeps(kept', new)
    BY <1>3, <2>1, <2>3, <2>7 DEF Keeps, Notes
  <2>9. ~ok /\ Keeps(kept, findings) => Keeps(kept', findings)
    BY <1>3, <2>1 DEF Keeps, SaveNotes
  <2> QED BY <1>2, <2>1, <2>5, <2>6, <2>8, <2>9
<1>6. ASSUME DeleteFinding(s, i, ok)
      PROVE  \E notes \in Notes : Good(notes, ok)
  <2> DEFINE new == [note[s] EXCEPT ![i] = Absent]
  <2>1. /\ SaveNotes(s, new, ok)
        /\ kept' = [kept EXCEPT ![i] = {}]
    BY <1>6 DEF DeleteFinding
  <2>2. new \in Notes /\ Sound(new, s)
    BY <1>3 DEF Notes, Sound
  <2>3. KeptType'
    BY <1>3, <2>1
  <2>4. Keeps(kept, note[s]) => Keeps(kept', new)
    BY <1>3, <2>1 DEF Keeps, Notes
  <2>5. ~ok /\ Keeps(kept, findings) => Keeps(kept', findings)
    BY <1>3, <2>1 DEF Keeps, SaveNotes
  <2> QED BY <1>2, <2>1, <2>2, <2>3, <2>4, <2>5
<1>7. ASSUME ClearFindings(s, ok)
      PROVE  \E notes \in Notes : Good(notes, ok)
  <2> DEFINE gone == {j \in Ids(note[s]) : ~note[s][j].upstream}
             new == [j \in NoteId |-> IF j \in gone THEN Absent ELSE note[s][j]]
  <2>1. /\ SaveNotes(s, new, ok)
        /\ kept' = [j \in NoteId |-> IF j \in gone THEN {} ELSE kept[j]]
    BY <1>7 DEF ClearFindings
  <2> HIDE DEF gone
  <2>2. new \in Notes /\ Sound(new, s)
    BY <1>3 DEF Notes, Sound
  <2>3. KeptType'
    BY <1>3, <2>1
  <2>4. Keeps(kept, note[s]) => Keeps(kept', new)
    BY <1>3, <2>1 DEF Keeps, Notes
  <2>5. ~ok /\ Keeps(kept, findings) => Keeps(kept', findings)
    BY <1>3, <2>1 DEF Keeps, SaveNotes
  <2> QED BY <1>2, <2>1, <2>2, <2>3, <2>4, <2>5
<1>8. ASSUME MarkPublished(s, i, ok)
      PROVE  \E notes \in Notes : Good(notes, ok)
  <2> DEFINE f == [note[s][i] EXCEPT !.upstream = TRUE]
             new == [note[s] EXCEPT ![i] = f]
  <2>1. /\ note[s][i] # Absent /\ SaveNotes(s, new, ok)
        /\ UNCHANGED kept
    BY <1>8 DEF MarkPublished
  <2>2. note[s][i] \in Finding
    BY <1>3, <2>1 DEF Notes
  <2>3. /\ f \in Finding /\ f.body = note[s][i].body /\ f.anchor = note[s][i].anchor
        /\ f.status = note[s][i].status /\ f.plan_hash = note[s][i].plan_hash
    BY <2>2 DEF Finding
  <2> HIDE DEF f
  <2>4. Placed(f) /\ f.plan_hash \in plans
        /\ (f.status # "orphaned" => f.plan_hash = plan[s])
    <3>1. /\ Placed(note[s][i]) /\ note[s][i].plan_hash \in plans
          /\ (note[s][i].status # "orphaned" => note[s][i].plan_hash = plan[s])
      BY <1>3, <2>1 DEF Sound
    <3>2. Placed(f) <=> Placed(note[s][i])
      BY <2>3 DEF Placed
    <3> QED BY <2>3, <3>1, <3>2
  <2>5. new \in Notes /\ Sound(new, s)
    BY <1>3, <2>3, <2>4, WriteOne
  <2>6. KeptType'
    BY <1>3, <2>1
  <2>7. f # Absent
    BY <2>3, AbsentAssumption
  <2>8. Keeps(kept, note[s]) => Keeps(kept', new)
    BY <1>3, <2>1, <2>3, <2>7 DEF Keeps, Notes
  <2>9. ~ok /\ Keeps(kept, findings) => Keeps(kept', findings)
    BY <1>3, <2>1 DEF Keeps, SaveNotes
  <2> QED BY <1>2, <2>1, <2>5, <2>6, <2>8, <2>9
<1> HIDE DEF Good
<1>9. \E notes \in Notes : Good(notes, ok)
  BY <1>1, <1>4, <1>5, <1>6, <1>7, <1>8
<1> QED BY <1>9 DEF Good

LEMMA DigestsType ==
  ASSUME NEW p \in Plan
  PROVE  DigestsIn(p) \in SUBSET Digest
BY HunkType, StartType DEF DigestsIn

\* The same of the marks: what a save adds to `seen` it has also written, and
\* nothing but an unmarking takes a mark away.
LEMMA StateStepForm ==
  ASSUME TypeOK, NEW s \in Session, StateStep(s)
  PROVE  \E st \in State, ok \in BOOLEAN :
           /\ SaveState(s, st, ok) /\ seen' \in SUBSET Digest
           /\ seen \subseteq view[s].reviewed_hunks => seen' \subseteq st.reviewed_hunks
           /\ ~ok => seen' \subseteq seen
<1> DEFINE Good(st, ok) ==
             /\ SaveState(s, st, ok) /\ seen' \in SUBSET Digest
             /\ seen \subseteq view[s].reviewed_hunks => seen' \subseteq st.reviewed_hunks
             /\ ~ok => seen' \subseteq seen
<1>1. view[s] \in State /\ seen \in SUBSET Digest
  BY DEF TypeOK
<1>2. ASSUME NEW keys \in SUBSET Digest, NEW on \in BOOLEAN, NEW ok \in BOOLEAN,
             SetReviewed(s, keys, on, ok)
      PROVE  \E st \in State : Good(st, ok)
  <2> DEFINE marks == IF on THEN view[s].reviewed_hunks \cup keys
                            ELSE view[s].reviewed_hunks \ keys
             st == [view[s] EXCEPT !.reviewed_hunks = marks]
  <2>1. SaveState(s, st, ok)
        /\ seen' = IF ~on THEN seen \ keys ELSE IF ok THEN seen \cup keys ELSE seen
    BY <1>2 DEF SetReviewed
  <2>2. marks \in SUBSET Digest
    BY <1>1 DEF State
  <2>3. /\ seen' \in SUBSET Digest
        /\ seen \subseteq view[s].reviewed_hunks => seen' \subseteq marks
        /\ ~ok => seen' \subseteq seen
    BY <1>1, <2>1
  <2> HIDE DEF marks
  <2>4. st \in State /\ st.reviewed_hunks = marks
    BY <1>1, <2>2 DEF State
  <2> QED BY <2>1, <2>3, <2>4
<1>3. ASSUME NEW c \in Cursor, NEW ok \in BOOLEAN, SaveCursor(s, c, ok)
      PROVE  \E st \in State : Good(st, ok)
  <2> DEFINE st == [view[s] EXCEPT !.cursor = c]
  <2>1. st \in State /\ st.reviewed_hunks = view[s].reviewed_hunks
    BY <1>1 DEF State
  <2> QED BY <1>1, <1>3, <2>1 DEF SaveCursor
<1>4. ASSUME NEW l \in Layout, NEW ok \in BOOLEAN, SetLayout(s, l, ok)
      PROVE  \E st \in State : Good(st, ok)
  <2> DEFINE st == [view[s] EXCEPT !.layout = l]
  <2>1. st \in State /\ st.reviewed_hunks = view[s].reviewed_hunks
    BY <1>1 DEF State
  <2> QED BY <1>1, <1>4, <2>1 DEF SetLayout
<1>5. PICK ok \in BOOLEAN :
        \/ /\ at[s] = "ready"
           /\ \/ \E key \in DigestsIn(plan[s]) : ToggleReviewed(s, key, ok)
              \/ \E keys \in SUBSET DigestsIn(plan[s]), on \in BOOLEAN :
                   SetReviewed(s, keys, on, ok)
        \/ \E c \in Cursor : SaveCursor(s, c, ok)
        \/ \E l \in Layout : SetLayout(s, l, ok)
  BY DEF StateStep
<1> HIDE DEF Good
<1>6. CASE /\ at[s] = "ready"
           /\ \E key \in DigestsIn(plan[s]) : ToggleReviewed(s, key, ok)
  <2>1. PICK key \in DigestsIn(plan[s]) : ToggleReviewed(s, key, ok)
    BY <1>6
  <2>2. plan[s] \in Plan
    BY <1>6 DEF TypeOK
  <2>3. {key} \in SUBSET Digest
    BY <2>2, DigestsType
  <2>4. PICK on \in BOOLEAN : SetReviewed(s, {key}, on, ok)
    BY <2>1 DEF ToggleReviewed
  <2>5. \E st \in State : Good(st, ok)
    BY <1>2, <2>3, <2>4
  <2> QED BY <2>5 DEF Good
<1>7. CASE /\ at[s] = "ready"
           /\ \E keys \in SUBSET DigestsIn(plan[s]), on \in BOOLEAN :
                SetReviewed(s, keys, on, ok)
  <2>1. PICK keys \in SUBSET DigestsIn(plan[s]), on \in BOOLEAN :
               SetReviewed(s, keys, on, ok)
    BY <1>7
  <2>2. plan[s] \in Plan
    BY <1>7 DEF TypeOK
  <2>3. keys \in SUBSET Digest
    BY <2>2, DigestsType
  <2>4. \E st \in State : Good(st, ok)
    BY <1>2, <2>1, <2>3
  <2> QED BY <2>4 DEF Good
<1>8. CASE (\E c \in Cursor : SaveCursor(s, c, ok)) \/ (\E l \in Layout : SetLayout(s, l, ok))
  <2>1. \E st \in State : Good(st, ok)
    BY <1>3, <1>4, <1>8
  <2> QED BY <2>1 DEF Good
<1> QED BY <1>5, <1>6, <1>7, <1>8

----------------------------------------------------------------------------
(* Types and anchors *)

TypeAndAnchors == TypeOK /\ AnchorInv

LEMMA InitAnchors == Init => AnchorInv
BY DEF Init, AnchorInv, PlacedAndSaved, NoNotes, Loaded

LEMMA OpenKeepsType ==
  ASSUME TypeAndAnchors, NEW s \in Session, OpenStep(s)
  PROVE  TypeOK'
<1> USE DEF TypeAndAnchors, TypeOK, disk, told
<1>1. CASE \E p \in Plan : Open(s, p)
  BY <1>1 DEF Open, Stage
<1>2. CASE SavePlan(s)
  BY <1>2 DEF SavePlan, Stage
<1>3. CASE SaveCurrent(s)
  BY <1>3 DEF SaveCurrent, Stage
<1>4. CASE LoadFindings(s)
  <2>1. ReanchorAll(findings, plan[s]) \in Notes
    BY <1>4, ReanchorAllType DEF LoadFindings, AnchorInv, PlacedAndSaved
  <2> QED BY <1>4, <2>1 DEF LoadFindings, Stage
<1>5. CASE SaveFindings(s)
  BY <1>5 DEF SaveFindings, Stage
<1>6. CASE LoadState(s)
  BY <1>6 DEF LoadState, Stage
<1>7. CASE Exit(s)
  BY <1>7, DefaultsType DEF Exit, Stage
<1> QED BY <1>1, <1>2, <1>3, <1>4, <1>5, <1>6, <1>7 DEF OpenStep

LEMMA OpenKeepsAnchors ==
  ASSUME TypeAndAnchors, NEW s \in Session, OpenStep(s)
  PROVE  AnchorInv'
<1> USE DEF TypeAndAnchors, TypeOK, disk, told, AnchorInv, PlacedAndSaved, Loaded
<1>1. CASE \E p \in Plan : Open(s, p)
  BY <1>1 DEF Open
<1>2. CASE SavePlan(s)
  BY <1>2 DEF SavePlan
<1>3. CASE SaveCurrent(s)
  BY <1>3 DEF SaveCurrent
<1>4. CASE LoadFindings(s)
  <2> DEFINE new == ReanchorAll(findings, plan[s])
  <2>1. /\ new \in Notes
        /\ \A i \in NoteId :
             /\ new[i] = Absent <=> findings[i] = Absent
             /\ findings[i] # Absent =>
                  /\ Placed(new[i])
                  /\ new[i].plan_hash \in {findings[i].plan_hash, plan[s]}
                  /\ new[i].status # "orphaned" => new[i].plan_hash = plan[s]
    BY <1>4, ReanchorAllType DEF LoadFindings
  <2>2. note' = [note EXCEPT ![s] = new] /\ UNCHANGED <<plans, findings, plan>>
        /\ at[s] = "load_findings" /\ at' = [at EXCEPT ![s] = "save_findings"]
    BY <1>4 DEF LoadFindings
  <2> HIDE DEF new
  <2> QED BY <2>1, <2>2
<1>5. CASE SaveFindings(s)
  BY <1>5 DEF SaveFindings
<1>6. CASE LoadState(s)
  BY <1>6 DEF LoadState
<1>7. CASE Exit(s)
  BY <1>7 DEF Exit, NoNotes
<1> QED BY <1>1, <1>2, <1>3, <1>4, <1>5, <1>6, <1>7 DEF OpenStep

LEMMA NoteKeepsBoth ==
  ASSUME TypeAndAnchors, NEW s \in Session, NoteStep(s)
  PROVE  TypeOK' /\ AnchorInv'
<1>1. PICK notes \in Notes, ok \in BOOLEAN :
        /\ at[s] = "ready" /\ SaveNotes(s, notes, ok) /\ Sound(notes, s)
        /\ KeptType'
  BY NoteStepForm DEF TypeAndAnchors
<1>2. TypeOK'
  BY <1>1 DEF SaveNotes, TypeAndAnchors, TypeOK, KeptType
<1>3. AnchorInv'
  BY <1>1 DEF SaveNotes, TypeAndAnchors, TypeOK, AnchorInv, PlacedAndSaved, Sound, Loaded
<1> QED BY <1>2, <1>3

LEMMA StateKeepsBoth ==
  ASSUME TypeAndAnchors, NEW s \in Session, StateStep(s)
  PROVE  TypeOK' /\ AnchorInv'
<1>1. PICK st \in State, ok \in BOOLEAN :
        SaveState(s, st, ok) /\ seen' \in SUBSET Digest
  BY StateStepForm DEF TypeAndAnchors
<1>2. /\ UNCHANGED <<plans, current, findings, at, plan, note, kept, overlapped>>
      /\ state' \in State /\ view' \in [Session -> State]
  BY <1>1 DEF SaveState, TypeAndAnchors, TypeOK
<1>3. TypeOK'
  BY <1>1, <1>2 DEF TypeAndAnchors, TypeOK
<1>4. AnchorInv'
  BY <1>2 DEF TypeAndAnchors, AnchorInv, PlacedAndSaved, Loaded
<1> QED BY <1>3, <1>4

LEMMA StutterKeepsBoth ==
  ASSUME TypeAndAnchors, UNCHANGED vars
  PROVE  TypeOK' /\ AnchorInv'
<1>1. TypeOK'
  BY DEF vars, disk, memory, told, TypeAndAnchors, TypeOK
<1>2. AnchorInv'
  BY DEF vars, disk, memory, told, TypeAndAnchors, AnchorInv, PlacedAndSaved, Loaded
<1> QED BY <1>1, <1>2

\* Every state has its types, and every anchor in memory or on disk describes a
\* line of the plan it names, whose body has been saved.
THEOREM TypesAndAnchorsHold == Spec => []TypeAndAnchors
<1>1. Init => TypeAndAnchors
  BY InitType, InitAnchors DEF TypeAndAnchors
<1>2. TypeAndAnchors /\ [Next]_vars => TypeAndAnchors'
  BY OpenKeepsType, OpenKeepsAnchors, NoteKeepsBoth, StateKeepsBoth, StutterKeepsBoth
     DEF Next, TypeAndAnchors
<1> QED BY <1>1, <1>2, PTL DEF Spec

THEOREM TypesHold == Spec => []TypeOK
<1>1. TypeAndAnchors => TypeOK
  BY DEF TypeAndAnchors
<1> QED BY <1>1, TypesAndAnchorsHold, PTL

THEOREM NotesAreExplained == Spec => []NotesExplained
<1>1. TypeAndAnchors => NotesExplained
  BY DEF TypeAndAnchors, AnchorInv, PlacedAndSaved, NotesExplained, Ids
<1> QED BY <1>1, TypesAndAnchorsHold, PTL

THEOREM LiveNotesAreOnScreen == Spec => []LiveNotesOnScreen
<1>1. TypeAndAnchors => LiveNotesOnScreen
  BY DEF TypeAndAnchors, AnchorInv, PlacedAndSaved, LiveNotesOnScreen, Ids
<1> QED BY <1>1, TypesAndAnchorsHold, PTL

----------------------------------------------------------------------------
(* Nothing lost *)

LEMMA InitKeeps == Init => KeepInv
BY DEF Init, KeepInv, Keeps, Loaded

LEMMA OpenKeepsAll ==
  ASSUME TypeAndAnchors, KeepInv, NEW s \in Session, OpenStep(s)
  PROVE  KeepInv'
<1> SUFFICES ASSUME ~overlapped' PROVE KeepInv'
  BY DEF KeepInv
<1> USE DEF TypeAndAnchors, TypeOK, disk, told, KeepInv, Loaded
<1>1. CASE \E p \in Plan : Open(s, p)
  <2>1. /\ at[s] = "closed" /\ at' = [at EXCEPT ![s] = "save_plan"]
        /\ overlapped' = (overlapped \/ \E t \in Session \ {s} : at[t] # "closed")
        /\ UNCHANGED <<findings, state, note, view, kept, seen>>
    BY <1>1 DEF Open
  <2>2. ~overlapped /\ \A t \in Session \ {s} : at[t] = "closed"
    BY <2>1
  <2>3. \A t \in Session : ~Loaded(t)' /\ at'[t] # "ready"
    BY <2>1, <2>2
  <2>4. \A t \in Session, u \in Session : t = u \/ at'[t] = "closed" \/ at'[u] = "closed"
    BY <2>1, <2>2
  <2> QED BY <2>1, <2>2, <2>3, <2>4
<1>2. CASE SavePlan(s)
  BY <1>2 DEF SavePlan
<1>3. CASE SaveCurrent(s)
  BY <1>3 DEF SaveCurrent
<1>4. CASE LoadFindings(s)
  <2> DEFINE new == ReanchorAll(findings, plan[s])
  <2>1. \A i \in NoteId :
          /\ new[i] = Absent <=> findings[i] = Absent
          /\ findings[i] # Absent => new[i].body = findings[i].body
    BY <1>4, ReanchorAllType DEF LoadFindings, AnchorInv, PlacedAndSaved
  <2>2. /\ note' = [note EXCEPT ![s] = new]
        /\ UNCHANGED <<findings, state, view, kept, seen, overlapped>>
        /\ at[s] = "load_findings" /\ at' = [at EXCEPT ![s] = "save_findings"]
    BY <1>4 DEF LoadFindings
  <2> HIDE DEF new
  <2>3. Keeps(kept, findings) => Keeps(kept, new)
    BY <2>1 DEF Keeps
  <2> QED BY <2>2, <2>3
<1>5. CASE SaveFindings(s)
  BY <1>5 DEF SaveFindings
<1>6. CASE LoadState(s)
  BY <1>6 DEF LoadState
<1>7. CASE Exit(s)
  BY <1>7 DEF Exit
<1> QED BY <1>1, <1>2, <1>3, <1>4, <1>5, <1>6, <1>7 DEF OpenStep

LEMMA NoteKeepsAll ==
  ASSUME TypeAndAnchors, KeepInv, NEW s \in Session, NoteStep(s)
  PROVE  KeepInv'
<1>1. PICK notes \in Notes, ok \in BOOLEAN :
        /\ at[s] = "ready" /\ SaveNotes(s, notes, ok)
        /\ Keeps(kept, note[s]) => Keeps(kept', notes)
        /\ ~ok /\ Keeps(kept, findings) => Keeps(kept', findings)
  BY NoteStepForm DEF TypeAndAnchors
<1>2. /\ note' = [note EXCEPT ![s] = notes]
      /\ findings' = (IF ok THEN notes ELSE findings)
      /\ UNCHANGED <<state, at, view, seen, overlapped>>
  BY <1>1 DEF SaveNotes
<1> SUFFICES ASSUME ~overlapped PROVE KeepInv'
  BY <1>2 DEF KeepInv
<1>3. Keeps(kept, note[s]) /\ Keeps(kept, findings)
  BY <1>1 DEF KeepInv, Loaded
<1>4. Keeps(kept', notes) /\ Keeps(kept', findings')
  BY <1>1, <1>2, <1>3
<1>5. \A t \in Session : t # s => at[t] = "closed"
  BY <1>1 DEF KeepInv
<1> QED BY <1>1, <1>2, <1>4, <1>5 DEF KeepInv, Loaded, TypeAndAnchors, TypeOK

LEMMA StateKeepsAll ==
  ASSUME TypeAndAnchors, KeepInv, NEW s \in Session, StateStep(s)
  PROVE  KeepInv'
<1>1. PICK st \in State, ok \in BOOLEAN :
        /\ SaveState(s, st, ok)
        /\ seen \subseteq view[s].reviewed_hunks => seen' \subseteq st.reviewed_hunks
        /\ ~ok => seen' \subseteq seen
  BY StateStepForm DEF TypeAndAnchors
<1>2. /\ at[s] = "ready" /\ view' = [view EXCEPT ![s] = st]
      /\ state' = (IF ok THEN st ELSE state)
      /\ UNCHANGED <<findings, at, note, kept, overlapped>>
  BY <1>1 DEF SaveState
<1> SUFFICES ASSUME ~overlapped PROVE KeepInv'
  BY <1>2 DEF KeepInv
<1>3. seen' \subseteq st.reviewed_hunks /\ seen' \subseteq state'.reviewed_hunks
  BY <1>1, <1>2 DEF KeepInv
<1>4. \A t \in Session : t # s => at[t] = "closed"
  BY <1>2 DEF KeepInv
<1> QED BY <1>2, <1>3, <1>4 DEF KeepInv, Loaded, TypeAndAnchors, TypeOK

LEMMA StutterKeepsAll ==
  ASSUME KeepInv, UNCHANGED vars
  PROVE  KeepInv'
BY DEF vars, disk, memory, told, KeepInv, Loaded

\* No note and no mark that the reader saw saved is lost by a session that is
\* alone: not by a regeneration, a failed save, a crash or a reopening.
THEOREM NothingIsLost == Spec => []NothingLost
<1>1. Init => KeepInv
  BY InitKeeps
<1>2. TypeAndAnchors /\ KeepInv /\ [Next]_vars => KeepInv'
  BY OpenKeepsAll, NoteKeepsAll, StateKeepsAll, StutterKeepsAll DEF Next
<1>3. KeepInv => NothingLost
  BY DEF KeepInv, NothingLost
<1> QED BY <1>1, <1>2, <1>3, TypesAndAnchorsHold, PTL DEF Spec

----------------------------------------------------------------------------
(* Refinement *)

\* Reading and re-anchoring leaves every text as it was.
LEMMA ReanchorKeepsBodies ==
  ASSUME NEW notes \in Notes, NEW p \in Plan,
         \A i \in NoteId : notes[i] # Absent => Placed(notes[i])
  PROVE  Bodies(ReanchorAll(notes, p)) = Bodies(notes)
BY ReanchorAllType DEF Bodies

\* What each mutation of the notes does to their texts.
LEMMA NoteStepBodies ==
  ASSUME TypeAndAnchors, NEW s \in Session, NoteStep(s)
  PROVE  /\ at[s] = "ready" /\ UNCHANGED at
         /\ Bodies(findings') \in {Bodies(findings), Bodies(note'[s])}
         /\ \/ \E i \in NoteId, b \in Body :
                /\ Bodies(note'[s]) = [Bodies(note[s]) EXCEPT ![i] = b]
                /\ \E texts \in SUBSET (kept[i] \cup {b}) :
                     kept' = [kept EXCEPT ![i] = texts]
            \/ \E gone \in SUBSET NoteId :
                /\ Bodies(note'[s]) = [i \in NoteId |->
                                     IF i \in gone THEN Absent ELSE Bodies(note[s])[i]]
                /\ kept' = [i \in NoteId |-> IF i \in gone THEN {} ELSE kept[i]]
<1>1. PICK i \in NoteId, ok \in BOOLEAN :
        \/ /\ at[s] = "ready"
           /\ \E k \in DOMAIN HunksOf[plan[s]], b \in Body :
                \E lines \in Pointed[plan[s]][k] \cup {NoLines} :
                  AddFinding(s, i, k, lines, b, ok)
        \/ \E b \in Body : EditFinding(s, i, b, ok)
        \/ DeleteFinding(s, i, ok)
        \/ ClearFindings(s, ok)
        \/ MarkPublished(s, i, ok)
  BY DEF NoteStep
<1>2. at[s] = "ready"
  BY <1>1 DEF EditFinding, DeleteFinding, ClearFindings, MarkPublished
<1>3. /\ note \in [Session -> Notes] /\ note[s] \in Notes
      /\ kept \in [NoteId -> SUBSET Body]
  BY DEF TypeAndAnchors, TypeOK
<1>4. ASSUME NEW notes, SaveNotes(s, notes, ok)
      PROVE  /\ note'[s] = notes /\ UNCHANGED at
             /\ Bodies(findings') \in {Bodies(findings), Bodies(note'[s])}
  BY <1>3, <1>4 DEF SaveNotes
<1>5. ASSUME NEW f \in Finding,
             SaveNotes(s, [note[s] EXCEPT ![i] = f], ok)
      PROVE  Bodies(note'[s]) = [Bodies(note[s]) EXCEPT ![i] = f.body]
  <2>1. f # Absent
    BY AbsentAssumption
  <2>2. note'[s] = [note[s] EXCEPT ![i] = f]
    BY <1>4, <1>5
  <2>3. \A j \in NoteId : note'[s][j] = IF j = i THEN f ELSE note[s][j]
    BY <1>3, <2>2 DEF Notes
  <2>4. Bodies(note'[s]) =
          [j \in NoteId |-> IF j = i THEN f.body ELSE Bodies(note[s])[j]]
    BY <2>1, <2>3 DEF Bodies
  <2> QED BY <2>4 DEF Bodies
<1>6. ASSUME NEW gone \in SUBSET NoteId,
             SaveNotes(s, [j \in NoteId |-> IF j \in gone THEN Absent ELSE note[s][j]], ok)
      PROVE  Bodies(note'[s]) = [j \in NoteId |->
                                 IF j \in gone THEN Absent ELSE Bodies(note[s])[j]]
  BY <1>3, <1>4, <1>6 DEF Bodies, Notes
<1>7. CASE \E k \in DOMAIN HunksOf[plan[s]], b \in Body :
             \E lines \in Pointed[plan[s]][k] \cup {NoLines} :
               AddFinding(s, i, k, lines, b, ok)
  <2>1. PICK k \in DOMAIN HunksOf[plan[s]], b \in Body :
               \E lines \in Pointed[plan[s]][k] \cup {NoLines} :
                 AddFinding(s, i, k, lines, b, ok)
    BY <1>7
  <2>2. PICK lines \in Pointed[plan[s]][k] \cup {NoLines} :
               AddFinding(s, i, k, lines, b, ok)
    BY <2>1
  <2> DEFINE a == AnchorAt(HunksOf[plan[s]][k], lines)
             f == [body |-> b, status |-> "open", moved |-> FALSE,
                   plan_hash |-> plan[s], upstream |-> FALSE, anchor |-> a]
  <2>3. plan[s] \in Plan
    BY <1>2 DEF TypeAndAnchors, TypeOK
  <2>4. lines \in Lines \cup {NoLines}
    BY <2>3, SessionAssumption
  <2>5. a \in Anchor
    BY <2>3, <2>4, AnchorPlaced
  <2>6. SaveNotes(s, [note[s] EXCEPT ![i] = f], ok)
    BY <2>2 DEF AddFinding
  <2> HIDE DEF a
  <2>7. f \in Finding /\ f.body = b
    BY <2>3, <2>5 DEF Finding, Status
  <2>8. \E texts \in SUBSET (kept[i] \cup {b}) : kept' = [kept EXCEPT ![i] = texts]
    BY <2>2 DEF AddFinding
  <2> HIDE DEF f
  <2> QED BY <1>2, <1>4, <1>5, <2>6, <2>7, <2>8
<1>8. CASE \E b \in Body : EditFinding(s, i, b, ok)
  <2>1. PICK b \in Body : EditFinding(s, i, b, ok)
    BY <1>8
  <2> DEFINE f == [note[s][i] EXCEPT !.body = b]
  <2>2. note[s][i] \in Finding /\ SaveNotes(s, [note[s] EXCEPT ![i] = f], ok)
    BY <1>3, <2>1 DEF EditFinding, Notes
  <2>3. f \in Finding /\ f.body = b
    BY <2>2 DEF Finding
  <2>4. \E texts \in SUBSET (kept[i] \cup {b}) : kept' = [kept EXCEPT ![i] = texts]
    <3>1. kept' = [kept EXCEPT ![i] = IF ok THEN {b} ELSE IF @ = {} THEN {} ELSE @ \cup {b}]
      BY <2>1 DEF EditFinding
    <3> QED BY <1>3, <3>1
  <2> HIDE DEF f
  <2> QED BY <1>2, <1>4, <1>5, <2>2, <2>3, <2>4
<1>9. CASE MarkPublished(s, i, ok)
  <2> DEFINE f == [note[s][i] EXCEPT !.upstream = TRUE]
  <2>1. note[s][i] \in Finding /\ SaveNotes(s, [note[s] EXCEPT ![i] = f], ok)
    BY <1>3, <1>9 DEF MarkPublished, Notes
  <2>2. f \in Finding /\ f.body = note[s][i].body /\ f.body \in Body
    BY <2>1 DEF Finding
  <2>3. kept' = [kept EXCEPT ![i] = kept[i]]
    BY <1>3, <1>9 DEF MarkPublished
  <2> HIDE DEF f
  <2>4. \E texts \in SUBSET (kept[i] \cup {f.body}) : kept' = [kept EXCEPT ![i] = texts]
    BY <2>3
  <2> QED BY <1>2, <1>4, <1>5, <2>1, <2>2, <2>4
<1>10. CASE DeleteFinding(s, i, ok)
  <2>1. SaveNotes(s, [note[s] EXCEPT ![i] = Absent], ok)
    BY <1>10 DEF DeleteFinding
  <2>2. [note[s] EXCEPT ![i] = Absent] =
          [j \in NoteId |-> IF j \in {i} THEN Absent ELSE note[s][j]]
    BY <1>3 DEF Notes
  <2>3. {i} \in SUBSET NoteId
    OBVIOUS
  <2>4. kept' = [j \in NoteId |-> IF j \in {i} THEN {} ELSE kept[j]]
    BY <1>3, <1>10 DEF DeleteFinding
  <2> QED BY <1>2, <1>4, <1>6, <2>1, <2>2, <2>3, <2>4
<1>11. CASE ClearFindings(s, ok)
  <2> DEFINE gone == {j \in Ids(note[s]) : ~note[s][j].upstream}
  <2>1. gone \in SUBSET NoteId
        /\ SaveNotes(s, [j \in NoteId |-> IF j \in gone THEN Absent ELSE note[s][j]], ok)
    BY <1>11 DEF ClearFindings, Ids
  <2>2. kept' = [j \in NoteId |-> IF j \in gone THEN {} ELSE kept[j]]
    BY <1>11 DEF ClearFindings
  <2> HIDE DEF gone
  <2> QED BY <1>2, <1>4, <1>6, <2>1, <2>2
<1> QED BY <1>1, <1>7, <1>8, <1>9, <1>10, <1>11

\* A review that only one process opens is a note book: regenerating the plan
\* is no step of it.
THEOREM AReviewIsANoteBook ==
  ASSUME NEW only, Session = {only}
  PROVE  Spec => IsANoteBook
<1>1. /\ Wanted = IF Loaded(only) THEN Bodies(note[only]) ELSE Bodies(findings)
      /\ Wanted' = IF Loaded(only)' THEN Bodies(note'[only]) ELSE Bodies(findings')
      /\ Bodies(findings)' = Bodies(findings')
  <2>1. (\E s \in Session : Loaded(s)) <=> Loaded(only)
    OBVIOUS
  <2>2. (\E s \in Session : Loaded(s)') <=> Loaded(only)'
    OBVIOUS
  <2>3. Loaded(only) => (CHOOSE s \in Session : Loaded(s)) = only
    OBVIOUS
  <2>4. Loaded(only)' => (CHOOSE s \in Session : Loaded(s)') = only
    OBVIOUS
  <2>5. Bodies(findings)' = Bodies(findings')
    BY DEF Bodies
  <2>6. Wanted = IF Loaded(only) THEN Bodies(note[only]) ELSE Bodies(findings)
    BY <2>1, <2>3 DEF Wanted
  <2>7. Wanted' = IF Loaded(only)' THEN Bodies(note'[only]) ELSE Bodies(findings')
    BY <2>2, <2>4 DEF Wanted, Bodies, Loaded
  <2> QED BY <2>5, <2>6, <2>7
<1>2. Init => Book!Init
  BY DEF Init, Book!Init, Wanted, Loaded, Bodies, NoNotes
<1>3. ASSUME TypeAndAnchors, [Next]_vars
      PROVE  [Book!Next]_(Book!vars)
  <2> USE DEF Book!vars
  <2>1. CASE OpenStep(only)
    <3>1. CASE LoadFindings(only)
      <4>1. Bodies(ReanchorAll(findings, plan[only])) = Bodies(findings)
        BY <1>3, <3>1, ReanchorKeepsBodies
        DEF LoadFindings, TypeAndAnchors, TypeOK, AnchorInv, PlacedAndSaved
      <4>2. note'[only] = ReanchorAll(findings, plan[only])
            /\ UNCHANGED <<findings, kept>> /\ ~Loaded(only) /\ Loaded(only)'
        BY <1>3, <3>1 DEF LoadFindings, TypeAndAnchors, TypeOK, disk, told, Loaded
      <4>3. Wanted' = Wanted
        BY <1>1, <4>1, <4>2
      <4> QED BY <1>1, <4>2, <4>3
    <3>2. CASE SaveFindings(only)
      <4>1. findings' = note[only] /\ UNCHANGED <<note, kept>> /\ Loaded(only) /\ Loaded(only)'
        BY <1>3, <3>2 DEF SaveFindings, TypeAndAnchors, TypeOK, told, Loaded
      <4>2. Bodies(findings)' = Wanted /\ Wanted' = Wanted
        BY <1>1, <4>1
      <4> QED BY <4>1, <4>2 DEF Book!Next, Book!Save
    <3>3. CASE Exit(only)
      <4>1. UNCHANGED <<findings, kept>> /\ ~Loaded(only)'
        BY <1>3, <3>3 DEF Exit, TypeAndAnchors, TypeOK, disk, told, Loaded
      <4>2. Wanted' = Bodies(findings) /\ Bodies(findings)' = Bodies(findings)
        BY <1>1, <4>1
      <4> QED BY <4>1, <4>2 DEF Book!Next, Book!End
    <3>4. CASE \/ \E p \in Plan : Open(only, p)
               \/ SavePlan(only) \/ SaveCurrent(only) \/ LoadState(only)
      <4>1. UNCHANGED <<findings, note, kept>> /\ (Loaded(only)' <=> Loaded(only))
        BY <1>3, <3>4
        DEF Open, SavePlan, SaveCurrent, LoadState, TypeAndAnchors, TypeOK, disk, told, Loaded
      <4>2. Wanted' = Wanted /\ Bodies(findings)' = Bodies(findings)
        BY <1>1, <4>1
      <4> QED BY <4>1, <4>2
    <3> QED BY <2>1, <3>1, <3>2, <3>3, <3>4 DEF OpenStep
  <2>2. CASE NoteStep(only)
    <3>1. /\ at[only] = "ready" /\ UNCHANGED at
          /\ Bodies(findings') \in {Bodies(findings), Bodies(note'[only])}
          /\ \/ \E i \in NoteId, b \in Body :
                 /\ Bodies(note'[only]) = [Bodies(note[only]) EXCEPT ![i] = b]
                 /\ \E texts \in SUBSET (kept[i] \cup {b}) :
                      kept' = [kept EXCEPT ![i] = texts]
             \/ \E gone \in SUBSET NoteId :
                 /\ Bodies(note'[only]) = [i \in NoteId |->
                      IF i \in gone THEN Absent ELSE Bodies(note[only])[i]]
                 /\ kept' = [i \in NoteId |-> IF i \in gone THEN {} ELSE kept[i]]
      BY <1>3, <2>2, NoteStepBodies
    <3>2. Wanted = Bodies(note[only]) /\ Wanted' = Bodies(note'[only])
          /\ Bodies(findings)' = Bodies(findings')
      BY <1>1, <3>1 DEF Loaded, Bodies
    <3> QED BY <3>1, <3>2 DEF Book!Next, Book!Write, Book!Remove, Book!SavedOrFailed
  <2>3. CASE StateStep(only) \/ UNCHANGED vars
    <3>1. UNCHANGED <<findings, note, at, kept>>
      BY <1>3, <2>3, StateStepForm
      DEF SaveState, TypeAndAnchors, vars, disk, memory, told
    <3>2. Wanted' = Wanted /\ Bodies(findings)' = Bodies(findings)
      BY <1>1, <3>1 DEF Loaded
    <3> QED BY <3>1, <3>2
  <2> QED BY <1>3, <2>1, <2>2, <2>3 DEF Next
<1>4. QED
  BY <1>2, <1>3, TypesAndAnchorsHold, PTL DEF Spec, IsANoteBook, Book!Spec

=============================================================================
