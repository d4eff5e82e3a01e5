--------------------------- MODULE ReviewSession ---------------------------
(***************************************************************************)
(* An open review over its sidecar directory                               *)
(* (crates/engine/src/review_session.rs over store.rs).                    *)
(*                                                                         *)
(* A session is a process: the reviewer, or `dfr findings`, which opens    *)
(* the same review.  It opens the plan the pipeline gave it in the order   *)
(* of `ReviewSession::open`, one file operation per step, then runs        *)
(* mutations, each of which changes memory and then rewrites one whole     *)
(* file.  A rewrite is a rename of a finished temporary file, so it        *)
(* happens or it does not; a failed one leaves memory ahead of the disk.   *)
(* A session may end between any two steps: a crash, an io error of an     *)
(* open, and an orderly quit all leave the disk as it is.                  *)
(*                                                                         *)
(* Forge threads and the publishing of notes are in module Publish; here a *)
(* note only knows whether it is on the forge.  Ids are distinct: they     *)
(* hash a digest, a second and a body.                                     *)
(***************************************************************************)
EXTENDS Anchoring

CONSTANTS
  Session,   \* processes that may have the review open
  NoteId,    \* ids of findings
  Absent,    \* no such note
  NoPlan,    \* no plan has been opened
  Pointed,   \* Pointed[p][k]: the lines a renderer can point at, from hunk k
  Markable,  \* the digests whose marks are followed (a bound for TLC)
  Cursor, NoCursor,  \* resume positions, and none saved
  Layout, NoLayout   \* recorded view choices, and none made

ASSUME SessionAssumption ==
  /\ Pointed \in [Plan -> Seq(SUBSET Lines)]
  /\ \A p \in Plan : /\ DOMAIN Pointed[p] = DOMAIN HunksOf[p]
                     /\ \A k \in DOMAIN HunksOf[p] : NoLines \notin Pointed[p][k]
  /\ NoPlan \notin Plan
  /\ NoCursor \notin Cursor
  /\ NoLayout \notin Layout

ASSUME AbsentAssumption == Absent \notin Finding

Notes == [NoteId -> Finding \cup {Absent}]

\* state.json
State == [reviewed_hunks : SUBSET Digest,
          cursor : Cursor \cup {NoCursor}, layout : Layout \cup {NoLayout}]

NoNotes      == [i \in NoteId |-> Absent]
DefaultState == [reviewed_hunks |-> {}, cursor |-> NoCursor, layout |-> NoLayout]

VARIABLES
  \* the sidecar directory
  plans,      \* the bodies under plans/
  current,    \* the file `current`
  findings,   \* findings.jsonl
  state,      \* state.json
  \* each session's memory
  at,         \* how far open has come
  plan,       \* the plan it opens
  note,       \* its findings
  view,       \* its state
  \* what the reader has been told
  kept,       \* kept[i]: bodies of note i one of which is saved; {} if deleted
  seen,       \* marks whose save succeeded
  overlapped  \* two sessions have been open at once

disk   == <<plans, current, findings, state>>
memory == <<at, plan, note, view>>
told   == <<kept, seen, overlapped>>
vars   == <<disk, memory, told>>

\* `Closed`, then the next step of open, then `Ready`.
Stage == {"closed", "save_plan", "save_current", "load_findings",
          "save_findings", "load_state", "ready"}

Ids(notes) == {i \in NoteId : notes[i] # Absent}

----------------------------------------------------------------------------
Init ==
  /\ plans = {} /\ current = NoPlan
  /\ findings = NoNotes /\ state = DefaultState
  /\ at = [s \in Session |-> "closed"]
  /\ plan = [s \in Session |-> NoPlan]
  /\ note = [s \in Session |-> NoNotes]
  /\ view = [s \in Session |-> DefaultState]
  /\ kept = [i \in NoteId |-> {}] /\ seen = {} /\ overlapped = FALSE

----------------------------------------------------------------------------
(* Opening: `ReviewSession::open` *)

\* Mutant: a plan's name is recorded without its body.
Open_unsaved(s, p) ==
  /\ at[s] = "closed"
  /\ at' = [at EXCEPT ![s] = "save_current"]
  /\ plan' = [plan EXCEPT ![s] = p]
  /\ overlapped' = (overlapped \/ \E t \in Session \ {s} : at[t] # "closed")
  /\ UNCHANGED <<disk, note, view, kept, seen>>

\* The pipeline has produced plan p, whatever the branch now holds.
Open(s, p) ==
  /\ at[s] = "closed"
  /\ at' = [at EXCEPT ![s] = "save_plan"]
  /\ plan' = [plan EXCEPT ![s] = p]
  /\ overlapped' = (overlapped \/ \E t \in Session \ {s} : at[t] # "closed")
  /\ UNCHANGED <<disk, note, view, kept, seen>>

SavePlan(s) ==
  /\ at[s] = "save_plan"
  /\ at' = [at EXCEPT ![s] = "save_current"]
  /\ plans' = plans \cup {plan[s]}
  /\ UNCHANGED <<current, findings, state, plan, note, view, told>>

SaveCurrent(s) ==
  /\ at[s] = "save_current"
  /\ at' = [at EXCEPT ![s] = "load_findings"]
  /\ current' = plan[s]
  /\ UNCHANGED <<plans, findings, state, plan, note, view, told>>

\* Mutant: a note that nothing in the plan carries is dropped.
ReanchorAll_dropping(notes, p) ==
  [i \in NoteId |-> IF notes[i] = Absent THEN Absent
                    ELSE IF Reanchor(notes[i], p).status = "orphaned" THEN Absent
                    ELSE Reanchor(notes[i], p)]

ReanchorAll(notes, p) ==
  [i \in NoteId |-> IF notes[i] = Absent THEN Absent ELSE Reanchor(notes[i], p)]

LoadFindings(s) ==
  /\ at[s] = "load_findings"
  /\ at' = [at EXCEPT ![s] = "save_findings"]
  /\ note' = [note EXCEPT ![s] = ReanchorAll(findings, plan[s])]
  /\ UNCHANGED <<disk, plan, view, told>>

SaveFindings(s) ==
  /\ at[s] = "save_findings"
  /\ at' = [at EXCEPT ![s] = "load_state"]
  /\ findings' = note[s]
  /\ UNCHANGED <<plans, current, state, plan, note, view, told>>

LoadState(s) ==
  /\ at[s] = "load_state"
  /\ at' = [at EXCEPT ![s] = "ready"]
  /\ view' = [view EXCEPT ![s] = state]
  /\ UNCHANGED <<disk, plan, note, told>>

\* A crash, a failed file operation of open, or a quit.
Exit(s) ==
  /\ at[s] # "closed"
  /\ at' = [at EXCEPT ![s] = "closed"]
  /\ plan' = [plan EXCEPT ![s] = NoPlan]
  /\ note' = [note EXCEPT ![s] = NoNotes]
  /\ view' = [view EXCEPT ![s] = DefaultState]
  /\ UNCHANGED <<disk, told>>

----------------------------------------------------------------------------
(* Findings: memory first, then the file, which may fail *)

\* Mutant: a mutation that is not written through.
SaveNotes_in_memory(s, notes, ok) ==
  /\ note' = [note EXCEPT ![s] = notes]
  /\ UNCHANGED <<disk, at, plan, view, seen, overlapped>>

SaveNotes(s, notes, ok) ==
  /\ note' = [note EXCEPT ![s] = notes]
  /\ findings' = IF ok THEN notes ELSE findings
  /\ UNCHANGED <<plans, current, state, at, plan, view, seen, overlapped>>

\* Fresh: in no file and in no session.
Fresh(i) == findings[i] = Absent /\ \A t \in Session : note[t][i] = Absent

AddFinding(s, i, k, lines, b, ok) ==
  /\ at[s] = "ready" /\ Fresh(i)
  /\ LET h == HunksOf[plan[s]][k]
         f == [body |-> b, status |-> "open", moved |-> FALSE,
               plan_hash |-> plan[s], upstream |-> FALSE,
               anchor |-> AnchorAt(h, lines)]
     IN  SaveNotes(s, [note[s] EXCEPT ![i] = f], ok)
  /\ kept' = [kept EXCEPT ![i] = IF ok THEN {b} ELSE {}]

\* A failed rewrite leaves either text to be found by the next open.
EditFinding(s, i, b, ok) ==
  /\ at[s] = "ready" /\ note[s][i] # Absent
  /\ SaveNotes(s, [note[s] EXCEPT ![i].body = b], ok)
  /\ kept' = [kept EXCEPT ![i] = IF ok THEN {b} ELSE IF @ = {} THEN {} ELSE @ \cup {b}]

DeleteFinding(s, i, ok) ==
  /\ at[s] = "ready" /\ note[s][i] # Absent
  /\ SaveNotes(s, [note[s] EXCEPT ![i] = Absent], ok)
  /\ kept' = [kept EXCEPT ![i] = {}]

\* Notes that are on the forge stay.
ClearFindings(s, ok) ==
  LET gone == {i \in Ids(note[s]) : ~note[s][i].upstream}
  IN  /\ at[s] = "ready" /\ gone # {}
      /\ SaveNotes(s, [i \in NoteId |-> IF i \in gone THEN Absent ELSE note[s][i]], ok)
      /\ kept' = [i \in NoteId |-> IF i \in gone THEN {} ELSE kept[i]]

\* A publish has said where note i went.
MarkPublished(s, i, ok) ==
  /\ at[s] = "ready" /\ note[s][i] # Absent
  /\ SaveNotes(s, [note[s] EXCEPT ![i].upstream = TRUE], ok)
  /\ UNCHANGED kept

----------------------------------------------------------------------------
(* state.json: reviewed marks, the resume cursor, the view choices *)

SaveState(s, st, ok) ==
  /\ at[s] = "ready"
  /\ view' = [view EXCEPT ![s] = st]
  /\ state' = IF ok THEN st ELSE state
  /\ UNCHANGED <<plans, current, findings, at, plan, note, kept, overlapped>>

DigestsIn(p) == {DigestOf(HunksOf[p][k]) : k \in DOMAIN HunksOf[p]} \cap Markable

SetReviewed(s, keys, on, ok) ==
  /\ SaveState(s, [view[s] EXCEPT !.reviewed_hunks =
                     IF on THEN @ \cup keys ELSE @ \ keys], ok)
  /\ seen' = IF ~on THEN seen \ keys ELSE IF ok THEN seen \cup keys ELSE seen

ToggleReviewed(s, key, ok) ==
  SetReviewed(s, {key}, key \notin view[s].reviewed_hunks, ok)

\* Mutant: the cursor saved over a fresh state.
SaveCursor_afresh(s, c, ok) ==
  SaveState(s, [DefaultState EXCEPT !.cursor = c], ok) /\ UNCHANGED seen

SaveCursor(s, c, ok) ==
  SaveState(s, [view[s] EXCEPT !.cursor = c], ok) /\ UNCHANGED seen

SetLayout(s, l, ok) ==
  SaveState(s, [view[s] EXCEPT !.layout = l], ok) /\ UNCHANGED seen

----------------------------------------------------------------------------
OpenStep(s) ==
  \/ \E p \in Plan : Open(s, p)
  \/ SavePlan(s) \/ SaveCurrent(s) \/ LoadFindings(s) \/ SaveFindings(s)
  \/ LoadState(s)
  \/ Exit(s)

NoteStep(s) ==
  \E i \in NoteId, ok \in BOOLEAN :
    \/ /\ at[s] = "ready"
       /\ \E k \in DOMAIN HunksOf[plan[s]], b \in Body :
            \E lines \in Pointed[plan[s]][k] \cup {NoLines} :
              AddFinding(s, i, k, lines, b, ok)
    \/ \E b \in Body : EditFinding(s, i, b, ok)
    \/ DeleteFinding(s, i, ok)
    \/ ClearFindings(s, ok)
    \/ MarkPublished(s, i, ok)

StateStep(s) ==
  \E ok \in BOOLEAN :
    \/ /\ at[s] = "ready"
       /\ \/ \E key \in DigestsIn(plan[s]) : ToggleReviewed(s, key, ok)
          \/ \E keys \in SUBSET DigestsIn(plan[s]), on \in BOOLEAN :
               SetReviewed(s, keys, on, ok)
    \/ \E c \in Cursor : SaveCursor(s, c, ok)
    \/ \E l \in Layout : SetLayout(s, l, ok)

Next == \E s \in Session : OpenStep(s) \/ NoteStep(s) \/ StateStep(s)

Spec == Init /\ [][Next]_vars

----------------------------------------------------------------------------
(* Properties *)

Keeps(texts, notes) ==
  \A i \in NoteId : texts[i] # {} => notes[i] # Absent /\ notes[i].body \in texts[i]

Loaded(s) == at[s] \in {"save_findings", "load_state", "ready"}

\* Every variable has its type.
TypeOK ==
  /\ plans \in SUBSET Plan /\ current \in Plan \cup {NoPlan}
  /\ findings \in Notes /\ state \in State
  /\ at \in [Session -> Stage] /\ plan \in [Session -> Plan \cup {NoPlan}]
  /\ note \in [Session -> Notes] /\ view \in [Session -> State]
  /\ kept \in [NoteId -> SUBSET Body] /\ seen \in SUBSET Digest
  /\ overlapped \in BOOLEAN
  /\ \A s \in Session : at[s] # "closed" => plan[s] \in Plan

\* Every note on disk is anchored in the plan it names, and that plan's body
\* is on disk too: a note is never ahead of the plan that explains it, wherever
\* a session died or another one wrote.
NotesExplained ==
  \A i \in Ids(findings) : Placed(findings[i]) /\ findings[i].plan_hash \in plans

\* In an open review every note that is not orphaned is anchored in the plan
\* on screen, at the line its text is on.
LiveNotesOnScreen ==
  \A s \in Session : Loaded(s) =>
    \A i \in Ids(note[s]) :
      note[s][i].status # "orphaned" =>
        note[s][i].plan_hash = plan[s] /\ Placed(note[s][i])

\* A note whose save the reader saw succeed is on disk with a text the reader
\* gave it, and a mark that was saved is still marked, through any number of
\* regenerations, failed saves, crashes and reopenings of a session that was
\* never open beside another.
NothingLost ==
  ~overlapped =>
    /\ Keeps(kept, findings)
    /\ seen \subseteq state.reviewed_hunks

----------------------------------------------------------------------------
(* The inductive invariant *)

\* An anchor is well placed in memory too, from the moment it is read.
PlacedAndSaved(notes) ==
  \A i \in NoteId :
    notes[i] # Absent => Placed(notes[i]) /\ notes[i].plan_hash \in plans

AnchorInv ==
  /\ PlacedAndSaved(findings)
  /\ \A s \in Session :
       /\ PlacedAndSaved(note[s])
       /\ at[s] \notin {"closed", "save_plan"} => plan[s] \in plans
       /\ Loaded(s) => \A i \in NoteId :
            note[s][i] # Absent /\ note[s][i].status # "orphaned"
              => note[s][i].plan_hash = plan[s]

\* A session that is alone holds in memory whatever has been kept.
KeepInv ==
  ~overlapped =>
    /\ \A s, t \in Session : s = t \/ at[s] = "closed" \/ at[t] = "closed"
    /\ Keeps(kept, findings) /\ seen \subseteq state.reviewed_hunks
    /\ \A s \in Session :
         /\ Loaded(s) => Keeps(kept, note[s])
         /\ at[s] = "ready" => seen \subseteq view[s].reviewed_hunks

----------------------------------------------------------------------------
(* Refinement *)

\* Alone, a review is a note book: whatever plan is opened, whatever becomes of
\* the anchors, whichever save fails and wherever the session dies, the texts
\* change only by the reader's own hand or by falling back to what was saved.
Bodies(notes) ==
  [i \in NoteId |-> IF notes[i] = Absent THEN Absent ELSE notes[i].body]

Wanted == IF \E s \in Session : Loaded(s)
          THEN Bodies(note[CHOOSE s \in Session : Loaded(s)])
          ELSE Bodies(findings)

Book == INSTANCE NoteBook WITH wanted <- Wanted, saved <- Bodies(findings)

IsANoteBook == Book!Spec

============================================================================
