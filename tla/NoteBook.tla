------------------------------ MODULE NoteBook ------------------------------
(***************************************************************************)
(* What a review promises about the words in its findings, with nothing of *)
(* plans, hunks, anchors or files: there is what the reader wants kept and *)
(* what is saved.  A change reaches both, or, when its save fails, only    *)
(* the first; a later save brings the second up to date; an ending session *)
(* falls back to what was saved.  A text goes only by the reader's hand,   *)
(* which forgets it.  Regenerating the plan is no step at all.             *)
(***************************************************************************)
CONSTANTS NoteId, Body, Absent

VARIABLES
  wanted,   \* the texts in the reader's session
  saved,    \* the texts that outlive it
  kept      \* kept[i]: texts the reader was told are saved as note i

vars == <<wanted, saved, kept>>

Texts == [NoteId -> Body \cup {Absent}]

TypeOK == wanted \in Texts /\ saved \in Texts /\ kept \in [NoteId -> SUBSET Body]

Init ==
  /\ wanted = [i \in NoteId |-> Absent] /\ saved = wanted
  /\ kept = [i \in NoteId |-> {}]

SavedOrFailed == saved' \in {saved, wanted'}

Write(i, b) ==
  /\ wanted' = [wanted EXCEPT ![i] = b]
  /\ \E texts \in SUBSET (kept[i] \cup {b}) : kept' = [kept EXCEPT ![i] = texts]
  /\ SavedOrFailed

Remove(gone) ==
  /\ wanted' = [i \in NoteId |-> IF i \in gone THEN Absent ELSE wanted[i]]
  /\ kept' = [i \in NoteId |-> IF i \in gone THEN {} ELSE kept[i]]
  /\ SavedOrFailed

Save == saved' = wanted /\ UNCHANGED <<wanted, kept>>

End == wanted' = saved /\ UNCHANGED <<saved, kept>>

Next ==
  \/ \E i \in NoteId, b \in Body : Write(i, b)
  \/ \E gone \in SUBSET NoteId : Remove(gone)
  \/ Save
  \/ End

Spec == Init /\ [][Next]_vars

=============================================================================
