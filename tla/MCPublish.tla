----------------------------- MODULE MCPublish -----------------------------
(* Small requests for Publish: one note, or two alike on one line. *)
EXTENDS Publish, TLC

CONSTANTS n1, n2, b1, b2, p1

\* Two notes on one line, in the same words.
SameWords(b) == n1 :> {b} @@ n2 :> {b}
SamePlace == n1 :> p1 @@ n2 :> p1

\* Nobody has commented yet, or there is a thread to reply to.
Untouched == <<>>
OneThread == <<[thread |-> 1, place |-> p1, author |-> "other", marker |-> NoNote,
                body |-> b1, live |-> TRUE, from |-> NoNote,
                bared |-> TRUE]>>

\* One note, in either of two wordings.
OneNote == n1 :> {b1, b2} @@ n2 :> {}

Alone == {[lossy |-> FALSE, words |-> OneNote, most |-> 3]}

\* Two notes alike over a request that answers every call, or one note over one
\* that loses answers and saves.
Faults ==
  {[lossy |-> FALSE, words |-> SameWords(b), most |-> 3] : b \in {b1, b2}}
  \cup {[lossy |-> TRUE, words |-> OneNote, most |-> 2]}

\* The notes' words are only compared.
Wordings == Permutations({b1, b2})

============================================================================
