----------------------------- MODULE EventLoop -----------------------------
(***************************************************************************)
(* The reviewer's event loop (run_app in tui/src/lib.rs, launch.rs): what  *)
(* the terminal sends is read in bursts, what the bursts ask for is done   *)
(* after them, and the terminal is lent to an editor in between.  It runs  *)
(* once Prepare has opened a review.                                       *)
(*                                                                         *)
(* What a key does to the reviewer is not told apart here, only that it    *)
(* does something.                                                         *)
(***************************************************************************)
EXTENDS Prepare, SequencesExt

CONSTANTS
  Burst,      \* `drained`: events read before a repaint (32)
  Sizes,      \* sizes the terminal is given
  MaxQueue    \* bound: events waiting

ASSUME LoopAssumption == Burst \in Nat \ {0} /\ Sizes # {}

VARIABLES
  at,       \* where `run_app` is: "top", "wait", "burst", "effects", "editor", "back"
  queue,    \* what the terminal has for us: [kind, size, lent]
  drained,  \* events read in this burst
  effects,  \* what they ask for
  quit,     \* whether they ask to leave
  size,     \* of the terminal
  area,     \* of the terminal, as the model has it
  dirty,    \* whether to draw
  shown     \* whether the screen is what the model says

loopVars == <<at, queue, drained, effects, quit, size, area, dirty, shown>>
vars == <<prepareVars, loopVars>>

Still == UNCHANGED prepareVars
Keys == {"key", "edit", "copy", "quit"}

----------------------------------------------------------------------------
(* The terminal and who is at it *)

Event(kind, s) == [kind |-> kind, size |-> s, lent |-> at = "editor"]

\* A key; what is typed at the editor may be left over by it.
Press(kind) ==
  /\ phase = "open" /\ Len(queue) < MaxQueue
  /\ queue' = Append(queue, Event(kind, size))
  /\ UNCHANGED <<at, drained, effects, quit, size, area, dirty, shown>> /\ Still

Resize(s) ==
  /\ phase = "open" /\ s # size /\ Len(queue) < MaxQueue
  /\ size' = s /\ shown' = FALSE
  /\ queue' = Append(queue, Event("resize", s))
  /\ UNCHANGED <<at, drained, effects, quit, area, dirty>> /\ Still

----------------------------------------------------------------------------
(* The loop *)

\* `run_app`: the terminal is measured, and everything is to be drawn.
Enter ==
  /\ phase = "open" /\ at = "none"
  /\ at' = "top" /\ area' = size /\ dirty' = TRUE /\ shown' = FALSE
  /\ UNCHANGED <<queue, drained, effects, quit, size>> /\ Still

\* A forge's answer changes what is shown.
ForgeAnswers ==
  /\ at = "top" /\ dirty' = TRUE /\ shown' = FALSE
  /\ UNCHANGED <<at, queue, drained, effects, quit, size, area>> /\ Still

Draw ==
  /\ at = "top" /\ at' = "wait"
  /\ dirty' = FALSE /\ shown' = (shown \/ dirty)
  /\ UNCHANGED <<queue, drained, effects, quit, size, area>> /\ Still

Wake ==
  /\ at = "wait"
  /\ at' = IF queue = <<>> THEN "top" ELSE "burst"
  /\ drained' = 0 /\ effects' = <<>>
  /\ UNCHANGED <<queue, quit, size, area, dirty, shown>> /\ Still

\* One event: a key is handled by the model, a resize is state, both in the order they
\* came; motions of the pointer are dropped.
Read ==
  LET e == Head(queue) IN
  /\ at = "burst"
  /\ queue' = Tail(queue) /\ drained' = drained + 1
  /\ dirty' = (dirty \/ e.kind \in Keys \cup {"resize"})
  /\ shown' = (shown /\ e.kind \notin Keys \cup {"resize"})
  /\ area' = IF e.kind = "resize" THEN e.size ELSE area
  /\ effects' = IF e.kind \in {"edit", "copy", "quit"} THEN Append(effects, e.kind) ELSE effects
  /\ at' = IF drained' >= Burst \/ queue' = <<>> THEN "effects" ELSE at
  /\ UNCHANGED <<quit, size>> /\ Still

\* The status line says where the summary went; the key has marked the screen already.
Copy ==
  /\ at = "effects" /\ effects # <<>> /\ Head(effects) = "copy"
  /\ effects' = Tail(effects) /\ shown' = FALSE
  /\ UNCHANGED <<at, queue, drained, quit, size, area, dirty>> /\ Still

\* `launch::open`: no such file, or the terminal is handed over.
Edit ==
  /\ at = "effects" /\ effects # <<>> /\ Head(effects) = "edit"
  /\ effects' = Tail(effects)
  /\ \/ at' = "back" /\ UNCHANGED terminal
     \/ at' = "editor" /\ terminal' = "theirs"
  /\ UNCHANGED <<queue, drained, quit, size, area, dirty, shown>>
  /\ UNCHANGED <<phase, picker, current, agent, bar, notified, callVars, worker, channel, told>>

\* The editor ends, or never started; the terminal is taken back, with a clear screen.
EditorEnds ==
  /\ at = "editor" /\ at' = "back" /\ terminal' = "ours" /\ shown' = FALSE
  /\ UNCHANGED <<queue, drained, effects, quit, size, area, dirty>>
  /\ UNCHANGED <<phase, picker, current, agent, bar, notified, callVars, worker, channel, told>>

\* Mutant: what was typed at the editor is replayed.
Back_unflushed ==
  /\ at = "back"
  /\ at' = "effects" /\ queue' = queue
  /\ area' = size /\ dirty' = TRUE /\ shown' = FALSE
  /\ UNCHANGED <<drained, effects, quit, size>> /\ Still

\* What the editor left is thrown away, the terminal measured, the screen drawn again.
Back ==
  /\ at = "back"
  /\ at' = "effects" /\ queue' = <<>>
  /\ area' = size /\ dirty' = TRUE /\ shown' = FALSE
  /\ UNCHANGED <<drained, effects, quit, size>> /\ Still

\* `q` counts once everything else that was asked for is done.
Quit ==
  /\ at = "effects" /\ effects # <<>> /\ Head(effects) = "quit"
  /\ effects' = Tail(effects) /\ quit' = TRUE
  /\ UNCHANGED <<at, queue, drained, size, area, dirty, shown>> /\ Still

Around ==
  /\ at = "effects" /\ effects = <<>> /\ ~quit /\ at' = "top"
  /\ UNCHANGED <<queue, drained, effects, quit, size, area, dirty, shown>> /\ Still

Leave ==
  /\ at = "effects" /\ effects = <<>> /\ quit /\ phase' = "ending"
  /\ UNCHANGED <<picker, current, agent, bar, terminal, notified, callVars, worker, channel, told, loopVars>>

Loop ==
  /\ phase = "open"
  /\ \/ Enter \/ Draw \/ Wake \/ Read \/ Copy \/ Edit \/ Back \/ Quit \/ Around \/ Leave

Init ==
  /\ PrepareInit
  /\ at = "none" /\ queue = <<>> /\ drained = 0 /\ effects = <<>> /\ quit = FALSE
  /\ area = (CHOOSE s \in Sizes : TRUE) /\ size = area /\ dirty = FALSE /\ shown = FALSE

Aside == UNCHANGED <<uiVars, worker, channel, told, loopVars>>

\* The threads of this process, and what nobody can count on: the child, the clock, git,
\* the disk, the forge, the reader, the terminal.
Next ==
  \/ (Feed \/ (\E p \in Output : Drain(p)) \/ Poll \/ Join) /\ Aside
  \/ (Pipeline \/ Screen) /\ UNCHANGED loopVars
  \/ Loop
  \/ (PollFails \/ DeadlinePasses \/ Child) /\ Aside
  \/ (StageFails \/ CannotPick \/ PickerMoves \/ Picked \/ NotPicked) /\ UNCHANGED loopVars
  \/ SplashCancelled /\ UNCHANGED loopVars
  \/ TerminalFails /\ UNCHANGED loopVars
  \/ phase = "open" /\ (ForgeAnswers \/ EditorEnds)
  \/ \E kind \in Keys \cup {"motion"} : Press(kind)
  \/ \E s \in Sizes : Resize(s)


\* The system runs our threads, git and the disk answer: of the child, the clock and the
\* reader nothing is assumed.
Ours(A) == A /\ Aside

Fairness ==
  /\ WF_vars(Ours(Feed)) /\ WF_vars(Ours(Poll \/ Join))
  /\ \A p \in Output : WF_vars(Ours(Drain(p)))
  /\ WF_vars(Pipeline /\ UNCHANGED loopVars)
  /\ WF_vars(Screen /\ UNCHANGED loopVars)

Spec == Init /\ [][Next]_vars /\ Fairness

----------------------------------------------------------------------------
(* Properties *)

\* Every part keeps its type, what a reader has heard was said and is no longer in the
\* pipe, and the terminal is lent only while an editor has it.
TypeOK ==
  /\ call \in {"idle", "polling", "joining in", "joining out", "joining err", "ended"}
  /\ answer \in {"none", "ok", "failed", "timeout", "cancelled", "io"}
  /\ child \in {"none", "alive", "exited", "reaped"}
  /\ \A p \in DOMAIN pipe : pipe[p] \in 0 .. Room /\ holds[p] \subseteq Holders
  /\ \A p \in Output : heard[p] + pipe[p] = said[p]
  /\ picker.row \in 0 .. Commits - 1 /\ (picker.tick => picker.dirty)
  /\ phase = "open" => (terminal = "theirs" <=> at = "editor")
  /\ area \in Sizes /\ drained \in 0 .. Burst /\ Len(effects) <= Burst

\* What a call answers is everything the child said, to the last byte on either pipe,
\* however small the pipes and whoever was first (`subprocess::run`).
WholeAnswer == call = "ended" /\ answer # "io" => heard = said

\* Once the program is over by its own means nothing of it is: the agent is dead and
\* waited for, no thread is left at a pipe, the terminal is given back and the bar taken
\* down (`review_in`, `TerminalSession`, `Bar`).
NothingLeft ==
  phase = "ended" =>
    /\ child \in {"none", "reaped"} /\ ~writer /\ \A p \in Output : ~reader[p]
    /\ terminal = "theirs" /\ bar = "clear"

\* The notification says what has happened, all of it, and only to a reader who waited
\* for an agent (`review_in`).
ToldTrue ==
  /\ phase = "open" => notified # "failed"
  /\ phase = "failing" => notified # "ready"
  /\ notified # "none" => told

\* When the loop waits and nothing waits for it, the screen is what the model says at the
\* size the terminal has; and no key typed at the editor is taken for one of the
\* reviewer's (`run_app`).
InStep ==
  /\ phase = "open" /\ at = "wait" /\ queue = <<>> => shown /\ area = size
  /\ phase = "open" /\ at = "burst" => ~Head(queue).lent

Lingers == <>[](\E p \in DOMAIN holds : "grandchild" \in holds[p])

\* A call ends after its deadline and a cancelled review ends without waiting for it,
\* whatever the child does with its pipes, unless a process the child left behind holds
\* one of them for good (`run`, `Outcome::Cancelled`).
CallsEnd ==
  \/ Lingers
  \/ /\ (call = "polling" /\ late) ~> (call \in {"ended", "idle"})
     /\ (phase = "cancelling") ~> (phase = "ended")

=============================================================================
