------------------------------ MODULE Prepare ------------------------------
(***************************************************************************)
(* From the command line to an open reviewer (tui/src/lib.rs, picker.rs,   *)
(* splash.rs, osc/, vendor/terminal.rs): a source is picked, the pipeline  *)
(* runs on a thread of its own and reports its stages on a channel, a      *)
(* splash shows them and can cancel, and what the pipeline made is opened. *)
(*                                                                         *)
(* The agent is a child process: Subprocess.  Every other stage is a step  *)
(* that ends, well or not.                                                 *)
(***************************************************************************)
EXTENDS Subprocess, Sequences

CONSTANTS
  Pick,       \* whether the range is picked rather than typed
  Commits     \* how many commits the picker offers

ASSUME PickerAssumption == Commits \in Nat \ {0}

VARIABLES
  phase,    \* where `review_in` is
  picker,   \* the picker: [row, tick, dirty]: the base, whether with the worktree, if it differs
  worker,   \* the pipeline's thread: the stage it is in, and how it ended
  channel,  \* progress sent and not read
  current,  \* the stage the splash shows
  agent,    \* what the splash knows of the agent: "unknown", "cached", "asked"
  bar,      \* the terminal's progress bar: "clear", "at", "working"
  terminal, \* whose the terminal is: "ours", "theirs"
  notified, \* the notification raised: "none", "ready", "failed"
  told      \* whether a call was made, for the properties

uiVars == <<phase, picker, current, agent, bar, terminal, notified>>
prepareVars == <<callVars, uiVars, worker, channel, told>>

Stages == <<"enumerating", "classifying", "grouping", "ordering", "done">>

----------------------------------------------------------------------------
(* The pipeline's thread *)

\* A stage nobody is left to hear of is not an error.
Sent(progress) ==
  channel' = IF phase \in {"draining", "looking"} THEN Append(channel, progress) ELSE channel

WorkerIs(stage) == worker' = stage /\ UNCHANGED uiVars

Enumerate ==
  /\ worker = "started"
  /\ Sent("enumerating") /\ WorkerIs("enumerating")
  /\ UNCHANGED <<callVars, told>>

Classify ==
  /\ worker = "enumerating"
  /\ Sent("classifying") /\ WorkerIs("classifying")
  /\ UNCHANGED <<callVars, told>>

\* `grouping::run`: an answer in the cache is replayed, a review of nothing but generated
\* code asks for none, and a review that lost a hunk is not grouped at all.
NeedNotAsk ==
  /\ worker = "classifying"
  /\ Sent("cached") \/ UNCHANGED channel
  /\ WorkerIs("grouped")
  /\ UNCHANGED <<callVars, told>>

AskAgent ==
  /\ worker = "classifying"
  /\ Sent("asked") /\ WorkerIs("asking")
  /\ told' = TRUE
  /\ UNCHANGED callVars

StartCall == worker = "asking" /\ Spawn /\ UNCHANGED <<uiVars, worker, channel, told>>

\* `CommandBackend::complete`: an answer that is empty is none.  With it the call is over,
\* its threads and pipes with it.
AgentAnswered ==
  /\ worker = "asking" /\ call = "ended"
  /\ WorkerIs(IF answer = "ok" /\ heard["out"] > 0 THEN "grouped" ELSE "failed")
  /\ Forgotten
  /\ UNCHANGED <<channel, told>>

OrderGroups ==
  /\ worker = "grouped"
  /\ Sent("ordering") /\ WorkerIs("ordering")
  /\ UNCHANGED <<callVars, told>>

Deliver ==
  /\ worker = "ordering"
  /\ Sent("done") /\ WorkerIs("delivered")
  /\ UNCHANGED <<callVars, told>>

\* An error of git, of the cache, of the forge, or a panic.
StageFails ==
  /\ worker \in {"started", "enumerating", "classifying", "grouped", "ordering"}
  /\ WorkerIs("failed")
  /\ UNCHANGED <<callVars, channel, told>>

WorkerIsFinished == worker \in {"delivered", "failed"}

Pipeline == Enumerate \/ Classify \/ NeedNotAsk \/ AskAgent \/ StartCall \/ AgentAnswered
              \/ OrderGroups \/ Deliver

----------------------------------------------------------------------------
(* The thread that owns the screen *)

Rest(vs) == UNCHANGED vs /\ UNCHANGED <<callVars, worker, channel, told>>

\* `review`: raw mode, and the picker or the pipeline.
EnterTerminal ==
  /\ phase = "start"
  /\ terminal' = "ours"
  /\ phase' = IF Pick THEN "picking" ELSE "starting"
  /\ Rest(<<picker, current, agent, bar, notified>>)

\* `pick_source`: nothing to pick from, or git fails.
CannotPick ==
  /\ phase = "picking" /\ phase' = "failing"
  /\ Rest(<<picker, current, agent, bar, terminal, notified>>)

\* What was picked is the pipeline's.
NoPicker == [row |-> 0, tick |-> FALSE, dirty |-> FALSE]

Down(row) == IF row + 1 < Commits THEN row + 1 ELSE row
Up(row) == IF row = 0 THEN row ELSE row - 1

\* What is on line y of the list as it was drawn: the box, when it is, and the rule are
\* above the commits.
Hit(y) == IF picker.dirty THEN y - 2 ELSE y - 1

\* Keys and the wheel move, space and a click on the box tick it when there is something
\* to include, a click on a commit selects it.
PickerMoves ==
  /\ phase = "picking"
  /\ \/ picker' = [picker EXCEPT !.row = Down(@)]
     \/ picker' = [picker EXCEPT !.row = Up(@)]
     \/ picker.dirty /\ picker' = [picker EXCEPT !.tick = ~@]
     \/ \E y \in 0 .. Commits + 1 :
          /\ Hit(y) \in 0 .. Commits - 1 /\ Hit(y) # picker.row
          /\ picker' = [picker EXCEPT !.row = Hit(y)]
  /\ Rest(<<phase, current, agent, bar, terminal, notified>>)

\* Enter, or a click on the commit that is selected.
Picked ==
  /\ phase = "picking" /\ phase' = "starting"
  /\ picker' = NoPicker
  /\ Rest(<<current, agent, bar, terminal, notified>>)

NotPicked ==
  /\ phase = "picking" /\ phase' = "ending"
  /\ Rest(<<picker, current, agent, bar, terminal, notified>>)

SpawnWorker ==
  /\ phase = "starting"
  /\ phase' = "draining" /\ worker' = "started"
  /\ UNCHANGED <<picker, current, agent, bar, terminal, notified, callVars, channel, told>>

\* `splash::run`: everything published since the last frame, ...
SplashReads ==
  /\ phase = "draining" /\ channel # <<>>
  /\ channel' = Tail(channel)
  /\ current' = IF Head(channel) \in {"cached", "asked"} THEN "grouping" ELSE Head(channel)
  /\ agent' = IF Head(channel) \in {"cached", "asked"} THEN Head(channel) ELSE agent
  /\ UNCHANGED <<phase, picker, bar, terminal, notified, callVars, worker, told>>

SplashHasRead ==
  /\ phase = "draining" /\ channel = <<>>
  /\ phase' = "looking"
  /\ Rest(<<picker, current, agent, bar, terminal, notified>>)

\* ... whether that was the last of it; the bar's guard takes it down on the way out.
SplashIsOver ==
  /\ phase = "looking" /\ WorkerIsFinished
  /\ phase' = "joining" /\ bar' = "clear" /\ channel' = <<>> /\ current' = "enumerating"
  /\ UNCHANGED <<picker, agent, terminal, notified, callVars, worker, told>>

\* `bar_state`: an uncached call has no progress of its own.
BarState ==
  CASE current = "done" -> "clear"
    [] current = "grouping" /\ agent = "asked" -> "working"
    [] OTHER -> "at"

\* A frame, and at most one event of the terminal.
SplashDraws ==
  /\ phase = "looking" /\ ~WorkerIsFinished
  /\ phase' = "draining" /\ bar' = BarState
  /\ Rest(<<picker, current, agent, terminal, notified>>)

\* What the splash had is dropped with it.
NoSplash == channel' = <<>> /\ current' = "enumerating" /\ agent' = "unknown"

\* `q` or Esc: the flag is raised for the worker to come back.
SplashCancelled ==
  /\ phase = "looking" /\ ~WorkerIsFinished
  /\ phase' = "cancelling" /\ bar' = "clear" /\ cancel' = TRUE /\ NoSplash
  /\ UNCHANGED <<picker, terminal, notified, worker, told>>
  /\ UNCHANGED <<call, answer, child, status, holds, pipe, said, Threads, late>>

\* Mutant: the worker is left behind.
Cancelled_unjoined ==
  /\ phase = "cancelling"
  /\ phase' = "ending"
  /\ Rest(<<picker, current, agent, bar, terminal, notified>>)

Cancelled ==
  /\ phase = "cancelling" /\ WorkerIsFinished
  /\ phase' = "ending"
  /\ Rest(<<picker, current, agent, bar, terminal, notified>>)

\* Mutant: the reader is told when the pipeline is done.
Joined_early ==
  /\ phase = "joining"
  /\ notified' = CASE agent # "asked" -> "none"
                   [] agent = "asked" /\ worker = "delivered" -> "ready"
                   [] agent = "asked" /\ worker = "failed" -> "failed"
  /\ phase' \in IF worker = "delivered" THEN {"open", "failing"} ELSE {"failing"}
  /\ agent' = "unknown"
  /\ Rest(<<picker, current, bar, terminal>>)

\* `review_in`, `open_app`: the document, the store and the session; then the reader is
\* told, if there was a wait.
Joined ==
  /\ phase = "joining"
  /\ phase' \in IF worker = "delivered" THEN {"open", "failing"} ELSE {"failing"}
  /\ notified' = CASE agent # "asked" -> "none"
                   [] agent = "asked" /\ phase' = "open" -> "ready"
                   [] agent = "asked" /\ phase' = "failing" -> "failed"
  /\ agent' = "unknown"
  /\ Rest(<<picker, current, bar, terminal>>)

\* The terminal cannot be read or drawn on: the program ends at once, its guard gives the
\* terminal back, and its threads go with it, wherever they were.
TerminalFails ==
  /\ phase \in {"picking", "looking", "open"}
  /\ phase' = "cut short" /\ bar' = "clear" /\ terminal' = "theirs"
  /\ worker' = "none" /\ reader' = [p \in Output |-> FALSE] /\ writer' = FALSE
  /\ child' = "none" /\ NoSplash
  /\ call' = "idle" /\ answer' = "none" /\ status' = TRUE
  /\ holds' = Nowhere /\ pipe' = Nothing /\ unsent' = 0
  /\ said' = Unheard /\ heard' = Unheard /\ late' = FALSE
  /\ UNCHANGED <<picker, notified, told, cancel>>

\* Whatever comes of it, the terminal is given back.
LeaveTerminal ==
  /\ phase \in {"ending", "failing"}
  /\ phase' = "ended" /\ terminal' = "theirs"
  /\ Rest(<<picker, current, agent, bar, notified>>)

Screen ==
  \/ EnterTerminal \/ SpawnWorker \/ SplashReads \/ SplashHasRead
  \/ SplashIsOver \/ SplashDraws \/ Cancelled \/ Joined \/ LeaveTerminal

PrepareInit ==
  /\ CallInit
  /\ phase = "start" /\ \E dirty \in BOOLEAN : picker = [NoPicker EXCEPT !.tick = dirty, !.dirty = dirty]
  /\ worker = "none" /\ channel = <<>>
  /\ current = "enumerating" /\ agent = "unknown" /\ bar = "clear"
  /\ terminal = "theirs" /\ notified = "none" /\ told = FALSE
=============================================================================
