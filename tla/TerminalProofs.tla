-------------------------- MODULE TerminalProofs --------------------------
(***************************************************************************)
(* The promises of a run, from the command line to its end, proved for     *)
(* pipes of any room, an agent that says any amount and any terminal; and   *)
(* the promises of the reviewer at that terminal, for any keys, clicks,     *)
(* drags and resizes, under any keymap and config it may be run with.       *)
(*                                                                         *)
(* None of the run's four properties is inductive.  What keeps them is     *)
(* stated part by part: of a call, of the pipeline's thread and the phases *)
(* of the program, and of the event loop.                                  *)
(*                                                                         *)
(* The reviewer's (from "The table of default keys" on) rest on one         *)
(* invariant of its state, AppOK, and on what each step leaves of it: a     *)
(* step on the rows Stays, one that opens or closes a box Turns, one of     *)
(* `:config` is Idle, a resize key Shifts, a drag Drags.                    *)
(*                                                                         *)
(* The pointer's (from "Lists on the screen" on) rests on a second: the     *)
(* panes measured and their selections in view (PanesOK), what is open on   *)
(* an entry there is (Settled), and that entry in its window (InWindow). A  *)
(* step in the panes Sees, one over them Handles, a click Clicks.           *)
(***************************************************************************)
EXTENDS EventLoop, Desk, FiniteInduction

----------------------------------------------------------------------------
(* What is true of a call *)

Pipe == {"in"} \cup Output

CallTypes ==
  /\ call \in {"idle", "polling", "joining in", "joining out", "joining err", "ended"}
  /\ answer \in {"none", "ok", "failed", "timeout", "cancelled", "io"}
  /\ child \in {"none", "alive", "exited", "reaped"}
  /\ pipe \in [Pipe -> Nat] /\ holds \in [Pipe -> SUBSET Holders]
  /\ said \in [Output -> Nat] /\ heard \in [Output -> Nat]
  /\ reader \in [Output -> BOOLEAN] /\ writer \in BOOLEAN

HasRoom == \A p \in Pipe : pipe[p] <= Room

\* Nothing is lost between the child and a reader, ...
Conserved == \A p \in Output : heard[p] + pipe[p] = said[p]

\* ... which leaves only when nothing can come any more.
LeftDry == \A p \in Output : ~reader[p] => pipe[p] = 0 /\ holds[p] = {}

\* The threads are gone in the order they are joined in.
JoinedInOrder ==
  /\ call \in {"idle", "joining out", "joining err", "ended"} => ~writer
  /\ call \in {"idle", "joining err", "ended"} => ~reader["out"]
  /\ call \in {"idle", "ended"} => ~reader["err"]

\* A child outlives neither the watch over it nor the call.
Watched ==
  /\ call = "idle" => child = "none"
  /\ call = "polling" => child \in {"alive", "exited"}
  /\ call \notin {"idle", "polling"} => child \in {"none", "reaped"}

CallInv == CallTypes /\ HasRoom /\ Conserved /\ LeftDry /\ JoinedInOrder /\ Watched

----------------------------------------------------------------------------
(* What is true of the pipeline's thread and the phases *)

BeforeWorker == {"start", "picking", "starting"}
DuringSplash == {"draining", "looking"}
WithWorker == DuringSplash \cup {"cancelling"}
AfterWorker == {"joining", "open", "failing", "ending", "ended", "cut short"}

PhaseInv ==
  /\ phase \in BeforeWorker \cup WithWorker \cup AfterWorker
  /\ phase \in BeforeWorker => worker = "none"
  /\ phase \in AfterWorker => worker \in {"none", "delivered", "failed"}
  /\ worker # "asking" => call = "idle"
  /\ phase \notin DuringSplash => bar = "clear"
  /\ phase \in {"picking", "starting", "joining"} \cup DuringSplash => terminal = "ours"
  /\ phase = "ended" => terminal = "theirs"

\* A call the splash knows of, or is yet to read of, was made.
Progress == {"enumerating", "classifying", "cached", "asked", "ordering", "done"}
Heard ==
  /\ channel \in Seq(Progress)
  /\ agent = "asked" \/ (\E i \in DOMAIN channel : channel[i] = "asked") => told

Untold ==
  /\ phase \in BeforeWorker \cup WithWorker \cup {"joining"} => notified = "none"
  /\ phase = "open" => notified \in {"none", "ready"}
  /\ phase = "failing" => notified \in {"none", "failed"}
  /\ notified # "none" => told

PickerInv ==
  /\ picker \in [row : 0 .. Commits - 1, tick : BOOLEAN, dirty : BOOLEAN]
  /\ picker.tick => picker.dirty

PrepareInv == PhaseInv /\ Heard /\ Untold /\ PickerInv

----------------------------------------------------------------------------
(* What is true of the event loop *)

Waiting == [kind : Keys \cup {"motion", "resize"}, size : Sizes, lent : BOOLEAN]
Effects == {"edit", "copy", "quit"}

LoopTypes ==
  /\ at \in {"none", "top", "wait", "burst", "effects", "editor", "back"}
  /\ queue \in Seq(Waiting) /\ effects \in Seq(Effects)
  /\ size \in Sizes /\ area \in Sizes /\ drained \in 0 .. Burst
  /\ dirty \in BOOLEAN /\ shown \in BOOLEAN

\* A phase before the reviewer has no loop, and while it has the terminal is either the
\* loop's or the editor's.
Lent ==
  /\ phase \notin {"open", "ending", "ended", "cut short"} => at = "none"
  /\ phase = "open" => (terminal = "theirs" <=> at = "editor")

\* The last resize that waits brings the size there is; when none waits the model has it.
ResizeAt(i) == queue[i].kind = "resize"
LastResize(i) == ResizeAt(i) /\ \A j \in DOMAIN queue : j > i => ~ResizeAt(j)
NoResize == \A i \in DOMAIN queue : ~ResizeAt(i)
Measured ==
  /\ \A i \in DOMAIN queue : LastResize(i) => queue[i].size = size
  /\ NoResize => area = size

\* What is not on the screen is marked to be drawn, or waits to be; what a burst asks for
\* marked it.
Marked ==
  /\ at # "none" => shown \/ dirty \/ ~NoResize
  /\ at = "wait" => ~dirty
  /\ at \in {"none", "top", "wait"} => effects = <<>>
  /\ effects # <<>> \/ at \in {"editor", "back"} => dirty

\* What was typed at the editor waits for nobody but the editor.
Flushed ==
  /\ at \notin {"editor", "back"} => \A i \in DOMAIN queue : ~queue[i].lent
  /\ at = "burst" => queue # <<>>

\* A burst asks for no more than it reads.
Bounded ==
  /\ at = "burst" => drained < Burst /\ Len(effects) <= drained
  /\ Len(effects) <= Burst

LoopInv == LoopTypes /\ Lent /\ Measured /\ Marked /\ Flushed /\ Bounded

RunInv == CallInv /\ PrepareInv /\ LoopInv

----------------------------------------------------------------------------
(* Every step of a call keeps what is true of it *)

LEMMA OneMore ==
  ASSUME NEW S, NEW f \in [S -> Nat], NEW p \in S, NEW g, g = [f EXCEPT ![p] = @ + 1]
  PROVE  g \in [S -> Nat] /\ g[p] = f[p] + 1 /\ \A q \in S \ {p} : g[q] = f[q]
  OBVIOUS

LEMMA OneLess ==
  ASSUME NEW S, NEW f \in [S -> Nat], NEW p \in S, NEW g, g = [f EXCEPT ![p] = @ - 1], f[p] > 0
  PROVE  g \in [S -> Nat] /\ g[p] = f[p] - 1 /\ \A q \in S \ {p} : g[q] = f[q]
<1>1. f[p] - 1 \in Nat
  OBVIOUS
<1> QED
  BY <1>1

LEMMA Pipes == Output \subseteq Pipe /\ "in" \in Pipe \ Output /\ Room \in Nat \ {0}
  BY SizeAssumption DEF Pipe, Output

LEMMA EmptyAreTyped ==
  /\ Nothing \in [Pipe -> Nat] /\ (\A p \in Pipe : Nothing[p] <= Room)
  /\ Nowhere \in [Pipe -> SUBSET Holders] /\ Unheard \in [Output -> Nat]
  BY Pipes DEF Nothing, Nowhere, Unheard, Pipe

LEMMA CallStarts == Init => CallInv
<1> SUFFICES ASSUME CallInit PROVE CallInv
  BY DEF Init, PrepareInit
<1> USE DEF CallInit
<1>1. CallTypes /\ HasRoom
  BY EmptyAreTyped DEF CallTypes, HasRoom
<1>2. Conserved /\ LeftDry
  BY DEF Conserved, LeftDry, Output, Nowhere, Nothing, Unheard
<1>3. JoinedInOrder /\ Watched
  BY DEF JoinedInOrder, Watched, Output
<1> QED
  BY <1>1, <1>2, <1>3 DEF CallInv

LEMMA CallRests == ASSUME CallInv, UNCHANGED callVars PROVE CallInv'
  BY DEF CallInv, CallTypes, HasRoom, Conserved, LeftDry, JoinedInOrder, Watched, callVars

\* A byte into one of our pipes, or out of one.
LEMMA InByOne ==
  ASSUME CallInv, NEW p \in Pipe, pipe[p] < Room, pipe' = [pipe EXCEPT ![p] = @ + 1]
  PROVE  /\ pipe' \in [Pipe -> Nat] /\ HasRoom'
         /\ pipe'[p] = pipe[p] + 1 /\ \A q \in Pipe \ {p} : pipe'[q] = pipe[q]
<1>1. pipe \in [Pipe -> Nat] /\ HasRoom
  BY DEF CallInv, CallTypes
<1>2. /\ pipe' \in [Pipe -> Nat]
      /\ pipe'[p] = pipe[p] + 1 /\ \A q \in Pipe \ {p} : pipe'[q] = pipe[q]
  BY <1>1, OneMore
<1>3. pipe'[p] <= Room
  BY <1>1, <1>2, Pipes
<1> QED
  BY <1>1, <1>2, <1>3 DEF HasRoom

LEMMA OutByOne ==
  ASSUME CallInv, NEW p \in Pipe, pipe[p] > 0, pipe' = [pipe EXCEPT ![p] = @ - 1]
  PROVE  /\ pipe' \in [Pipe -> Nat] /\ HasRoom'
         /\ pipe'[p] = pipe[p] - 1 /\ \A q \in Pipe \ {p} : pipe'[q] = pipe[q]
<1>1. pipe \in [Pipe -> Nat] /\ HasRoom
  BY DEF CallInv, CallTypes
<1>2. /\ pipe' \in [Pipe -> Nat]
      /\ pipe'[p] = pipe[p] - 1 /\ \A q \in Pipe \ {p} : pipe'[q] = pipe[q]
  BY <1>1, OneLess
<1>3. pipe'[p] <= Room
  BY <1>1, <1>2, Pipes DEF HasRoom
<1> QED
  BY <1>1, <1>2, <1>3 DEF HasRoom

LEMMA SpawnKeeps == ASSUME CallInv, Spawn PROVE CallInv'
<1> USE DEF CallInv
<1>1. CASE /\ call' = "polling" /\ child' = "alive" /\ holds' = [p \in DOMAIN holds |-> {"child"}]
           /\ writer' = TRUE /\ reader' = [p \in Output |-> TRUE] /\ UNCHANGED answer
  <2>1. CallTypes' /\ HasRoom'
    BY <1>1 DEF Spawn, CallTypes, HasRoom, Holders
  <2> QED
    BY <1>1, <2>1 DEF Spawn, Conserved, LeftDry, JoinedInOrder, Watched
<1>2. CASE call' = "ended" /\ answer' = "io" /\ UNCHANGED <<child, holds, writer, reader>>
  BY <1>2 DEF Spawn, CallTypes, HasRoom, Conserved, LeftDry, JoinedInOrder, Watched
<1> QED
  BY <1>1, <1>2 DEF Spawn

LEMMA FeedKeeps == ASSUME CallInv, Feed PROVE CallInv'
<1> USE DEF CallInv
<1>1. CASE pipe["in"] < Room /\ pipe' = [pipe EXCEPT !["in"] = @ + 1] /\ UNCHANGED writer
  <2>1. pipe' \in [Pipe -> Nat] /\ HasRoom' /\ \A p \in Output : pipe'[p] = pipe[p]
    BY <1>1, InByOne, Pipes
  <2> QED
    BY <1>1, <2>1 DEF Feed, CallTypes, Conserved, LeftDry, JoinedInOrder, Watched
<1>2. CASE writer' = FALSE /\ UNCHANGED pipe
  BY <1>2 DEF Feed, CallTypes, HasRoom, Conserved, LeftDry, JoinedInOrder, Watched
<1> QED
  BY <1>1, <1>2 DEF Feed

LEMMA DrainKeeps == ASSUME CallInv, NEW p \in Output, Drain(p) PROVE CallInv'
<1> USE DEF CallInv
<1>1. CASE /\ pipe[p] > 0 /\ pipe' = [pipe EXCEPT ![p] = @ - 1]
           /\ heard' = [heard EXCEPT ![p] = @ + 1] /\ UNCHANGED reader
  <2>1. /\ pipe' \in [Pipe -> Nat] /\ HasRoom'
        /\ pipe'[p] = pipe[p] - 1 /\ \A q \in Pipe \ {p} : pipe'[q] = pipe[q]
    BY <1>1, OutByOne, Pipes
  <2>2. /\ heard' \in [Output -> Nat]
        /\ heard'[p] = heard[p] + 1 /\ \A q \in Output \ {p} : heard'[q] = heard[q]
    <3>1. heard \in [Output -> Nat] /\ heard' = [heard EXCEPT ![p] = @ + 1]
      BY <1>1 DEF CallTypes
    <3> QED
      BY <3>1, OneMore
  <2>3. CallTypes' /\ JoinedInOrder' /\ Watched'
    BY <1>1, <2>1, <2>2 DEF Drain, CallTypes, JoinedInOrder, Watched
  <2>4. Conserved'
    <3>1. heard'[p] + pipe'[p] = heard[p] + pipe[p]
      <4>1. heard[p] \in Nat /\ pipe[p] \in Nat
        BY Pipes DEF CallTypes
      <4> QED
        BY <2>1, <2>2, <4>1, Pipes
    <3> QED
      BY <3>1, <2>1, <2>2, Pipes DEF Drain, Conserved
  <2>5. LeftDry'
    BY <1>1, <2>1, Pipes DEF Drain, LeftDry
  <2> QED
    BY <2>1, <2>3, <2>4, <2>5
<1>2. CASE pipe[p] = 0 /\ holds[p] = {} /\ reader' = [reader EXCEPT ![p] = FALSE] /\ UNCHANGED <<pipe, heard>>
  <2>1. CallTypes' /\ HasRoom' /\ Conserved' /\ Watched'
    BY <1>2 DEF Drain, CallTypes, HasRoom, Conserved, Watched
  <2>2. \A q \in Output : ~reader'[q] => ~reader[q] \/ q = p
    BY <1>2 DEF CallTypes
  <2>3. LeftDry'
    BY <1>2, <2>2 DEF Drain, LeftDry
  <2>4. \A q \in Output : ~reader[q] => ~reader'[q]
    BY <1>2 DEF CallTypes
  <2>5. JoinedInOrder'
    BY <2>4 DEF Drain, JoinedInOrder, Output
  <2> QED
    BY <2>1, <2>3, <2>5
<1> QED
  BY <1>1, <1>2 DEF Drain

\* Whoever lets go of the pipes, what was heard stays heard and a dry pipe stays dry.
LEMMA LettingGo ==
  ASSUME CallInv, NEW who, holds' = Without(who), UNCHANGED <<pipe, said, heard, reader>>
  PROVE  holds' \in [Pipe -> SUBSET Holders] /\ HasRoom' /\ Conserved' /\ LeftDry'
<1>1. holds' \in [Pipe -> SUBSET Holders] /\ \A p \in Pipe : holds[p] = {} => holds'[p] = {}
  BY DEF CallInv, CallTypes, Without
<1>2. HasRoom' /\ Conserved'
  BY DEF CallInv, HasRoom, Conserved
<1>3. LeftDry'
  BY <1>1, Pipes DEF CallInv, LeftDry
<1> QED
  BY <1>1, <1>2, <1>3

LEMMA PollKeeps == ASSUME CallInv, Poll \/ PollFails PROVE CallInv'
<1> USE DEF CallInv, Poll, PollFails, GiveUp, Threads
<1>1. CallTypes'
  BY LettingGo DEF CallTypes
<1>2. HasRoom' /\ Conserved' /\ LeftDry'
  BY LettingGo DEF HasRoom, Conserved, LeftDry
<1>3. JoinedInOrder' /\ Watched'
  BY DEF JoinedInOrder, Watched
<1> QED
  BY <1>1, <1>2, <1>3

LEMMA JoinKeeps == ASSUME CallInv, Join PROVE CallInv'
<1> USE DEF CallInv, Join, Threads
<1>1. CallTypes' /\ HasRoom' /\ Conserved' /\ LeftDry'
  BY DEF CallTypes, HasRoom, Conserved, LeftDry
<1>2. JoinedInOrder' /\ Watched'
  BY DEF JoinedInOrder, Watched, CallTypes
<1> QED
  BY <1>1, <1>2

LEMMA ChildKeeps == ASSUME CallInv, Child PROVE CallInv'
<1> USE DEF CallInv, Threads
<1>1. CASE ChildReads
  <2>1. pipe' \in [Pipe -> Nat] /\ HasRoom' /\ \A p \in Output : pipe'[p] = pipe[p]
    BY <1>1, OutByOne, Pipes DEF ChildReads
  <2> QED
    BY <1>1, <2>1 DEF ChildReads, CallTypes, Conserved, LeftDry, JoinedInOrder, Watched
<1>2. CASE ChildForks
  <2>1. holds' \in [Pipe -> SUBSET Holders] /\ \A p \in Pipe : holds[p] = {} => holds'[p] = {}
    BY <1>2 DEF ChildForks, CallTypes
  <2>2. CallTypes' /\ HasRoom' /\ Conserved' /\ JoinedInOrder' /\ Watched'
    BY <1>2, <2>1 DEF ChildForks, CallTypes, HasRoom, Conserved, JoinedInOrder, Watched
  <2>3. LeftDry'
    BY <1>2, <2>1, Pipes DEF ChildForks, LeftDry
  <2> QED
    BY <2>2, <2>3
<1>3. CASE ChildCloses
  <2>1. holds' \in [Pipe -> SUBSET Holders] /\ \A p \in Output : holds'[p] = holds[p]
    BY <1>3, Pipes DEF ChildCloses, CallTypes
  <2> QED
    BY <1>3, <2>1 DEF ChildCloses, CallTypes, HasRoom, Conserved, LeftDry, JoinedInOrder, Watched
<1>4. CASE ChildExits
  <2>1. holds' \in [Pipe -> SUBSET Holders] /\ HasRoom' /\ Conserved' /\ LeftDry'
    BY <1>4, LettingGo DEF ChildExits
  <2> QED
    BY <1>4, <2>1 DEF ChildExits, CallTypes, JoinedInOrder, Watched
<1>5. CASE GrandchildEnds
  <2>1. holds' \in [Pipe -> SUBSET Holders] /\ HasRoom' /\ Conserved' /\ LeftDry'
    BY <1>5, LettingGo DEF GrandchildEnds
  <2> QED
    BY <1>5, <2>1 DEF GrandchildEnds, CallTypes, JoinedInOrder, Watched
<1>6. ASSUME NEW p \in Output, ChildSays(p) PROVE CallInv'
  <2>1. /\ pipe' \in [Pipe -> Nat] /\ HasRoom'
        /\ pipe'[p] = pipe[p] + 1 /\ \A q \in Pipe \ {p} : pipe'[q] = pipe[q]
    BY <1>6, InByOne, Pipes DEF ChildSays
  <2>2. /\ said' \in [Output -> Nat]
        /\ said'[p] = said[p] + 1 /\ \A q \in Output \ {p} : said'[q] = said[q]
    <3>1. said \in [Output -> Nat] /\ said' = [said EXCEPT ![p] = @ + 1]
      BY <1>6 DEF ChildSays, CallTypes
    <3> QED
      BY <3>1, OneMore
  <2>3. CallTypes' /\ JoinedInOrder' /\ Watched'
    BY <1>6, <2>1, <2>2 DEF ChildSays, CallTypes, JoinedInOrder, Watched
  <2>4. Conserved'
    <3>1. heard[p] + pipe'[p] = said'[p]
      <4>1. heard[p] \in Nat /\ pipe[p] \in Nat /\ heard[p] + pipe[p] = said[p]
        BY Pipes DEF CallTypes, Conserved
      <4> QED
        BY <2>1, <2>2, <4>1, Pipes
    <3> QED
      BY <1>6, <3>1, <2>1, <2>2, Pipes DEF ChildSays, Conserved
  <2>5. reader[p]
    BY <1>6 DEF ChildSays, LeftDry
  <2>6. LeftDry'
    BY <1>6, <2>1, <2>5, Pipes DEF ChildSays, LeftDry
  <2> QED
    BY <2>1, <2>3, <2>4, <2>6
<1> QED
  BY <1>1, <1>2, <1>3, <1>4, <1>5, <1>6 DEF Child

LEMMA DeadlineKeeps == ASSUME CallInv, DeadlinePasses PROVE CallInv'
  BY DEF DeadlinePasses, Threads, CallInv, CallTypes, HasRoom, Conserved, LeftDry, JoinedInOrder, Watched

\* The answer is taken when the threads are gone, ...
LEMMA ForgottenKeeps == ASSUME CallInv, call = "ended", Forgotten PROVE CallInv'
<1> USE DEF CallInv, Forgotten
<1>1. CallTypes' /\ HasRoom'
  BY EmptyAreTyped DEF CallTypes, HasRoom
<1>2. \A p \in Output : heard'[p] = 0 /\ said'[p] = 0 /\ pipe'[p] = 0 /\ holds'[p] = {}
  BY DEF Nowhere, Nothing, Unheard
<1>3. Conserved' /\ LeftDry'
  <2> HIDE DEF CallInv, Forgotten
  <2> QED
    BY <1>2 DEF Conserved, LeftDry
<1>4. JoinedInOrder' /\ Watched'
  BY DEF JoinedInOrder, Watched, Output
<1> QED
  BY <1>1, <1>3, <1>4

\* ... and a program that ends takes everything with it.
LEMMA TerminalFailsKeeps == ASSUME CallInv, TerminalFails PROVE CallInv'
<1> USE DEF CallInv, TerminalFails
<1>1. CallTypes' /\ HasRoom'
  BY EmptyAreTyped DEF CallTypes, HasRoom
<1>2. \A p \in Output : heard'[p] = 0 /\ said'[p] = 0 /\ pipe'[p] = 0 /\ holds'[p] = {}
  BY DEF Nowhere, Nothing, Unheard
<1>3. Conserved' /\ LeftDry'
  <2> HIDE DEF CallInv, TerminalFails
  <2> QED
    BY <1>2 DEF Conserved, LeftDry
<1>4. JoinedInOrder' /\ Watched'
  BY DEF JoinedInOrder, Watched, Output
<1> QED
  BY <1>1, <1>3, <1>4

LEMMA SplashCancelledKeeps == ASSUME CallInv, SplashCancelled PROVE CallInv'
  BY DEF SplashCancelled, Threads, CallInv, CallTypes, HasRoom, Conserved, LeftDry, JoinedInOrder, Watched

\* What a step of the run may do to a call.
CallStep ==
  \/ Feed \/ (\E p \in Output : Drain(p)) \/ Poll \/ Join \/ PollFails \/ DeadlinePasses \/ Child
  \/ Spawn \/ (call = "ended" /\ Forgotten) \/ TerminalFails \/ SplashCancelled
  \/ UNCHANGED callVars

LEMMA CallStepKeeps == ASSUME CallInv, CallStep PROVE CallInv'
  BY CallRests, SpawnKeeps, FeedKeeps, DrainKeeps, PollKeeps, JoinKeeps, ChildKeeps, DeadlineKeeps,
     ForgottenKeeps, TerminalFailsKeeps, SplashCancelledKeeps DEF CallStep

----------------------------------------------------------------------------
(* Every step of the pipeline and of the screen keeps what is true of them *)

LEMMA PhasesStart == Init => PrepareInv
<1> SUFFICES ASSUME PrepareInit PROVE PrepareInv
  BY DEF Init
<1> USE DEF PrepareInit, CallInit
<1>1. PhaseInv /\ Untold
  BY DEF PhaseInv, Untold, BeforeWorker, WithWorker, DuringSplash, AfterWorker
<1>2. Heard
  BY DEF Heard
<1>3. PickerInv
  <2>1. PICK d \in BOOLEAN : picker = [NoPicker EXCEPT !.tick = d, !.dirty = d]
    OBVIOUS
  <2>2. picker = [row |-> 0, tick |-> d, dirty |-> d]
    BY <2>1 DEF NoPicker
  <2>3. 0 \in 0 .. Commits - 1
    BY PickerAssumption
  <2> QED
    BY <2>2, <2>3 DEF PickerInv
<1> QED
  BY <1>1, <1>2, <1>3 DEF PrepareInv

\* A step of the call alone happens only while the agent is asked.
LEMMA CallOnlyAsked ==
  ASSUME PrepareInv, CallInv, UNCHANGED <<uiVars, worker, channel, told>>, call' = "idle" \/ call # "idle"
  PROVE  PrepareInv'
  BY DEF PrepareInv, PhaseInv, Heard, Untold, PickerInv, uiVars

\* Without a call there is nobody at a pipe.
LEMMA IdleStays ==
  ASSUME CallInv, Feed \/ (\E p \in Output : Drain(p)) \/ Poll \/ Join \/ PollFails \/ DeadlinePasses \/ Child
  PROVE  call' = "idle" \/ call # "idle"
  BY DEF Feed, Drain, Poll, Join, PollFails, DeadlinePasses, Child, GiveUp, ChildReads, ChildForks,
     ChildCloses, ChildExits, GrandchildEnds, ChildSays

LEMMA Appended ==
  ASSUME NEW S, NEW s \in Seq(S), NEW e \in S
  PROVE  /\ Append(s, e) \in Seq(S) /\ DOMAIN s = 1 .. Len(s) /\ Len(s) \in Nat
         /\ DOMAIN Append(s, e) = 1 .. Len(s) + 1 /\ Len(Append(s, e)) = Len(s) + 1
         /\ \A i \in 1 .. Len(s) : Append(s, e)[i] = s[i]
         /\ Append(s, e)[Len(s) + 1] = e
  OBVIOUS

\* Without its first member a sequence has the others, one place nearer.
LEMMA Shifted ==
  ASSUME NEW S, NEW s \in Seq(S), s # <<>>
  PROVE  /\ Head(s) = s[1] /\ Tail(s) \in Seq(S) /\ DOMAIN s = 1 .. Len(s)
         /\ Len(s) \in Nat \ {0} /\ Len(Tail(s)) = Len(s) - 1
         /\ DOMAIN Tail(s) = 1 .. Len(s) - 1
         /\ \A i \in 1 .. Len(s) - 1 : Tail(s)[i] = s[i + 1]
  OBVIOUS

\* What is sent is read in its turn.
LEMMA SentKeeps ==
  ASSUME Heard, NEW progress \in Progress, Sent(progress), progress = "asked" => told',
         told => told', UNCHANGED agent
  PROVE  Heard'
<1>1. CASE UNCHANGED channel
  BY <1>1 DEF Heard
<1>2. CASE channel' = Append(channel, progress)
  <2>1. /\ channel' \in Seq(Progress) /\ DOMAIN channel' = 1 .. Len(channel) + 1
        /\ DOMAIN channel = 1 .. Len(channel) /\ Len(channel) \in Nat
        /\ \A i \in 1 .. Len(channel) : channel'[i] = channel[i]
        /\ channel'[Len(channel) + 1] = progress
    BY <1>2, Appended DEF Heard
  <2>2. ASSUME NEW i \in DOMAIN channel', channel'[i] = "asked" PROVE told'
    <3>1. CASE i = Len(channel) + 1
      BY <2>1, <2>2, <3>1
    <3>2. CASE i \in DOMAIN channel
      BY <2>1, <2>2, <3>2 DEF Heard
    <3> QED
      BY <2>1, <3>1, <3>2
  <2>3. agent' = "asked" => told'
    BY DEF Heard
  <2> QED
    BY <2>1, <2>2, <2>3 DEF Heard
<1> QED
  BY <1>1, <1>2 DEF Sent

LEMMA PipelineKeeps ==
  ASSUME CallInv, PrepareInv, Pipeline \/ StageFails
  PROVE  PrepareInv'
<1> USE DEF PrepareInv, WorkerIs
<1>1. uiVars' = uiVars /\ (told => told')
  BY DEF Pipeline, Enumerate, Classify, NeedNotAsk, AskAgent, StartCall, AgentAnswered, OrderGroups,
     Deliver, StageFails
<1>2. PhaseInv'
  <2>1. worker' # worker \/ worker = "asking" => phase \in WithWorker
    BY DEF Pipeline, Enumerate, Classify, NeedNotAsk, AskAgent, StartCall, AgentAnswered, OrderGroups,
       Deliver, StageFails, PhaseInv, BeforeWorker, WithWorker, DuringSplash, AfterWorker
  <2>2. worker' # "asking" => call' = "idle"
    BY DEF Pipeline, Enumerate, Classify, NeedNotAsk, AskAgent, StartCall, AgentAnswered, OrderGroups,
       Deliver, StageFails, PhaseInv, Forgotten, callVars
  <2> QED
    BY <1>1, <2>1, <2>2 DEF PhaseInv, uiVars, BeforeWorker, WithWorker, DuringSplash, AfterWorker
<1>3. Heard'
  <2>1. CASE UNCHANGED channel
    BY <1>1, <2>1 DEF Heard, uiVars
  <2>2. CASE AskAgent
    <3>1. Heard /\ Sent("asked") /\ told' /\ UNCHANGED agent /\ "asked" \in Progress
      BY <1>1, <2>2 DEF AskAgent, uiVars, Progress
    <3> QED
      BY <3>1, SentKeeps, Zenon
  <2>3. ASSUME NEW progress \in {"enumerating", "classifying", "cached", "ordering", "done"},
               Sent(progress)
        PROVE  Heard'
    <3>1. Heard /\ UNCHANGED agent /\ progress \in Progress /\ progress # "asked"
      BY <1>1, <2>3 DEF uiVars, Progress
    <3> QED
      BY <1>1, <2>3, <3>1, SentKeeps, Zenon
  <2> QED
    BY <2>1, <2>2, <2>3 DEF Pipeline, Enumerate, Classify, NeedNotAsk, StartCall, AgentAnswered,
       OrderGroups, Deliver, StageFails
<1>4. Untold' /\ PickerInv'
  BY <1>1 DEF Untold, PickerInv, uiVars
<1> QED
  BY <1>2, <1>3, <1>4

\* What the screen's steps have in common: the call goes on, the worker and what was told
\* of stay, and the splash reads only what was sent.
LEMMA ScreenKeeps ==
  ASSUME CallInv, PrepareInv, Screen \/ CannotPick \/ PickerMoves \/ Picked \/ NotPicked
  PROVE  PrepareInv' /\ UNCHANGED callVars
<1> USE DEF PrepareInv, Rest
<1> USE DEF BeforeWorker, WithWorker, DuringSplash, AfterWorker
<1>1. CASE EnterTerminal
  BY <1>1 DEF EnterTerminal, PhaseInv, Heard, Untold, PickerInv, callVars
<1>2. CASE SpawnWorker
  BY <1>2 DEF SpawnWorker, PhaseInv, Heard, Untold, PickerInv, callVars
<1>3. CASE SplashReads
  <2>1. PhaseInv' /\ Untold' /\ PickerInv' /\ UNCHANGED <<callVars, told>>
    BY <1>3 DEF SplashReads, PhaseInv, Untold, PickerInv, callVars
  <2>2. /\ channel' \in Seq(Progress) /\ DOMAIN channel = 1 .. Len(channel) /\ Head(channel) = channel[1]
        /\ Len(channel) \in Nat \ {0} /\ DOMAIN channel' = 1 .. Len(channel) - 1
        /\ \A i \in 1 .. Len(channel) - 1 : channel'[i] = channel[i + 1]
    BY <1>3, Shifted DEF SplashReads, Heard
  <2>3. agent' = "asked" => agent = "asked" \/ channel[1] = "asked"
    BY <1>3, <2>2 DEF SplashReads
  <2>4. agent' = "asked" => told
    BY <2>2, <2>3 DEF Heard
  <2>5. ASSUME NEW i \in DOMAIN channel', channel'[i] = "asked" PROVE told
    <3>1. i + 1 \in DOMAIN channel /\ channel[i + 1] = "asked"
      BY <2>2, <2>5
    <3> QED
      BY <3>1 DEF Heard
  <2> QED
    BY <2>1, <2>2, <2>4, <2>5 DEF Heard
<1>4. CASE SplashHasRead
  BY <1>4 DEF SplashHasRead, PhaseInv, Heard, Untold, PickerInv, callVars
<1>5. CASE SplashIsOver
  <2>1. PhaseInv' /\ Untold' /\ PickerInv' /\ UNCHANGED <<callVars, told, agent>>
    BY <1>5 DEF SplashIsOver, WorkerIsFinished, PhaseInv, Untold, PickerInv, callVars
  <2>2. channel' = <<>> /\ DOMAIN channel' = {} /\ channel' \in Seq(Progress)
    BY <1>5 DEF SplashIsOver
  <2> QED
    BY <2>1, <2>2 DEF Heard
<1>6. CASE SplashDraws
  BY <1>6 DEF SplashDraws, PhaseInv, Heard, Untold, PickerInv, callVars
<1>7. CASE Cancelled
  BY <1>7 DEF Cancelled, WorkerIsFinished, PhaseInv, Heard, Untold, PickerInv, callVars
<1>8. CASE Joined
  BY <1>8 DEF Joined, PhaseInv, Heard, Untold, PickerInv, callVars
<1>9. CASE LeaveTerminal
  BY <1>9 DEF LeaveTerminal, PhaseInv, Heard, Untold, PickerInv, callVars
<1>10. CASE CannotPick \/ Picked \/ NotPicked
  <2>1. PhaseInv' /\ Heard' /\ Untold' /\ UNCHANGED callVars
    BY <1>10 DEF CannotPick, Picked, NotPicked, PhaseInv, Heard, Untold, callVars
  <2>2. ASSUME UNCHANGED picker PROVE PickerInv'
    BY <2>2 DEF PickerInv
  <2>3. ASSUME picker' = NoPicker PROVE PickerInv'
    <3>1. 0 \in 0 .. Commits - 1
      BY PickerAssumption
    <3> QED
      BY <2>3, <3>1 DEF PickerInv, NoPicker
  <2> QED
    BY <1>10, <2>1, <2>2, <2>3 DEF CannotPick, Picked, NotPicked
<1>11. CASE PickerMoves
  <2>1. PhaseInv' /\ Heard' /\ Untold' /\ UNCHANGED callVars
    BY <1>11 DEF PickerMoves, PhaseInv, Heard, Untold, callVars
  <2>2. picker.row \in Nat /\ picker.row < Commits /\ Commits \in Nat \ {0}
    BY PickerAssumption DEF PickerInv
  <2>3. Down(picker.row) \in 0 .. Commits - 1 /\ Up(picker.row) \in 0 .. Commits - 1
    BY <2>2 DEF Down, Up
  <2>4. ASSUME picker.dirty, picker' = [picker EXCEPT !.tick = ~@] PROVE PickerInv'
    BY <2>4 DEF PickerInv
  <2>5. ASSUME NEW r \in 0 .. Commits - 1, picker' = [picker EXCEPT !.row = r]
        PROVE  PickerInv'
    BY <2>5 DEF PickerInv
  <2>6. PickerInv'
    BY <1>11, <2>3, <2>4, <2>5 DEF PickerMoves
  <2> QED
    BY <2>1, <2>6
<1> QED
  BY <1>1, <1>2, <1>3, <1>4, <1>5, <1>6, <1>7, <1>8, <1>9, <1>10, <1>11 DEF Screen

\* The splash ends, or everything does, with whatever was on the channel.
LEMMA SplashGone == ASSUME NoSplash PROVE Heard'
<1>1. channel' = <<>> /\ DOMAIN channel' = {} /\ channel' \in Seq(Progress) /\ agent' # "asked"
  BY DEF NoSplash
<1> QED
  BY <1>1 DEF Heard

LEMMA EndingKeeps ==
  ASSUME PrepareInv, SplashCancelled \/ TerminalFails
  PROVE  PrepareInv'
<1> USE DEF PrepareInv, BeforeWorker, WithWorker, DuringSplash, AfterWorker
<1>1. CASE SplashCancelled
  BY <1>1, SplashGone DEF SplashCancelled, PhaseInv, Untold, PickerInv
<1>2. CASE TerminalFails
  BY <1>2, SplashGone DEF TerminalFails, PhaseInv, Untold, PickerInv
<1> QED
  BY <1>1, <1>2

\* Lending the terminal and leaving the loop.
LEMMA LoopPhases ==
  ASSUME CallInv, PrepareInv, Loop \/ (phase = "open" /\ (ForgeAnswers \/ EditorEnds))
         \/ (\E kind \in Keys \cup {"motion"} : Press(kind)) \/ (\E s \in Sizes : Resize(s))
  PROVE  PrepareInv' /\ UNCHANGED callVars
<1> USE DEF PrepareInv
<1>1. CASE Still
  <2>1. UNCHANGED <<callVars, phase, picker, current, agent, bar, terminal, notified, worker, channel, told>>
    BY <1>1 DEF Still, prepareVars, uiVars
  <2> QED
    BY <2>1 DEF callVars, PhaseInv, Heard, Untold, PickerInv
<1>2. CASE Edit \/ EditorEnds \/ Leave
  <2>1. phase = "open"
    BY <1>2 DEF Loop, Press, Resize
  <2>2. /\ UNCHANGED <<picker, current, agent, bar, notified, callVars, worker, channel, told>>
        /\ phase' = phase \/ (phase' = "ending" /\ UNCHANGED terminal)
    BY <1>2 DEF Edit, EditorEnds, Leave
  <2> QED
    BY <2>1, <2>2 DEF callVars, PhaseInv, Heard, Untold, PickerInv, BeforeWorker, WithWorker, DuringSplash, AfterWorker
<1> QED
  BY <1>1, <1>2 DEF Loop, Enter, Draw, Wake, Read, Copy, Back, Quit, Around, ForgeAnswers, Press, Resize

----------------------------------------------------------------------------
(* Every step of the event loop keeps what is true of it *)

LEMMA LoopStarts == Init => LoopInv
<1> SUFFICES ASSUME Init PROVE LoopInv
  OBVIOUS
<1>1. area \in Sizes /\ size = area
  BY LoopAssumption DEF Init
<1>2. LoopTypes
  <2>1. 0 \in 0 .. Burst /\ <<>> \in Seq(Waiting) /\ <<>> \in Seq(Effects)
    BY LoopAssumption
  <2> QED
    BY <1>1, <2>1 DEF Init, LoopTypes
<1>3. Lent
  BY DEF Init, PrepareInit, Lent
<1>4. Measured /\ Marked /\ Flushed
  BY <1>1 DEF Init, Measured, Marked, Flushed, LastResize, ResizeAt, NoResize
<1>5. Bounded
  BY LoopAssumption DEF Init, Bounded
<1> QED
  BY <1>2, <1>3, <1>4, <1>5 DEF LoopInv

\* Where the loop stands still, only the phase and the terminal may change.
LEMMA LoopRests == ASSUME LoopInv, UNCHANGED loopVars, Lent' PROVE LoopInv'
  BY DEF LoopInv, LoopTypes, Measured, Marked, Flushed, Bounded, loopVars, LastResize, ResizeAt, NoResize

LEMMA LentAside == ASSUME LoopInv, UNCHANGED <<phase, terminal, at>> PROVE Lent'
  BY DEF LoopInv, Lent

LEMMA LentToScreen ==
  ASSUME PrepareInv, LoopInv, UNCHANGED loopVars,
         Screen \/ CannotPick \/ PickerMoves \/ Picked \/ NotPicked \/ SplashCancelled \/ TerminalFails
  PROVE  Lent'
<1>1. at' = at /\ Lent /\ PhaseInv
  BY DEF loopVars, LoopInv, PrepareInv
<1>2. CASE SpawnWorker \/ SplashReads \/ SplashHasRead \/ SplashDraws \/ PickerMoves \/ Picked
  BY <1>1, <1>2 DEF SpawnWorker, SplashReads, SplashHasRead, SplashDraws, PickerMoves, Picked, Rest, Lent
<1>3. CASE EnterTerminal \/ SplashIsOver \/ Cancelled \/ CannotPick \/ NotPicked \/ SplashCancelled
  BY <1>1, <1>3 DEF EnterTerminal, SplashIsOver, Cancelled, CannotPick, NotPicked, SplashCancelled, Rest, Lent
<1>4. CASE Joined
  BY <1>1, <1>4 DEF Joined, Rest, Lent, PhaseInv
<1>5. CASE LeaveTerminal \/ TerminalFails
  BY <1>1, <1>5 DEF LeaveTerminal, TerminalFails, Rest, Lent
<1> QED
  BY <1>2, <1>3, <1>4, <1>5 DEF Screen

\* One more event: a key changes nothing of what the last resize says, a resize says it anew.
LEMMA EventArrives ==
  ASSUME LoopInv, NEW e \in Waiting, queue' = Append(queue, e),
         e.lent => at = "editor",
         \/ e.kind # "resize" /\ UNCHANGED <<size, shown>>
         \/ e.kind = "resize" /\ size' = e.size,
         UNCHANGED <<at, drained, effects, area, dirty, phase, terminal>>, shown' \in BOOLEAN
  PROVE  LoopInv'
<1> USE DEF LoopInv
<1>0. PICK n \in Nat : n = Len(queue)
  BY DEF LoopTypes
<1>1. /\ queue' \in Seq(Waiting) /\ DOMAIN queue = 1 .. n /\ n \in Nat
      /\ DOMAIN queue' = 1 .. n + 1 /\ queue'[n + 1] = e /\ Len(queue') = n + 1
      /\ \A i \in 1 .. n : queue'[i] = queue[i]
  BY <1>0, Appended DEF LoopTypes
<1>2. LoopTypes'
  BY <1>1 DEF LoopTypes, Waiting
<1>3. Lent' /\ Bounded'
  BY DEF Lent, Bounded
<1>4. ASSUME e.kind # "resize" PROVE Measured' /\ Marked'
  <2>1. \A i \in 1 .. n + 1 : ResizeAt(i)' <=> i \in 1 .. n /\ ResizeAt(i)
    BY <1>1, <1>4 DEF ResizeAt
  <2>2. NoResize' <=> NoResize
    BY <1>1, <2>1 DEF NoResize
  <2>3. \A i \in 1 .. n + 1 : LastResize(i)' => i \in 1 .. n /\ LastResize(i)
    BY <1>1, <2>1 DEF LastResize
  <2>4. Measured'
    BY <1>1, <1>4, <2>2, <2>3 DEF Measured
  <2>5. Marked'
    BY <1>4, <2>2 DEF Marked
  <2> QED
    BY <2>4, <2>5
<1>5. ASSUME e.kind = "resize" PROVE Measured' /\ Marked'
  <2>1. ResizeAt(n + 1)' /\ n + 1 \in DOMAIN queue'
    BY <1>1, <1>5 DEF ResizeAt
  <2>2. ~NoResize'
    BY <2>1 DEF NoResize
  <2>3. \A i \in 1 .. n + 1 : LastResize(i)' => i = n + 1
    BY <1>1, <2>1 DEF LastResize
  <2>4. Measured'
    BY <1>1, <1>5, <2>2, <2>3 DEF Measured
  <2>5. Marked'
    BY <1>5, <2>2 DEF Marked
  <2> QED
    BY <2>4, <2>5
<1>6. Measured' /\ Marked'
  BY <1>4, <1>5
<1>7. Flushed'
  <2>1. at' = "burst" => queue' # <<>>
    BY <1>1
  <2>2. ASSUME at' \notin {"editor", "back"}, NEW i \in DOMAIN queue' PROVE ~queue'[i].lent
    BY <1>1, <2>2 DEF Flushed
  <2> QED
    BY <2>1, <2>2 DEF Flushed
<1> QED
  BY <1>2, <1>3, <1>6, <1>7

LEMMA PressKeeps == ASSUME LoopInv, NEW kind \in Keys \cup {"motion"}, Press(kind) PROVE LoopInv'
<1>1. /\ Event(kind, size) \in Waiting /\ Event(kind, size).kind # "resize"
      /\ Event(kind, size).lent => at = "editor"
  BY DEF Event, Waiting, LoopInv, LoopTypes, Keys
<1>2. /\ queue' = Append(queue, Event(kind, size)) /\ shown' \in BOOLEAN
      /\ UNCHANGED <<size, shown, at, drained, effects, area, dirty, phase, terminal>>
  BY DEF Press, Still, prepareVars, uiVars, LoopInv, LoopTypes
<1> QED
  BY <1>1, <1>2, EventArrives

LEMMA ResizeKeeps == ASSUME LoopInv, NEW s \in Sizes, Resize(s) PROVE LoopInv'
<1>1. /\ Event("resize", s) \in Waiting /\ Event("resize", s).kind = "resize"
      /\ Event("resize", s).lent => at = "editor" /\ Event("resize", s).size = s
  BY DEF Event, Waiting
<1>2. /\ queue' = Append(queue, Event("resize", s)) /\ size' = s /\ shown' \in BOOLEAN
      /\ UNCHANGED <<at, drained, effects, area, dirty, phase, terminal>>
  BY DEF Resize, Still, prepareVars, uiVars
<1>3. size' = Event("resize", s).size
  BY <1>2 DEF Event
<1> QED
  BY <1>1, <1>2, <1>3, EventArrives

LEMMA ReadKeeps == ASSUME LoopInv, Read, UNCHANGED <<phase, terminal>> PROVE LoopInv'
<1> USE DEF LoopInv
<1>0. PICK n \in Nat : n = Len(queue)
  BY DEF LoopTypes
<1>1. queue # <<>>
  BY DEF Read, Flushed
<1>2. PICK e \in Waiting : e = Head(queue)
  BY <1>1, Shifted DEF LoopTypes
<1>3. /\ at = "burst" /\ queue' = Tail(queue) /\ drained' = drained + 1 /\ UNCHANGED <<quit, size>>
      /\ dirty' = (dirty \/ e.kind \in Keys \cup {"resize"})
      /\ shown' = (shown /\ e.kind \notin Keys \cup {"resize"})
      /\ area' = IF e.kind = "resize" THEN e.size ELSE area
      /\ effects' = IF e.kind \in {"edit", "copy", "quit"} THEN Append(effects, e.kind) ELSE effects
      /\ at' = IF drained' >= Burst \/ queue' = <<>> THEN "effects" ELSE at
  BY <1>2 DEF Read
<1>4. /\ queue' \in Seq(Waiting) /\ DOMAIN queue = 1 .. n /\ n # 0 /\ DOMAIN queue' = 1 .. n - 1
      /\ queue[1] = e /\ \A i \in 1 .. n - 1 : queue'[i] = queue[i + 1] /\ i + 1 \in 1 .. n
  BY <1>0, <1>1, <1>2, <1>3, Shifted DEF LoopTypes
<1>5. /\ effects' \in Seq(Effects)
      /\ Len(effects) \in Nat /\ Len(effects') \in Nat /\ Len(effects') <= Len(effects) + 1
      /\ effects' # <<>> => effects # <<>> \/ e.kind \in Keys
  <2>1. CASE e.kind \in Effects
    BY <1>3, <2>1, Appended DEF LoopTypes, Effects, Keys
  <2>2. CASE e.kind \notin Effects
    BY <1>3, <2>2 DEF LoopTypes, Effects
  <2> QED
    BY <2>1, <2>2
<1>6. drained \in Nat /\ drained < Burst /\ drained' \in 0 .. Burst /\ Burst \in Nat
  BY <1>3, LoopAssumption DEF LoopTypes, Bounded
<1>7. LoopTypes'
  <2>1. e.size \in Sizes /\ dirty' \in BOOLEAN /\ shown' \in BOOLEAN
    BY <1>3 DEF Waiting
  <2> QED
    BY <1>3, <1>4, <1>5, <1>6, <2>1 DEF LoopTypes
<1>8. Lent'
  BY <1>3 DEF Lent
<1>9. \A i \in 1 .. n - 1 : ResizeAt(i)' <=> ResizeAt(i + 1)
  BY <1>4 DEF ResizeAt
<1>10. ASSUME NoResize', NEW j \in 1 .. n, j # 1 PROVE ~ResizeAt(j)
  <2>1. j - 1 \in 1 .. n - 1 /\ (j - 1) + 1 = j
    BY <1>4, <1>10
  <2>2. ~ResizeAt(j - 1)'
    BY <1>4, <1>10, <2>1 DEF NoResize
  <2> QED
    BY <1>9, <2>1, <2>2
<1>11. Measured'
  <2>1. ASSUME NEW i \in DOMAIN queue', LastResize(i)' PROVE queue'[i].size = size'
    <3>1. \A j \in 1 .. n : j > i + 1 => j - 1 \in 1 .. n - 1 /\ j - 1 > i
      BY <1>4, <2>1
    <3>2. LastResize(i + 1)
      BY <1>4, <1>9, <2>1, <3>1, SMTT(30) DEF LastResize
    <3> QED
      BY <1>3, <1>4, <2>1, <3>2 DEF Measured
  <2>2. ASSUME NoResize' PROVE area' = size'
    <3>1. \A j \in 1 .. n : j # 1 => ~ResizeAt(j)
      BY <1>10, <2>2
    <3>2. CASE e.kind = "resize"
      <4>1. LastResize(1)
        BY <1>4, <3>1, <3>2 DEF LastResize, ResizeAt
      <4> QED
        BY <1>3, <1>4, <3>2, <4>1 DEF Measured
    <3>3. CASE e.kind # "resize"
      <4>1. NoResize
        BY <1>4, <3>1, <3>3 DEF NoResize, ResizeAt
      <4> QED
        BY <1>3, <3>3, <4>1 DEF Measured
    <3> QED
      BY <3>2, <3>3
  <2> QED
    BY <2>1, <2>2 DEF Measured
<1>12. Marked'
  <2>1. shown' \/ dirty' \/ ~NoResize'
    <3>1. CASE e.kind \in Keys \cup {"resize"}
      BY <1>3, <3>1
    <3>2. ASSUME e.kind \notin Keys \cup {"resize"}, NoResize' PROVE NoResize
      <4>1. \A j \in 1 .. n : j # 1 => ~ResizeAt(j)
        BY <1>10, <3>2
      <4> QED
        BY <1>4, <3>2, <4>1 DEF NoResize, ResizeAt
    <3> QED
      BY <1>3, <3>1, <3>2 DEF Marked
  <2>2. effects' # <<>> => dirty'
    BY <1>3, <1>5 DEF Marked
  <2> QED
    BY <1>3, <2>1, <2>2 DEF Marked
<1>13. Flushed'
  BY <1>3, <1>4 DEF Flushed
<1>14. Bounded'
  BY <1>3, <1>5, <1>6 DEF Bounded
<1> QED
  BY <1>7, <1>8, <1>11, <1>12, <1>13, <1>14

\* An effect is done and is no more.
LEMMA EffectDone ==
  ASSUME LoopInv, effects # <<>>
  PROVE  /\ Tail(effects) \in Seq(Effects) /\ Len(Tail(effects)) <= Burst /\ dirty
<1>1. effects \in Seq(Effects) /\ Len(effects) <= Burst /\ dirty
  BY DEF LoopInv, LoopTypes, Bounded, Marked
<1> QED
  BY <1>1, Shifted, LoopAssumption

LEMMA LoopKeeps ==
  ASSUME LoopInv, Loop \/ (phase = "open" /\ (ForgeAnswers \/ EditorEnds))
  PROVE  LoopInv'
<1> USE DEF LoopInv
<1>0. phase = "open"
  BY DEF Loop
<1>1. CASE Enter
  <2>1. /\ at = "none" /\ at' = "top" /\ area' = size /\ dirty' = TRUE /\ shown' = FALSE
        /\ UNCHANGED <<queue, drained, effects, size, phase, terminal>>
    BY <1>1 DEF Enter, Still, prepareVars, uiVars
  <2>2. LoopTypes' /\ Lent' /\ Flushed' /\ Bounded'
    BY <1>0, <2>1 DEF LoopTypes, Lent, Flushed, Bounded
  <2>3. Measured'
    BY <2>1 DEF Measured, LastResize, ResizeAt, NoResize
  <2>4. Marked'
    BY <2>1 DEF Marked
  <2> QED
    BY <2>2, <2>3, <2>4
<1>2. CASE ForgeAnswers \/ Draw \/ Around
  <2>1. /\ UNCHANGED <<queue, drained, effects, size, area, phase, terminal>>
        /\ at \in {"top", "effects"} /\ at' \in {"top", "wait"} /\ dirty' \in BOOLEAN /\ shown' \in BOOLEAN
        /\ effects = <<>> /\ (at' = "wait" => ~dirty') /\ (shown \/ dirty => shown' \/ dirty')
    BY <1>2 DEF ForgeAnswers, Draw, Around, Still, prepareVars, uiVars, LoopTypes, Marked
  <2>2. LoopTypes' /\ Lent'
    BY <1>0, <2>1 DEF LoopTypes, Lent
  <2>5. Flushed' /\ Bounded'
    BY <2>1 DEF Flushed, Bounded
  <2>3. Measured' /\ (NoResize' <=> NoResize)
    BY <2>1 DEF Measured, LastResize, ResizeAt, NoResize
  <2>4. Marked'
    BY <2>1, <2>3 DEF Marked
  <2> QED
    BY <2>2, <2>3, <2>4, <2>5
<1>3. CASE Wake
  <2>1. /\ UNCHANGED <<queue, size, area, dirty, shown, phase, terminal>>
        /\ at = "wait" /\ at' = IF queue = <<>> THEN "top" ELSE "burst"
        /\ drained' = 0 /\ effects' = <<>>
    BY <1>3 DEF Wake, Still, prepareVars, uiVars
  <2>2. 0 \in 0 .. Burst /\ 0 < Burst /\ <<>> \in Seq(Effects) /\ Len(<<>>) = 0 /\ 0 <= Burst
    BY LoopAssumption
  <2>3. LoopTypes' /\ Lent' /\ Flushed' /\ Bounded'
    BY <1>0, <2>1, <2>2 DEF LoopTypes, Lent, Flushed, Bounded
  <2>4. Measured' /\ (NoResize' <=> NoResize)
    BY <2>1 DEF Measured, LastResize, ResizeAt, NoResize
  <2>5. Marked'
    BY <2>1, <2>4 DEF Marked
  <2> QED
    BY <2>3, <2>4, <2>5
<1>4. CASE Read
  BY <1>4, ReadKeeps DEF Read, Still, prepareVars, uiVars
<1>5. CASE Copy \/ Edit \/ Quit
  <2>1. /\ at = "effects" /\ at' \in {"effects", "editor", "back"} /\ effects' = Tail(effects) /\ effects # <<>>
        /\ UNCHANGED <<queue, drained, size, area, dirty, phase>> /\ shown' \in BOOLEAN
        /\ (at' # "editor" /\ UNCHANGED terminal) \/ (at' = "editor" /\ terminal' = "theirs")
    BY <1>5 DEF Copy, Edit, Quit, Still, prepareVars, uiVars, LoopTypes
  <2>2. LoopTypes' /\ Lent' /\ Flushed' /\ Bounded'
    BY <1>0, <2>1, EffectDone DEF LoopTypes, Lent, Flushed, Bounded
  <2>3. Measured'
    BY <2>1 DEF Measured, LastResize, ResizeAt, NoResize
  <2>4. Marked'
    BY <2>1, EffectDone DEF Marked
  <2> QED
    BY <2>2, <2>3, <2>4
<1>6. CASE EditorEnds
  <2>1. /\ at = "editor" /\ at' = "back" /\ terminal' = "ours" /\ shown' = FALSE
        /\ UNCHANGED <<queue, drained, effects, size, area, dirty, phase>>
    BY <1>6 DEF EditorEnds
  <2>2. LoopTypes' /\ Lent' /\ Flushed' /\ Bounded'
    BY <1>0, <2>1 DEF LoopTypes, Lent, Flushed, Bounded
  <2>3. Measured' /\ Marked'
    BY <2>1 DEF Measured, Marked, LastResize, ResizeAt, NoResize
  <2> QED
    BY <2>2, <2>3
<1>7. CASE Back
  <2>1. /\ at = "back" /\ at' = "effects" /\ queue' = <<>> /\ area' = size /\ dirty' = TRUE /\ shown' = FALSE
        /\ UNCHANGED <<drained, effects, size, phase, terminal>> /\ DOMAIN queue' = {} /\ queue' \in Seq(Waiting)
    BY <1>7 DEF Back, Still, prepareVars, uiVars
  <2>2. LoopTypes' /\ Lent' /\ Flushed' /\ Bounded'
    BY <1>0, <2>1 DEF LoopTypes, Lent, Flushed, Bounded
  <2>3. Measured' /\ Marked'
    BY <2>1 DEF Measured, Marked, LastResize, ResizeAt, NoResize
  <2> QED
    BY <2>2, <2>3
<1>8. CASE Leave
  BY <1>8, LoopRests DEF Leave, Lent, loopVars
<1> QED
  BY <1>1, <1>2, <1>3, <1>4, <1>5, <1>6, <1>7, <1>8 DEF Loop

----------------------------------------------------------------------------
(* The run *)

LEMMA RunStarts == Init => RunInv
  BY CallStarts, PhasesStart, LoopStarts DEF RunInv

LEMMA RunKeeps == ASSUME RunInv, [Next]_vars PROVE RunInv'
<1> USE DEF RunInv
<1>1. CASE (Feed \/ (\E p \in Output : Drain(p)) \/ Poll \/ Join \/ PollFails \/ DeadlinePasses \/ Child) /\ Aside
  <2>1. CallInv'
    BY <1>1, CallStepKeeps DEF CallStep
  <2>2. UNCHANGED <<uiVars, worker, channel, told, loopVars>>
    BY <1>1 DEF Aside
  <2>3. PrepareInv'
    BY <1>1, <2>2, IdleStays, CallOnlyAsked
  <2>4. UNCHANGED <<phase, terminal, at>>
    BY <2>2 DEF uiVars, loopVars
  <2> QED
    BY <2>1, <2>2, <2>3, <2>4, LentAside, LoopRests
<1>2. CASE (Pipeline \/ StageFails) /\ UNCHANGED loopVars
  <2>1. CallStep /\ UNCHANGED <<phase, terminal, at>>
    BY <1>2 DEF CallStep, Pipeline, Enumerate, Classify, NeedNotAsk, AskAgent, StartCall, AgentAnswered,
       OrderGroups, Deliver, StageFails, WorkerIs, uiVars, loopVars
  <2> QED
    BY <1>2, <2>1, CallStepKeeps, PipelineKeeps, LentAside, LoopRests
<1>3. CASE (Screen \/ CannotPick \/ PickerMoves \/ Picked \/ NotPicked) /\ UNCHANGED loopVars
  BY <1>3, ScreenKeeps, CallRests, LentToScreen, LoopRests
<1>4. CASE (SplashCancelled \/ TerminalFails) /\ UNCHANGED loopVars
  BY <1>4, EndingKeeps, SplashCancelledKeeps, TerminalFailsKeeps, LentToScreen, LoopRests
<1>5. CASE Loop \/ (phase = "open" /\ (ForgeAnswers \/ EditorEnds))
  BY <1>5, LoopPhases, CallRests, LoopKeeps
<1>6. CASE (\E kind \in Keys \cup {"motion"} : Press(kind)) \/ (\E s \in Sizes : Resize(s))
  BY <1>6, LoopPhases, CallRests, PressKeeps, ResizeKeeps
<1>7. CASE UNCHANGED vars
  <2>1. UNCHANGED <<callVars, uiVars, worker, channel, told, loopVars>>
    BY <1>7 DEF vars, prepareVars
  <2>2. UNCHANGED <<phase, terminal, at>>
    BY <2>1 DEF uiVars, loopVars
  <2>3. PrepareInv'
    BY <2>1 DEF PrepareInv, PhaseInv, Heard, Untold, PickerInv, uiVars, callVars
  <2> QED
    BY <2>1, <2>2, <2>3, CallRests, LentAside, LoopRests
<1> QED
  BY <1>1, <1>2, <1>3, <1>4, <1>5, <1>6, <1>7 DEF Next

LEMMA RunIsInvariant == Spec => []RunInv
<1>1. Init => RunInv
  BY RunStarts
<1>2. RunInv /\ [Next]_vars => RunInv'
  BY RunKeeps
<1> QED
  BY <1>1, <1>2, PTL DEF Spec

\* Every part of a run keeps its type: pipes never hold more than their room, and the
\* terminal is lent only while an editor has it.
THEOREM RunKeepsTypes == Spec => []TypeOK
<1>1. RunInv => TypeOK
  <2> SUFFICES ASSUME RunInv PROVE TypeOK
    OBVIOUS
  <2>1. CallTypes /\ HasRoom /\ Conserved /\ PickerInv /\ Lent /\ LoopTypes /\ Bounded
    BY DEF RunInv, CallInv, PrepareInv, LoopInv
  <2>2. \A p \in DOMAIN pipe : pipe[p] \in 0 .. Room /\ holds[p] \subseteq Holders
    <3>1. DOMAIN pipe = Pipe /\ pipe \in [Pipe -> Nat] /\ holds \in [Pipe -> SUBSET Holders]
      BY <2>1 DEF CallTypes
    <3> QED
      BY <2>1, <3>1, Pipes DEF HasRoom
  <2>3. picker.row \in 0 .. Commits - 1
    BY <2>1 DEF PickerInv
  <2> QED
    BY <2>1, <2>2, <2>3 DEF CallTypes, Conserved, PickerInv, Lent, LoopTypes, Bounded, TypeOK
<1> QED
  BY <1>1, RunIsInvariant, PTL

\* However the child, the pipes and our three threads take turns, what a finished call
\* has heard is all that was said on either output (`subprocess::run`).
THEOREM AnswersAreWhole == Spec => []WholeAnswer
<1>1. RunInv => WholeAnswer
  <2> SUFFICES ASSUME RunInv, call = "ended" PROVE heard = said
    BY DEF WholeAnswer
  <2>1. \A p \in Output : heard[p] \in Nat /\ said[p] \in Nat /\ heard[p] + pipe[p] = said[p]
    BY DEF RunInv, CallInv, CallTypes, Conserved
  <2>2. \A p \in Output : pipe[p] = 0
    BY DEF RunInv, CallInv, LeftDry, JoinedInOrder, Output
  <2>3. \A p \in Output : heard[p] = said[p]
    BY <2>1, <2>2
  <2> QED
    BY <2>3 DEF RunInv, CallInv, CallTypes
<1> QED
  BY <1>1, RunIsInvariant, PTL

\* However a run ends by its own means, from the picker, the splash, the pipeline or the
\* reviewer, nothing it started is left (`review_in`, `TerminalSession`, `Bar`).
THEOREM NothingIsLeft == Spec => []NothingLeft
<1>1. RunInv => NothingLeft
  <2> SUFFICES ASSUME RunInv, phase = "ended"
               PROVE  /\ child \in {"none", "reaped"} /\ ~writer /\ \A p \in Output : ~reader[p]
                      /\ terminal = "theirs" /\ bar = "clear"
    BY DEF NothingLeft
  <2>1. worker # "asking" /\ terminal = "theirs" /\ bar = "clear"
    BY DEF RunInv, PrepareInv, PhaseInv, AfterWorker, DuringSplash
  <2>2. call = "idle"
    BY <2>1 DEF RunInv, PrepareInv, PhaseInv
  <2> QED
    BY <2>1, <2>2 DEF RunInv, CallInv, JoinedInOrder, Watched, Output
<1> QED
  BY <1>1, RunIsInvariant, PTL

\* The reader is told of success and of failure only when it is so, and only if an agent
\* was waited for (`review_in`).
THEOREM ReaderIsToldTrue == Spec => []ToldTrue
<1>1. RunInv => ToldTrue
  BY DEF RunInv, PrepareInv, Untold, ToldTrue
<1> QED
  BY <1>1, RunIsInvariant, PTL

\* However resizes, keys, answers of the forge and trips to the editor fall between the
\* bursts, a loop with nothing to read has drawn the model at the size there is, and what
\* was typed at the editor reaches nobody else (`run_app`).
THEOREM LoopIsInStep == Spec => []InStep
<1>1. RunInv => InStep
  <2> SUFFICES ASSUME RunInv PROVE InStep
    OBVIOUS
  <2>1. at = "wait" /\ queue = <<>> => shown /\ area = size
    <3>1. queue = <<>> => NoResize
      BY DEF NoResize
    <3> QED
      BY <3>1 DEF RunInv, LoopInv, Measured, Marked
  <2>2. at = "burst" => ~Head(queue).lent
    <3> SUFFICES ASSUME at = "burst" PROVE ~Head(queue).lent
      OBVIOUS
    <3>1. queue \in Seq(Waiting) /\ queue # <<>> /\ \A i \in DOMAIN queue : ~queue[i].lent
      BY DEF RunInv, LoopInv, LoopTypes, Flushed
    <3>2. Head(queue) = queue[1] /\ 1 \in DOMAIN queue
      BY <3>1, Shifted
    <3> QED
      BY <3>1, <3>2
  <2> QED
    BY <2>1, <2>2 DEF InStep
<1> QED
  BY <1>1, RunIsInvariant, PTL

-----------------------------------------------------------------------------
(* The table of default keys *)

Words == {"timeout_secs", "context", "context_step", "editor", "agent", "theme", "diff"}
Short(keys) == \E S : keys \in Seq(Seq(S))

LEMMA RowParts ==
  ASSUME NEW action, NEW screens, NEW keys
  PROVE  /\ Row(action, screens, keys).action = action
         /\ Row(action, screens, keys).screens = screens
         /\ Row(action, screens, keys).keys = keys
BY DEF Row

LEMMA OneIsShort == ASSUME NEW key PROVE Short(One(key))
<1>1. <<<<key>>>> \in Seq(Seq({key}))
  OBVIOUS
<1> QED BY <1>1 DEF Short, One

LEMMA OrIsShort == ASSUME NEW key, NEW other PROVE Short(Or(key, other))
<1>1. <<<<key>>, <<other>>>> \in Seq(Seq({key, other}))
  OBVIOUS
<1> QED BY <1>1 DEF Short, Or

LEMMA TwiceIsShort == ASSUME NEW key PROVE Short(<<<<key, key>>>>)
<1>1. <<<<key, key>>>> \in Seq(Seq({key}))
  OBVIOUS
<1> QED BY <1>1 DEF Short

LEMMA TableIs == Table = 1 .. 36
BY DEF Table, Defaults

LEMMA TableHas ==
  Table = {1, 2, 3, 4, 5, 6, 7, 8, 9, 10, 11, 12, 13, 14, 15, 16, 17, 18,
                 19, 20, 21, 22, 23, 24, 25, 26, 27, 28, 29, 30, 31, 32, 33, 34, 35, 36}
BY TableIs

LEMMA RowsAreShort == \A row \in Table : Short(Defaults[row].keys)
<1> SUFFICES ASSUME NEW row \in Table PROVE Short(Defaults[row].keys)
  OBVIOUS
<1> QED BY TableHas, RowParts, OneIsShort, OrIsShort, TwiceIsShort, SMTT(60) DEF Defaults

LEMMA NoActionIsAField == \A row \in Table : Defaults[row].action \notin Words
<1> SUFFICES ASSUME NEW row \in Table PROVE Defaults[row].action \notin Words
  OBVIOUS
<1> QED BY TableHas, RowParts, SMTT(60) DEF Defaults, Words

-----------------------------------------------------------------------------
(* What a table binds *)

\* The keys among some texts, each read press by press.
KeysAmong(texts) == {Parse(texts[i]) : i \in 1 .. Len(texts)}
AddKey(out, text) ==
  IF IsBinding(text) /\ ~IsReserved(Parse(text)) /\ Parse(text) \notin ToSet(out)
  THEN Append(out, Parse(text)) ELSE out

LEMMA ParsedAreTheTexts ==
  ASSUME NEW S, NEW texts \in Seq(S)
  PROVE  Parsed(texts) \in Seq(KeysAmong(texts))
<1> DEFINE N == Len(texts)
           V == Seq(KeysAmong(texts))
           none == <<>>
           G == [n \in Nat |-> [out \in V |-> IF n \in 1 .. N THEN AddKey(out, texts[n]) ELSE out]]
           Def(f) == [n \in 0 .. Len(texts) |-> IF n = 0 THEN <<>> ELSE AddKey(f[n - 1], texts[n])]
           upto == CHOOSE f : f = Def(f)
<1>1. N \in Nat /\ none \in V
  OBVIOUS
<1>2. ASSUME NEW n \in 1 .. N, NEW out \in V PROVE AddKey(out, texts[n]) \in V
  <2>1. Parse(texts[n]) \in KeysAmong(texts)
    BY DEF KeysAmong
  <2> HIDE DEF N
  <2> QED BY <2>1 DEF AddKey
<1>3. G \in Steps(V)
  <2>1. ASSUME NEW n \in Nat, NEW out \in V
        PROVE  (IF n \in 1 .. N THEN AddKey(out, texts[n]) ELSE out) \in V
    <3> HIDE DEF V, N
    <3> QED BY <1>2
  <2> HIDE DEF V, N
  <2> QED BY <2>1 DEF Steps
<1> HIDE DEF V, none
<1>4. PICK f : IsPass(f, N, V, none, G)
  <2> HIDE DEF G, N
  <2> QED BY <1>1, <1>3, Recursion
<1>5. f \in [0 .. N -> V] /\ f[0] = none /\ \A n \in 1 .. N : f[n] = G[n][f[n - 1]]
  BY <1>4 DEF IsPass
<1>6. ASSUME NEW n \in 1 .. N PROVE f[n] = AddKey(f[n - 1], texts[n])
  <2>1. n \in Nat /\ n - 1 \in 0 .. N
    BY <1>1
  <2>2. f[n - 1] \in V
    BY <2>1, <1>5
  <2>3. f[n] = G[n][f[n - 1]]
    BY <1>5
  <2> HIDE DEF N
  <2> QED BY <2>1, <2>2, <2>3
<1>7. f = Def(f)
  <2>1. ASSUME NEW n \in 0 .. N PROVE f[n] = IF n = 0 THEN <<>> ELSE AddKey(f[n - 1], texts[n])
    <3>1. CASE n = 0
      BY <3>1, <1>5 DEF none
    <3>2. CASE n # 0
      BY <3>2, <1>1, <1>6
    <3> QED BY <3>1, <3>2
  <2>2. f = [n \in 0 .. N |-> f[n]]
    <3> HIDE DEF N
    <3> QED BY <1>5
  <2> QED BY <2>1, <2>2
<1>8. upto = Def(upto)
  <2> HIDE DEF Def
  <2> QED BY <1>7
<1>9. Parsed(texts) = upto[N]
  BY DEF Parsed, AddKey
<1> HIDE DEF upto
<1> DEFINE T == {n \in 0 .. N : upto[n] \in V}
<1>10. \A n \in 0 .. N : n \in T
  <2>1. 0 \in T
    <3>1. upto[0] = none
      BY <1>1, <1>8 DEF none
    <3> QED BY <3>1, <1>1
  <2>2. ASSUME NEW n \in 0 .. (N - 1), n \in T PROVE n + 1 \in T
    <3>1. n + 1 \in 0 .. Len(texts) /\ n + 1 \in 1 .. N /\ n + 1 # 0 /\ (n + 1) - 1 = n
      BY <1>1
    <3>2. upto[n + 1] = AddKey(upto[(n + 1) - 1], texts[n + 1])
      BY <3>1, <1>8
    <3>3. upto[n + 1] = AddKey(upto[n], texts[n + 1])
      BY <3>1, <3>2
    <3>4. upto[n + 1] \in V
      <4> HIDE DEF N
      <4> QED BY <2>2, <3>1, <3>3, <1>2
    <3> QED BY <3>1, <3>4
  <2> HIDE DEF T
  <2> QED BY <2>1, <2>2, <1>1, ByInduction
<1> QED
  <2>1. N \in 0 .. N
    BY <1>1
  <2>2. upto[N] \in V
    BY <2>1, <1>10
  <2> QED BY <2>2, <1>9 DEF V

-----------------------------------------------------------------------------
(* Finite sets of what finitely many things are taken to *)

LEMMA ValuesAreFinite ==
  ASSUME NEW S, IsFiniteSet(S), NEW f, f = [x \in S |-> f[x]]
  PROVE  IsFiniteSet({f[x] : x \in S})
<1> DEFINE T == {f[x] : x \in S}
<1>1. f \in [S -> T] /\ \A y \in T : \E x \in S : f[x] = y
  BY Zenon
<1> HIDE DEF T
<1>2. f \in Surjection(S, T)
  BY <1>1 DEF Surjection
<1>3. IsFiniteSet(T)
  BY <1>2, FS_Surjection
<1> QED BY <1>3 DEF T

LEMMA UpToIsFinite == ASSUME NEW n \in Nat PROVE IsFiniteSet(1 .. n)
<1>1. 1 \in Int /\ n \in Int
  OBVIOUS
<1> QED BY <1>1, FS_Interval

LEMMA MembersAreFinite ==
  ASSUME NEW S, NEW s \in Seq(S)
  PROVE  IsFiniteSet(ToSet(s)) /\ ToSet(s) \subseteq S
<1>1. s = [i \in 1 .. Len(s) |-> s[i]] /\ Len(s) \in Nat /\ DOMAIN s = 1 .. Len(s)
  OBVIOUS
<1>2. IsFiniteSet(1 .. Len(s))
  BY <1>1, UpToIsFinite
<1>3. IsFiniteSet({s[i] : i \in 1 .. Len(s)})
  BY <1>1, <1>2, ValuesAreFinite
<1> QED BY <1>1, <1>3 DEF ToSet

-----------------------------------------------------------------------------
(* A list of texts, each of them presses *)

Texts(list) == list \in Seq(ToSet(list)) /\ \A text \in ToSet(list) : text \in Seq(ToSet(text))

LEMMA OwnMembers ==
  ASSUME NEW S, NEW s \in Seq(S)
  PROVE  s \in Seq(ToSet(s))
<1>1. s \in [1 .. Len(s) -> ToSet(s)] /\ Len(s) \in Nat
  BY DEF ToSet
<1> QED BY <1>1

LEMMA ShortIsTexts == ASSUME NEW list, Short(list) PROVE Texts(list)
<1>1. PICK S : list \in Seq(Seq(S))
  BY DEF Short
<1>2. ToSet(list) \subseteq Seq(S)
  BY <1>1 DEF ToSet
<1>3. list \in Seq(ToSet(list))
  BY <1>1, OwnMembers
<1>4. ASSUME NEW text \in ToSet(list) PROVE text \in Seq(ToSet(text))
  BY <1>2, <1>4, OwnMembers
<1> QED BY <1>3, <1>4 DEF Texts

LEMMA CanonIsItself == \A word : Canon(Canon(word)) = Canon(word)
BY KeymapAssumption DEF Canon, KeymapAssumption

LEMMA ParsePresses ==
  ASSUME NEW text, text \in Seq(ToSet(text))
  PROVE  /\ Parse(text) \in Seq(ToSet(Parse(text))) /\ Len(Parse(text)) = Len(text)
         /\ \A i \in 1 .. Len(text) : Canon(Parse(text)[i]) = Parse(text)[i]
<1> DEFINE V == {Canon(text[i]) : i \in 1 .. Len(text)}
<1>1. DOMAIN text = 1 .. Len(text) /\ Len(text) \in Nat
  OBVIOUS
<1>2. Parse(text) = [i \in 1 .. Len(text) |-> Canon(text[i])]
  BY <1>1 DEF Parse
<1>3. Parse(text) \in Seq(V) /\ Len(Parse(text)) = Len(text)
  BY <1>1, <1>2
<1>4. \A i \in 1 .. Len(text) : Canon(Parse(text)[i]) = Parse(text)[i]
  BY <1>2, CanonIsItself
<1>5. Parse(text) \in Seq(ToSet(Parse(text)))
  <2> HIDE DEF V
  <2> QED BY <1>3, OwnMembers
<1> QED BY <1>3, <1>4, <1>5

-----------------------------------------------------------------------------
(* The keys a table binds *)

\* A binding: at least nothing pressed is spelt another way.
IsKeys(k) == k \in Seq(ToSet(k)) /\ \A i \in 1 .. Len(k) : Canon(k[i]) = k[i]

LEMMA GivenIsTexts == ASSUME NEW t \in KeyTables, NEW row \in Table PROVE Texts(Given(t, row))
<1> DEFINE action == Defaults[row].action
<1>1. DOMAIN t = ToSet(KeyRows) /\ \A a \in ToSet(KeyRows) : t[a] \in KeyLists(a)
  BY DEF KeyTables
<1>2. CASE action \in DOMAIN t /\ t[action] # Unset
  <2>1. t[action] \in KeyLists(action) /\ t[action] # Unset /\ action \in ToSet(KeyRows)
    BY <1>1, <1>2
  <2>2. PICK text \in Typed[action] : t[action] = text[2]
    BY <2>1 DEF KeyLists
  <2>3. Texts(text[2])
    BY <2>1, <2>2, SettingsAssumption DEF SettingsAssumption, Texts
  <2>4. Given(t, row) = t[action]
    BY <1>2 DEF Given
  <2> QED BY <2>2, <2>3, <2>4
<1>3. CASE ~(action \in DOMAIN t /\ t[action] # Unset)
  <2>1. Given(t, row) = Defaults[row].keys
    BY <1>3 DEF Given
  <2> QED BY <2>1, RowsAreShort, ShortIsTexts
<1> QED BY <1>2, <1>3

LEMMA BoundIsKeys ==
  ASSUME NEW t \in KeyTables, NEW row \in Table
  PROVE  /\ Bound(t)[row] \in Seq(ToSet(Bound(t)[row])) /\ IsFiniteSet(ToSet(Bound(t)[row]))
         /\ \A k \in ToSet(Bound(t)[row]) : IsKeys(k)
<1> DEFINE g == Given(t, row)
<1>1. Texts(g)
  BY GivenIsTexts
<1>2. g \in Seq(ToSet(g)) /\ \A i \in 1 .. Len(g) : g[i] \in Seq(ToSet(g[i]))
  BY <1>1 DEF Texts, ToSet
<1> HIDE DEF g
<1>3. Parsed(g) \in Seq(KeysAmong(g))
  BY <1>2, ParsedAreTheTexts
<1>4. Bound(t)[row] = Parsed(g)
  BY DEF Bound, g
<1>5. ASSUME NEW k \in KeysAmong(g) PROVE IsKeys(k)
  <2>1. PICK i \in 1 .. Len(g) : k = Parse(g[i])
    BY DEF KeysAmong
  <2> QED BY <2>1, <1>2, ParsePresses DEF IsKeys
<1>6. IsFiniteSet(ToSet(Parsed(g))) /\ ToSet(Parsed(g)) \subseteq KeysAmong(g)
  BY <1>3, MembersAreFinite
<1>7. Parsed(g) \in Seq(ToSet(Parsed(g)))
  BY <1>3, OwnMembers
<1> QED BY <1>4, <1>5, <1>6, <1>7

-----------------------------------------------------------------------------
(* Everything wrong with a table is finitely much, so none of it is nothing *)

LEMMA TableIsFinite == IsFiniteSet(Table)
BY TableIs, UpToIsFinite

LEMMA RefusedIsFinite == ASSUME NEW t \in KeyTables PROVE IsFiniteSet(Refused(t))
<1> DEFINE Bad(row) == {x \in ToSet(Given(t, row)) : IsBinding(x) => IsReserved(Parse(x))}
           Said(row, text) ==
             [kind |-> IF IsBinding(text) THEN "reserved" ELSE "unparsed", action |-> Defaults[row].action, text |-> text]
           Of(row) == {Said(row, text) : text \in Bad(row)}
           F == [row \in Table |-> Of(row)]
<1>1. ASSUME NEW row \in Table PROVE IsFiniteSet(Of(row))
  <2>1. Texts(Given(t, row))
    BY GivenIsTexts
  <2>2. IsFiniteSet(ToSet(Given(t, row)))
    BY <2>1, MembersAreFinite DEF Texts
  <2>3. IsFiniteSet(Bad(row))
    <3>1. Bad(row) \in SUBSET ToSet(Given(t, row))
      OBVIOUS
    <3> HIDE DEF Bad
    <3> QED BY <2>2, <3>1, FS_Subset
  <2> DEFINE f == [text \in Bad(row) |-> Said(row, text)]
  <2>4. f = [text \in Bad(row) |-> f[text]]
    <3> HIDE DEF Bad, Said
    <3> QED OBVIOUS
  <2>5. Of(row) = {f[text] : text \in Bad(row)}
    <3> HIDE DEF Bad, Said
    <3> QED OBVIOUS
  <2> HIDE DEF f, Bad, Of
  <2> QED BY <2>3, <2>4, <2>5, ValuesAreFinite
<1> HIDE DEF Of
<1>2. F = [row \in Table |-> F[row]]
  OBVIOUS
<1>3. IsFiniteSet({F[row] : row \in Table})
  <2> HIDE DEF F
  <2> QED BY <1>2, TableIsFinite, ValuesAreFinite
<1>4. \A T \in {F[row] : row \in Table} : IsFiniteSet(T)
  BY <1>1
<1>5. Refused(t) = UNION {F[row] : row \in Table}
  <2>1. {F[row] : row \in Table} = {Of(row) : row \in Table}
    OBVIOUS
  <2> HIDE DEF F
  <2> QED BY <2>1 DEF Refused, Of
<1> HIDE DEF F
<1> QED BY <1>3, <1>4, <1>5, FS_UNION

LEMMA ClashesAreFinite ==
  ASSUME NEW bound, \A row \in Table : IsFiniteSet(ToSet(bound[row]))
  PROVE  IsFiniteSet(Clashes(bound))
<1> DEFINE Pairs(screen) == {p \in In(screen) \X In(screen) : p[1] # p[2]}
           Of(screen, p) == Between(bound, screen, p[1], p[2])
           F(screen) == [p \in Pairs(screen) |-> Of(screen, p)]
           In1(screen) == UNION {Of(screen, p) : p \in Pairs(screen)}
           G == [screen \in Screens |-> In1(screen)]
<1>1. ASSUME NEW screen, NEW a \in Table, NEW b \in Table PROVE IsFiniteSet(Between(bound, screen, a, b))
  <2> DEFINE Said(k) == [kind |-> "clash", screen |-> screen,
                         first |-> <<Defaults[a].action, k[1]>>, second |-> <<Defaults[b].action, k[2]>>]
             K == {k \in ToSet(bound[a]) \X ToSet(bound[b]) : IsPrefix(k[1], k[2]) /\ (k[1] = k[2] => a < b)}
             f == [k \in K |-> Said(k)]
  <2>1. IsFiniteSet(ToSet(bound[a]) \X ToSet(bound[b]))
    BY FS_Product
  <2>2. K \in SUBSET (ToSet(bound[a]) \X ToSet(bound[b]))
    OBVIOUS
  <2>3. IsFiniteSet(K)
    <3> HIDE DEF K
    <3> QED BY <2>1, <2>2, FS_Subset
  <2>4. f = [k \in K |-> f[k]] /\ {Said(k) : k \in K} = {f[k] : k \in K}
    <3> HIDE DEF K, Said
    <3> QED OBVIOUS
  <2>5. Between(bound, screen, a, b) = {Said(k) : k \in K}
    BY DEF Between
  <2> HIDE DEF f, K, Said
  <2> QED BY <2>3, <2>4, <2>5, ValuesAreFinite
<1>2. ASSUME NEW screen PROVE IsFiniteSet(Pairs(screen))
  <2>1. In(screen) \in SUBSET Table
    BY DEF In
  <2>2. IsFiniteSet(In(screen))
    BY <2>1, TableIsFinite, FS_Subset
  <2>3. IsFiniteSet(In(screen) \X In(screen))
    BY <2>2, FS_Product
  <2>4. Pairs(screen) \in SUBSET (In(screen) \X In(screen))
    OBVIOUS
  <2> HIDE DEF Pairs
  <2> QED BY <2>3, <2>4, FS_Subset
<1>3. ASSUME NEW screen PROVE IsFiniteSet(In1(screen))
  <2>1. \A p \in Pairs(screen) : IsFiniteSet(Of(screen, p))
    <3>1. \A p \in Pairs(screen) : p[1] \in Table /\ p[2] \in Table
      BY DEF In
    <3> HIDE DEF Pairs
    <3> QED BY <1>1, <3>1
  <2>2. F(screen) = [p \in Pairs(screen) |-> F(screen)[p]]
    <3> HIDE DEF Pairs, Of
    <3> QED OBVIOUS
  <2>3. {F(screen)[p] : p \in Pairs(screen)} = {Of(screen, p) : p \in Pairs(screen)}
    <3> HIDE DEF Pairs, Of
    <3> QED OBVIOUS
  <2>4. IsFiniteSet({F(screen)[p] : p \in Pairs(screen)})
    <3> HIDE DEF Pairs, F
    <3> QED BY <1>2, <2>2, ValuesAreFinite
  <2>5. \A T \in {F(screen)[p] : p \in Pairs(screen)} : IsFiniteSet(T)
    <3> HIDE DEF Pairs, Of, F
    <3> QED BY <2>1, <2>3
  <2> HIDE DEF F, Pairs, Of
  <2> QED BY <2>3, <2>4, <2>5, FS_UNION
<1>4. IsFiniteSet(Screens)
  <2>1. IsFiniteSet({"review"}) /\ IsFiniteSet({"files"}) /\ IsFiniteSet({"findings"})
    BY FS_Singleton
  <2>2. IsFiniteSet({"review"} \cup {"files"})
    BY <2>1, FS_Union
  <2>3. IsFiniteSet(({"review"} \cup {"files"}) \cup {"findings"})
    BY <2>1, <2>2, FS_Union
  <2>4. Screens = ({"review"} \cup {"files"}) \cup {"findings"}
    BY DEF Screens
  <2> QED BY <2>3, <2>4
<1> HIDE DEF In1
<1>5. G = [screen \in Screens |-> G[screen]] /\ {G[screen] : screen \in Screens} = {In1(screen) : screen \in Screens}
  OBVIOUS
<1>6. IsFiniteSet({G[screen] : screen \in Screens})
  <2> HIDE DEF G
  <2> QED BY <1>4, <1>5, ValuesAreFinite
<1>7. \A T \in {G[screen] : screen \in Screens} : IsFiniteSet(T)
  BY <1>3
<1>8. Clashes(bound) = UNION {In1(screen) : screen \in Screens}
  BY DEF Clashes, In1
<1> HIDE DEF G
<1> QED BY <1>5, <1>6, <1>7, <1>8, FS_UNION

LEMMA NoFaults == ASSUME NEW t \in KeyTables, Faults[t] = 0 PROVE Clashes(Bound(t)) = {}
<1>1. IsFiniteSet(Clashes(Bound(t)))
  BY BoundIsKeys, ClashesAreFinite
<1>2. IsFiniteSet(Problems(t))
  BY <1>1, RefusedIsFinite, FS_Union DEF Problems
<1>3. Cardinality(Problems(t)) = 0
  BY DEF Faults
<1>4. Problems(t) = {}
  BY <1>2, <1>3, FS_EmptySet
<1> QED BY <1>4 DEF Problems

-----------------------------------------------------------------------------
(* So every binding is read to its end *)

LEMMA NoneBegins ==
  ASSUME NEW bound, Clashes(bound) = {}, NEW screen \in Screens,
         NEW a \in In(screen), NEW b \in In(screen), a # b,
         NEW k \in ToSet(bound[a]), NEW l \in ToSet(bound[b])
  PROVE  ~ IsPrefix(k, l)
<1> SUFFICES ASSUME IsPrefix(k, l) PROVE FALSE
  OBVIOUS
<1>1. a \in Int /\ b \in Int
  BY TableIs DEF In
<1>2. ASSUME NEW c \in In(screen), NEW d \in In(screen), c # d PROVE Between(bound, screen, c, d) = {}
  <2>1. <<c, d>> \in {p \in In(screen) \X In(screen) : p[1] # p[2]} /\ <<c, d>>[1] = c /\ <<c, d>>[2] = d
    BY <1>2
  <2>2. Between(bound, screen, c, d) \subseteq
          UNION {Between(bound, screen, p[1], p[2]) : p \in {p \in In(screen) \X In(screen) : p[1] # p[2]}}
    BY <2>1
  <2>3. UNION {Between(bound, screen, p[1], p[2]) : p \in {p \in In(screen) \X In(screen) : p[1] # p[2]}}
          \subseteq Clashes(bound)
    BY DEF Clashes
  <2> QED BY <2>2, <2>3
<1>3. CASE k = l /\ b < a
  <2>1. <<l, k>> \in ToSet(bound[b]) \X ToSet(bound[a]) /\ <<l, k>>[1] = l /\ <<l, k>>[2] = k
    BY <1>3
  <2>2. Between(bound, screen, b, a) # {}
    BY <1>3, <2>1 DEF Between
  <2> QED BY <1>2, <2>2
<1>4. CASE ~(k = l /\ b < a)
  <2>1. <<k, l>> \in ToSet(bound[a]) \X ToSet(bound[b]) /\ <<k, l>>[1] = k /\ <<k, l>>[2] = l
    BY <1>4
  <2>2. k = l => a < b
    BY <1>1, <1>4
  <2>3. Between(bound, screen, a, b) # {}
    BY <2>1, <2>2 DEF Between
  <2> QED BY <1>2, <2>3
<1> QED BY <1>3, <1>4

LEMMA StartsOf ==
  ASSUME NEW k, k \in Seq(ToSet(k)), NEW i \in 1 .. Len(k)
  PROVE  /\ Append(SubSeq(k, 1, i - 1), k[i]) = SubSeq(k, 1, i)
         /\ IsPrefix(SubSeq(k, 1, i), k)
         /\ SubSeq(k, 1, i) = k <=> i = Len(k)
<1>1. Len(k) \in Nat /\ Len(SubSeq(k, 1, i - 1)) = i - 1 /\ Len(SubSeq(k, 1, i)) = i
  OBVIOUS
<1>2. Append(SubSeq(k, 1, i - 1), k[i]) = SubSeq(k, 1, i)
  BY <1>1
<1>3. SubSeq(SubSeq(k, 1, i), 1, i) = SubSeq(k, 1, i)
  BY <1>1
<1>4. IsPrefix(SubSeq(k, 1, i), k)
  BY <1>1, <1>3 DEF IsPrefix
<1>5. SubSeq(k, 1, Len(k)) = k
  BY <1>1
<1> QED BY <1>1, <1>2, <1>4, <1>5

LEMMA ReadToItsEnd ==
  ASSUME NEW bound, Clashes(bound) = {}, NEW screen \in Screens, NEW row \in In(screen),
         NEW k \in ToSet(bound[row]), IsKeys(k), \A other \in ToSet(bound[row]) : IsPrefix(other, k) => other = k,
         NEW i \in 1 .. Len(k)
  PROVE  Lookup(bound, screen, SubSeq(k, 1, i - 1), k[i]) =
           IF i < Len(k) THEN Pending(SubSeq(k, 1, i)) ELSE Act(Defaults[row].action)
<1> DEFINE p == SubSeq(k, 1, i)
           Whole == {r \in In(screen) : p \in ToSet(bound[r])}
           Started == {r \in In(screen) : \E l \in ToSet(bound[r]) : IsPrefix(p, l)}
<1>1. Canon(k[i]) = k[i] /\ k \in Seq(ToSet(k)) /\ Len(k) \in Nat
  BY DEF IsKeys
<1>2. Append(SubSeq(k, 1, i - 1), Canon(k[i])) = p /\ IsPrefix(p, k) /\ (p = k <=> i = Len(k))
  BY <1>1, StartsOf
<1> HIDE DEF p
<1>3. row \in Started
  BY <1>2
<1>4. ASSUME NEW r \in Whole PROVE r = row /\ p = k
  <2>1. r \in In(screen) /\ p \in ToSet(bound[r])
    OBVIOUS
  <2>2. r = row
    BY <2>1, <1>2, NoneBegins
  <2> QED BY <2>1, <2>2, <1>2
<1>5. ReadKeys(bound, screen, p) = IF i < Len(k) THEN Pending(p) ELSE Act(Defaults[row].action)
  <2>1. CASE i < Len(k)
    <3>1. Whole = {} /\ Started # {}
      BY <1>1, <1>2, <1>3, <1>4, <2>1
    <3> QED BY <3>1, <2>1 DEF ReadKeys
  <2>2. CASE ~(i < Len(k))
    <3>1. p = k
      BY <1>1, <1>2, <2>2
    <3>2. Whole = {row}
      BY <3>1, <1>4
    <3>3. row <= row
      <4>1. row \in Table
        BY DEF In
      <4> QED BY <4>1, TableIs
    <3>4. (CHOOSE r \in Whole : \A other \in Whole : r <= other) = row
      <4> HIDE DEF Whole
      <4> QED BY <3>2, <3>3
    <3>5. Whole # {}
      BY <3>2
    <3>6. ReadKeys(bound, screen, p) = Act(Defaults[CHOOSE r \in Whole : \A other \in Whole : r <= other].action)
      BY <3>5 DEF ReadKeys
    <3> HIDE DEF Whole
    <3> QED BY <3>4, <3>6, <2>2
  <2> QED BY <2>1, <2>2
<1>6. ReadKeys(bound, screen, p) # NoAction
  BY <1>5 DEF Pending, Act, NoAction
<1> QED BY <1>2, <1>5, <1>6 DEF Lookup, p

\* What makes a keymap answers to every key of it.
LEMMA AcceptedAnswers == \A t \in Accepted : Answers[t]
<1> SUFFICES ASSUME NEW t \in Accepted PROVE Answers[t]
  OBVIOUS
<1>1. t \in KeyTables /\ Faults[t] = 0 /\ KeyMaps[t] = Bound(t)
  BY DEF Accepted, KeyMaps
<1>2. ASSUME NEW screen \in Screens, NEW row \in In(screen), NEW k \in ToSet(KeyMaps[t][row]),
             \A other \in ToSet(KeyMaps[t][row]) : IsPrefix(other, k) => other = k,
             NEW i \in DOMAIN k
      PROVE  Lookup(KeyMaps[t], screen, SubSeq(k, 1, i - 1), k[i]) =
               IF i < Len(k) THEN Pending(SubSeq(k, 1, i)) ELSE Act(Defaults[row].action)
  <2>1. IsKeys(k)
    BY <1>1, BoundIsKeys DEF In
  <2>2. Clashes(KeyMaps[t]) = {}
    BY <1>1, NoFaults
  <2>3. i \in 1 .. Len(k)
    BY <2>1 DEF IsKeys
  <2> QED BY <1>2, <2>1, <2>2, <2>3, ReadToItsEnd
<1> QED BY <1>2 DEF Answers

-----------------------------------------------------------------------------
(* The fields of a config *)

LEMMA KeyRowsAreRows ==
  /\ Len(KeyRows) \in Nat /\ DOMAIN KeyRows = 1 .. Len(KeyRows)
  /\ \A a \in ToSet(KeyRows) : a \notin Words
<1>1. KeyRows \in Seq({Defaults[row].action : row \in Table})
  BY SettingsAssumption DEF SettingsAssumption
<1>2. Len(KeyRows) \in Nat /\ DOMAIN KeyRows = 1 .. Len(KeyRows)
  BY <1>1
<1>3. ToSet(KeyRows) \subseteq {Defaults[row].action : row \in Table}
  <2> DEFINE A == {Defaults[row].action : row \in Table}
  <2>1. KeyRows \in Seq(A)
    BY <1>1
  <2> HIDE DEF A
  <2>2. ToSet(KeyRows) \subseteq A
    BY <2>1, MembersAreFinite
  <2> QED BY <2>2 DEF A
<1> QED BY <1>2, <1>3, NoActionIsAField

LEMMA FieldsAre ==
  /\ Len(Fields) \in Nat /\ Len(Fields) >= 1 /\ DOMAIN Fields = 1 .. Len(Fields)
  /\ ToSet(Fields) = Words \cup ToSet(KeyRows)
<1> DEFINE W == <<"agent", "timeout_secs", "theme", "diff", "context", "context_step", "editor">>
           A == Words \cup ToSet(KeyRows)
           n == Len(KeyRows)
<1>1. W \in Seq(Words) /\ Len(W) = 7 /\ \A i \in 1 .. 7 : W[i] \in Words
  BY DEF Words
<1>2. \A w \in Words : \E i \in 1 .. 7 : W[i] = w
  <2>1. /\ W[1] = "agent" /\ W[2] = "timeout_secs" /\ W[3] = "theme" /\ W[4] = "diff"
        /\ W[5] = "context" /\ W[6] = "context_step" /\ W[7] = "editor"
    OBVIOUS
  <2>2. 1 \in 1 .. 7 /\ 2 \in 1 .. 7 /\ 3 \in 1 .. 7 /\ 4 \in 1 .. 7 /\ 5 \in 1 .. 7 /\ 6 \in 1 .. 7 /\ 7 \in 1 .. 7
    OBVIOUS
  <2> HIDE DEF W
  <2> QED BY <2>1, <2>2 DEF Words
<1> HIDE DEF W
<1>3. n \in Nat /\ DOMAIN KeyRows = 1 .. n
  BY KeyRowsAreRows
<1>4. KeyRows \in Seq(ToSet(KeyRows))
  <2>1. KeyRows \in Seq({Defaults[row].action : row \in Table})
    BY SettingsAssumption DEF SettingsAssumption
  <2> QED BY <2>1, OwnMembers
<1>5. Fields = W \o KeyRows
  BY DEF Fields, W
<1>6. W \in Seq(A) /\ KeyRows \in Seq(A)
  BY <1>1, <1>4
<1>7. /\ Len(Fields) = 7 + n
      /\ \A i \in 1 .. (7 + n) : Fields[i] = IF i <= 7 THEN W[i] ELSE KeyRows[i - 7]
      /\ DOMAIN Fields = 1 .. (7 + n)
  <2> HIDE DEF A, n
  <2>1. /\ W \o KeyRows \in Seq(A) /\ Len(W \o KeyRows) = Len(W) + Len(KeyRows)
        /\ \A i \in 1 .. (Len(W) + Len(KeyRows)) :
             (W \o KeyRows)[i] = IF i <= Len(W) THEN W[i] ELSE KeyRows[i - Len(W)]
    BY <1>6, ConcatProperties
  <2> QED BY <2>1, <1>1, <1>5 DEF n
<1>8. ASSUME NEW w \in Words PROVE \E i \in DOMAIN Fields : Fields[i] = w
  <2>1. PICK i \in 1 .. 7 : W[i] = w
    BY <1>2
  <2>2. i \in 1 .. (7 + n) /\ i <= 7
    BY <1>3
  <2> QED BY <2>1, <2>2, <1>7
<1>9. ASSUME NEW a \in ToSet(KeyRows) PROVE \E i \in DOMAIN Fields : Fields[i] = a
  <2>1. PICK i \in 1 .. n : KeyRows[i] = a
    BY <1>3 DEF ToSet
  <2>2. i + 7 \in 1 .. (7 + n) /\ ~(i + 7 <= 7) /\ (i + 7) - 7 = i
    BY <1>3
  <2> QED BY <2>1, <2>2, <1>7
<1>10. ASSUME NEW i \in DOMAIN Fields PROVE Fields[i] \in A
  <2>1. CASE i \in 1 .. 7
    <3>1. i \in 1 .. (7 + n) /\ i <= 7
      BY <2>1, <1>3
    <3> QED BY <2>1, <3>1, <1>1, <1>7
  <2>2. CASE i \notin 1 .. 7
    <3>1. i \in 1 .. (7 + n) /\ ~(i <= 7) /\ i - 7 \in 1 .. n
      BY <2>2, <1>3, <1>7
    <3>2. Fields[i] = KeyRows[i - 7] /\ KeyRows[i - 7] \in ToSet(KeyRows)
      BY <3>1, <1>3, <1>7 DEF ToSet
    <3> QED BY <3>2
  <2> QED BY <2>1, <2>2
<1>11. ToSet(Fields) = A
  BY <1>8, <1>9, <1>10 DEF ToSet
<1>12. 7 + n \in Nat /\ 7 + n >= 1
  BY <1>3
<1> QED BY <1>7, <1>11, <1>12

LEMMA ChoiceFields ==
  ASSUME NEW field \in ToSet(Fields), ChoicesOf[field] # <<>>
  PROVE  field \in {"agent", "theme", "diff"} /\ field # "editor" /\ field \notin ToSet(KeyRows)
<1>1. field \in {"agent", "theme", "diff"}
  BY DEF ChoicesOf
<1> QED BY <1>1, KeyRowsAreRows DEF Words

-----------------------------------------------------------------------------
(* A config that may be run under, or drafted *)

ConfigOK(c) == DOMAIN c = ToSet(Fields) /\ \A a \in ToSet(KeyRows) : c[a] \in KeyLists(a)
EditorOK(c) == c["editor"] # Unset => c["editor"] \in Runnable

\* What is typed for a key, read as a list, is one of the lists there are.
Listed(field, text) ==
  field \in ToSet(KeyRows) /\ text[1] = "list" => text[2] \in KeyLists(field) \cup {DefaultKeys(field)}

EditFields == {"kind", "draft", "original", "selected", "scroll", "typing", "list", "problems", "error"}
DraftOK(e, user) ==
  /\ DOMAIN e = EditFields /\ e.kind = "config"
  /\ ConfigOK(e.draft) /\ EditorOK(e.draft) /\ e.original = user
  /\ e.selected \in 1 .. Len(Fields)
  /\ e.list # <<>> => ChoicesOf[FieldOf(e)] # <<>>
  /\ e.typing # <<>> => Listed(FieldOf(e), e.typing[1])
EditOK(e, user) == DraftOK(e, user) /\ e.problems = Faults[KeysOf(e.draft)]

Screened == {"normal", "files", "findings"}
ModeOK(m, user) ==
  /\ "kind" \in DOMAIN m
  /\ m.kind = "config" => EditOK(m, user)
  /\ m.kind = "help" => "kind" \in DOMAIN m.from /\ m.from.kind \in Screened

LEMMA KeysAreATable == ASSUME NEW c, ConfigOK(c) PROVE KeysOf(c) \in KeyTables
<1> DEFINE K == ToSet(KeyRows)
           T == UNION {KeyLists(a) : a \in K}
           k == KeysOf(c)
<1>1. k \in [K -> T] /\ \A a \in K : k[a] \in KeyLists(a)
  BY DEF ConfigOK, KeysOf
<1>2. k = [a \in K |-> k[a]]
  BY DEF KeysOf
<1> HIDE DEF k, K, T
<1>3. k \in {[a \in K |-> t[a]] : t \in {t \in [K -> T] : \A a \in K : t[a] \in KeyLists(a)}}
  BY <1>1, <1>2
<1> QED BY <1>3 DEF KeyTables, k, K, T

LEMMA OpensAreAccepted == ASSUME NEW c, ConfigOK(c), Opens(c) PROVE KeysOf(c) \in Accepted
BY KeysAreATable DEF Opens, Accepted

\* A row that is not a key's is set without touching the keys.
LEMMA KeysUntouched ==
  ASSUME NEW c, ConfigOK(c), NEW f, f \notin ToSet(KeyRows), NEW v
  PROVE  /\ ConfigOK([c EXCEPT ![f] = v]) /\ KeysOf([c EXCEPT ![f] = v]) = KeysOf(c)
         /\ f # "editor" => [c EXCEPT ![f] = v]["editor"] = c["editor"]
<1> DEFINE d == [c EXCEPT ![f] = v]
<1>1. DOMAIN d = DOMAIN c /\ \A a \in DOMAIN c : a # f => d[a] = c[a]
  OBVIOUS
<1>2. ToSet(KeyRows) \subseteq DOMAIN c /\ "editor" \in DOMAIN c
  BY FieldsAre DEF ConfigOK, Words
<1> HIDE DEF d
<1>3. \A a \in ToSet(KeyRows) : d[a] = c[a]
  BY <1>1, <1>2
<1>4. KeysOf(d) = KeysOf(c)
  BY <1>3 DEF KeysOf
<1> QED BY <1>1, <1>2, <1>3, <1>4 DEF ConfigOK, d

-----------------------------------------------------------------------------
(* A reviewer that is in order *)

Views == {"groups", "files"}
Grips == {<<>>, <<"split">>, <<"panes", 0>>, <<"panes", -1>>}

AppFields ==
  {"area", "mode", "user", "shown", "bound", "pending", "file", "disk", "view", "focus", "cols", "offset",
   "grab", "at", "top", "cursor", "scroll", "recorded", "wrap", "followed", "entries", "last", "calling"}

\* The keys are the config's, which is the file's and one a review opens under.
ConfigRuns(a) ==
  /\ ConfigOK(a.user) /\ Opens(a.user) /\ a.bound = KeysOf(a.user) /\ a.file = a.user

\* The dividers are numbers, and what a drag has hold of is a divider.
Divided(a) ==
  /\ a.area.w \in Nat /\ a.view \in Views /\ a.cols \in [Views -> Nat] /\ a.offset \in Int
  /\ a.grab \in Grips

AppOK(a) == DOMAIN a = AppFields /\ ConfigRuns(a) /\ Divided(a) /\ ModeOK(a.mode, a.user)

Wears(a) ==
  a.mode.kind # "quit" => a.shown = Worn(IF a.mode.kind = "config" THEN a.mode.draft ELSE a.user)

\* What a step on the rows leaves as it was, all but the mode, and the mode too.
SameButMode(a, b) ==
  /\ DOMAIN b = AppFields
  /\ b.user = a.user /\ b.bound = a.bound /\ b.file = a.file /\ b.shown = a.shown
  /\ b.area = a.area /\ b.view = a.view /\ b.cols = a.cols /\ b.offset = a.offset
Stays(a, b) ==
  SameButMode(a, b) /\ b.mode = a.mode /\ b.grab = a.grab /\ b.entries = a.entries /\ b.last = a.last

\* What a step that moves no divider comes to.
Kept(a, b) == AppOK(b) /\ (Wears(a) => Wears(b))
Idle(a, b) == Kept(a, b) /\ b.area = a.area /\ b.cols = a.cols

LEMMA StaysTwice == ASSUME NEW a, NEW b, NEW c, Stays(a, b), Stays(b, c) PROVE Stays(a, c)
BY DEF Stays, SameButMode

LEMMA StaysIsIdle == ASSUME NEW a, NEW b, AppOK(a), Stays(a, b) PROVE Idle(a, b)
BY DEF Stays, SameButMode, AppOK, ConfigRuns, Divided, Wears, Kept, Idle

LEMMA IdleTwice == ASSUME NEW a, NEW b, NEW c, Idle(a, b), Idle(b, c) PROVE Idle(a, c)
BY DEF Idle, Kept

LEMMA IdleItself == ASSUME NEW a, AppOK(a) PROVE Idle(a, a)
BY DEF Idle, Kept

\* Something opens that is not `:config`, over something that is not.
Plainly(m) ==
  /\ "kind" \in DOMAIN m /\ m.kind # "config"
  /\ m.kind = "help" => "kind" \in DOMAIN m.from /\ m.from.kind \in Screened
-----------------------------------------------------------------------------
(* `:config` *)

LEMMA HeldIsThere ==
  ASSUME NEW place \in Int, NEW n \in Nat, n >= 1
  PROVE  Held(place, 1, n) \in 1 .. n /\ (place \in 1 .. n => Held(place, 1, n) = place)
BY DEF Held, Most, Least

LEMMA ConfigEditOK ==
  ASSUME NEW user, ConfigOK(user), EditorOK(user)
  PROVE  EditOK(ConfigEdit(user), user) /\ ConfigEdit(user).draft = user
<1> DEFINE e == ConfigEdit(user)
<1>1. /\ DOMAIN e = EditFields /\ e.kind = "config" /\ e.draft = user /\ e.original = user
      /\ e.selected = 1 /\ e.list = <<>> /\ e.typing = <<>> /\ e.problems = Faults[KeysOf(user)]
  BY DEF ConfigEdit, EditFields
<1>2. 1 \in 1 .. Len(Fields)
  BY FieldsAre
<1> HIDE DEF e
<1> QED BY <1>1, <1>2 DEF EditOK, DraftOK, e

\* The fields of an edit that change together, and those that do not.
LEMMA ValidatedOK ==
  ASSUME NEW user, NEW e, DraftOK(e, user)
  PROVE  EditOK(Validated(e), user)
<1> DEFINE v == Validated(e)
<1>1. /\ DOMAIN v = DOMAIN e /\ v.problems = Faults[KeysOf(e.draft)]
      /\ \A f \in EditFields \ {"problems"} : v[f] = e[f]
  BY DEF Validated, DraftOK, EditFields
<1> HIDE DEF v
<1>2. /\ v.kind = e.kind /\ v.draft = e.draft /\ v.original = e.original /\ v.selected = e.selected
      /\ v.list = e.list /\ v.typing = e.typing /\ FieldOf(v) = FieldOf(e)
  BY <1>1 DEF EditFields, FieldOf
<1> QED BY <1>1, <1>2 DEF EditOK, DraftOK, v

LEMMA SelectedOK ==
  ASSUME NEW user, NEW e, DraftOK(e, user), NEW to \in Int, NEW rows,
         (e.list = <<>> /\ e.typing = <<>>) \/ to = e.selected
  PROVE  /\ DraftOK(Selected(e, to, rows), user) /\ Selected(e, to, rows).draft = e.draft
         /\ Selected(e, to, rows).problems = e.problems
<1> DEFINE v == Selected(e, to, rows)
           place == Held(to, 1, Len(Fields))
<1>1. place \in 1 .. Len(Fields) /\ (to = e.selected => place = e.selected)
  <2> DEFINE n == Len(Fields)
  <2>1. n \in Nat /\ n >= 1 /\ e.selected \in 1 .. n
    BY FieldsAre DEF DraftOK
  <2> HIDE DEF n
  <2>2. Held(to, 1, n) \in 1 .. n /\ (to \in 1 .. n => Held(to, 1, n) = to)
    BY <2>1, HeldIsThere
  <2> QED BY <2>1, <2>2 DEF n
<1> HIDE DEF place
<1>2. /\ DOMAIN v = EditFields /\ v.selected = place
      /\ \A f \in EditFields \ {"selected", "scroll"} : v[f] = e[f]
  BY DEF Selected, DraftOK, EditFields, place
<1> HIDE DEF v
<1>3. /\ v.kind = e.kind /\ v.draft = e.draft /\ v.original = e.original
      /\ v.list = e.list /\ v.typing = e.typing /\ v.problems = e.problems
  BY <1>2 DEF EditFields
<1>4. to = e.selected => FieldOf(v) = FieldOf(e)
  BY <1>1, <1>2 DEF FieldOf
<1>5. DraftOK(v, user)
  BY <1>1, <1>2, <1>3, <1>4 DEF DraftOK
<1> QED BY <1>3, <1>5 DEF v

LEMMA FieldOfIsAField == ASSUME NEW user, NEW e, DraftOK(e, user) PROVE FieldOf(e) \in ToSet(Fields)
BY FieldsAre DEF DraftOK, FieldOf, ToSet

\* The draft alone is changed, to a config that may be drafted.
LEMMA DraftedOK ==
  ASSUME NEW user, NEW e, DraftOK(e, user), NEW d, ConfigOK(d), EditorOK(d)
  PROVE  DraftOK([e EXCEPT !.draft = d], user) /\ [e EXCEPT !.draft = d].draft = d
<1> DEFINE v == [e EXCEPT !.draft = d]
<1>1. /\ DOMAIN v = EditFields /\ v.draft = d /\ \A f \in EditFields \ {"draft"} : v[f] = e[f]
  BY DEF DraftOK, EditFields
<1> HIDE DEF v
<1>2. /\ v.kind = e.kind /\ v.original = e.original /\ v.selected = e.selected /\ v.list = e.list
      /\ v.typing = e.typing /\ FieldOf(v) = FieldOf(e)
  BY <1>1 DEF EditFields, FieldOf
<1> QED BY <1>1, <1>2 DEF DraftOK, v

\* A choice, of a row that has choices.
LEMMA SetChoiceOK ==
  ASSUME NEW c, ConfigOK(c), EditorOK(c), NEW field \in ToSet(Fields), ChoicesOf[field] # <<>>, NEW i
  PROVE  /\ ConfigOK(SetChoice(c, field, i)) /\ EditorOK(SetChoice(c, field, i))
         /\ KeysOf(SetChoice(c, field, i)) = KeysOf(c)
<1> DEFINE v == IF field = "agent" /\ i = 1 THEN Unset ELSE ChoicesOf[field][i]
<1>1. field # "editor" /\ field \notin ToSet(KeyRows)
  BY ChoiceFields
<1>2. SetChoice(c, field, i) = [c EXCEPT ![field] = v]
  BY DEF SetChoice
<1> HIDE DEF v
<1>3. ConfigOK([c EXCEPT ![field] = v]) /\ EditorOK([c EXCEPT ![field] = v])
      /\ KeysOf([c EXCEPT ![field] = v]) = KeysOf(c)
  BY <1>1, KeysUntouched DEF EditorOK
<1> QED BY <1>2, <1>3, Zenon

\* Any row but the editor's and the keys'.
Plainer == ToSet(Fields) \ ({"editor"} \cup ToSet(KeyRows))
LEMMA SetValueOK ==
  ASSUME NEW c, ConfigOK(c), EditorOK(c), NEW field \in Plainer, NEW v
  PROVE  ConfigOK([c EXCEPT ![field] = v]) /\ EditorOK([c EXCEPT ![field] = v])
BY KeysUntouched DEF EditorOK, Plainer

LEMMA SetEditorOK ==
  ASSUME NEW c, ConfigOK(c), NEW v, v # Unset => v \in Runnable
  PROVE  ConfigOK([c EXCEPT !["editor"] = v]) /\ EditorOK([c EXCEPT !["editor"] = v])
<1>1. "editor" \notin ToSet(KeyRows) /\ "editor" \in ToSet(Fields)
  BY KeyRowsAreRows, FieldsAre DEF Words
<1>2. [c EXCEPT !["editor"] = v]["editor"] = v
  BY <1>1 DEF ConfigOK
<1> QED BY <1>1, <1>2, KeysUntouched DEF EditorOK

LEMMA SetKeysOK ==
  ASSUME NEW c, ConfigOK(c), EditorOK(c), NEW field \in ToSet(KeyRows), NEW v \in KeyLists(field)
  PROVE  ConfigOK([c EXCEPT ![field] = v]) /\ EditorOK([c EXCEPT ![field] = v])
<1> DEFINE d == [c EXCEPT ![field] = v]
<1>1. "editor" \notin ToSet(KeyRows) /\ "editor" \in DOMAIN c /\ ToSet(KeyRows) \subseteq DOMAIN c
  BY KeyRowsAreRows, FieldsAre DEF Words, ConfigOK
<1>2. DOMAIN d = DOMAIN c /\ d[field] = v /\ \A a \in DOMAIN c : a # field => d[a] = c[a]
  BY <1>1
<1> HIDE DEF d
<1>3. d["editor"] = c["editor"]
  BY <1>1, <1>2
<1>4. \A a \in ToSet(KeyRows) : d[a] \in KeyLists(a)
  BY <1>1, <1>2 DEF ConfigOK
<1> QED BY <1>2, <1>3, <1>4 DEF ConfigOK, EditorOK, d

LEMMA NextValueOK ==
  ASSUME NEW c, ConfigOK(c), EditorOK(c), NEW field \in ToSet(Fields), NEW forward
  PROVE  ConfigOK(NextValue(c, field, forward)) /\ EditorOK(NextValue(c, field, forward))
<1>1. PICK v : NextValue(c, field, forward) = [c EXCEPT ![field] = v]
               /\ (field \notin {"timeout_secs", "context", "context_step"} => v = c[field])
  BY DEF NextValue
<1>2. CASE field \in {"timeout_secs", "context", "context_step"}
  <2>1. field \in Plainer
    BY <1>2, KeyRowsAreRows DEF Words, Plainer
  <2>2. ConfigOK([c EXCEPT ![field] = v]) /\ EditorOK([c EXCEPT ![field] = v])
    BY <2>1, SetValueOK
  <2> QED BY <1>1, <2>2, Zenon
<1>3. CASE field \notin {"timeout_secs", "context", "context_step"}
  <2> DEFINE d == NextValue(c, field, forward)
  <2>1. d = [c EXCEPT ![field] = c[field]]
    BY <1>1, <1>3
  <2>2. DOMAIN d = DOMAIN c /\ \A a \in DOMAIN c : d[a] = c[a]
    BY <2>1
  <2>3. "editor" \in DOMAIN c /\ ToSet(KeyRows) \subseteq DOMAIN c
    BY FieldsAre DEF Words, ConfigOK
  <2> HIDE DEF d
  <2>4. ConfigOK(d) /\ EditorOK(d)
    BY <2>2, <2>3 DEF ConfigOK, EditorOK
  <2> QED BY <2>4 DEF d
<1> QED BY <1>2, <1>3

LEMMA Next1OK ==
  ASSUME NEW c, ConfigOK(c), EditorOK(c), NEW field \in ToSet(Fields), NEW forward
  PROVE  ConfigOK(Next1(c, field, forward)) /\ EditorOK(Next1(c, field, forward))
<1>1. CASE ChoicesOf[field] # <<>>
  <2>1. PICK i : Next1(c, field, forward) = SetChoice(c, field, i)
    BY <1>1 DEF Next1, NextChoice
  <2> QED BY <1>1, <2>1, SetChoiceOK
<1>2. CASE ChoicesOf[field] = <<>>
  BY <1>2, NextValueOK DEF Next1
<1> QED BY <1>1, <1>2

\* What is typed and not refused.
LEMMA CommittedOK ==
  ASSUME NEW c, ConfigOK(c), EditorOK(c), NEW field \in ToSet(Fields), NEW text,
         Listed(field, text), ~Slips(field, text)
  PROVE  ConfigOK(Committed(c, field, text)) /\ EditorOK(Committed(c, field, text))
<1>1. CASE field \in {"timeout_secs", "context", "context_step"}
  <2>1. field \in Plainer
    BY <1>1, KeyRowsAreRows DEF Words, Plainer
  <2>2. PICK v : Committed(c, field, text) = [c EXCEPT ![field] = v]
    BY DEF Committed
  <2>3. ConfigOK([c EXCEPT ![field] = v]) /\ EditorOK([c EXCEPT ![field] = v])
    BY <2>1, SetValueOK
  <2> QED BY <2>2, <2>3, Zenon
<1>2. CASE field = "editor"
  <2> DEFINE v == IF text = Empty THEN Unset ELSE text
  <2>1. Committed(c, field, text) = [c EXCEPT !["editor"] = v]
    BY <1>2 DEF Committed
  <2>2. v # Unset => v \in Runnable
    BY <1>2 DEF Slips
  <2> HIDE DEF v
  <2> QED BY <2>1, <2>2, SetEditorOK, ZenonT(40)
<1>3. CASE field \notin {"timeout_secs", "context", "context_step", "editor"}
  <2> DEFINE v == IF text[2] = DefaultKeys(field) THEN Unset ELSE text[2]
  <2>1. Committed(c, field, text) = [c EXCEPT ![field] = v]
    BY <1>3 DEF Committed
  <2>2. text[1] = "list"
    BY <1>3 DEF Slips
  <2>3. field \in ToSet(KeyRows) => v \in KeyLists(field)
    BY <2>2 DEF Listed, KeyLists
  <2> HIDE DEF v
  <2>5. CASE field \in ToSet(KeyRows)
    <3>1. v \in KeyLists(field)
      BY <2>3, <2>5
    <3>2. ConfigOK([c EXCEPT ![field] = v]) /\ EditorOK([c EXCEPT ![field] = v])
      BY <2>5, <3>1, SetKeysOK
    <3> QED BY <2>1, <3>2, Zenon
  <2>6. CASE field \notin ToSet(KeyRows)
    <3>1. field \in Plainer
      BY <1>3, <2>6 DEF Plainer
    <3>2. ConfigOK([c EXCEPT ![field] = v]) /\ EditorOK([c EXCEPT ![field] = v])
      BY <3>1, SetValueOK
    <3> QED BY <2>1, <3>2, Zenon
  <2> QED BY <2>5, <2>6
<1> QED BY <1>1, <1>2, <1>3

\* What opens the box, and what is open in it.
LEMMA BegunOK ==
  ASSUME NEW user, NEW e, DraftOK(e, user)
  PROVE  DraftOK(Begun(e), user)
<1> DEFINE field == FieldOf(e)
           v == Begun(e)
<1>1. field \in ToSet(Fields)
  BY FieldOfIsAField
<1>2. CASE ChoicesOf[field] # <<>>
  <2>1. PICK l : v = [e EXCEPT !.list = l]
    BY <1>2 DEF Begun
  <2>2. DOMAIN v = EditFields /\ \A f \in EditFields \ {"list"} : v[f] = e[f]
    BY <2>1 DEF DraftOK, EditFields
  <2> HIDE DEF v
  <2>3. /\ v.kind = e.kind /\ v.draft = e.draft /\ v.original = e.original /\ v.selected = e.selected
        /\ v.typing = e.typing /\ FieldOf(v) = FieldOf(e)
    BY <2>2 DEF EditFields, FieldOf
  <2>4. ChoicesOf[FieldOf(v)] # <<>>
    BY <2>3, <1>2
  <2>5. DraftOK(v, user)
    BY <2>2, <2>3, <2>4 DEF DraftOK
  <2> QED BY <2>5 DEF v
<1>3. CASE ChoicesOf[field] = <<>>
  <2> DEFINE text == Spelt(e.draft, field)
  <2>1. v = [e EXCEPT !.typing = <<text>>]
    BY <1>3 DEF Begun
  <2>2. Listed(field, text)
    <3> SUFFICES ASSUME field \in ToSet(KeyRows), text[1] = "list"
                 PROVE  text[2] \in KeyLists(field) \cup {DefaultKeys(field)}
      BY DEF Listed
    <3>1. field \notin {"timeout_secs", "context", "context_step", "editor"}
      BY KeyRowsAreRows DEF Words
    <3>2. text = <<"list", IF e.draft[field] = Unset THEN DefaultKeys(field) ELSE e.draft[field]>>
      BY <3>1 DEF Spelt
    <3>3. e.draft[field] \in KeyLists(field)
      BY DEF DraftOK, ConfigOK
    <3> QED BY <3>2, <3>3
  <2> HIDE DEF text
  <2>3. DOMAIN v = EditFields /\ v.typing = <<text>> /\ \A f \in EditFields \ {"typing"} : v[f] = e[f]
    BY <2>1 DEF DraftOK, EditFields
  <2> HIDE DEF v
  <2>4. /\ v.kind = e.kind /\ v.draft = e.draft /\ v.original = e.original /\ v.selected = e.selected
        /\ v.list = e.list /\ FieldOf(v) = FieldOf(e)
    BY <2>3 DEF EditFields, FieldOf
  <2>5. v.typing[1] = text
    BY <2>3
  <2>6. DraftOK(v, user)
    BY <2>2, <2>3, <2>4, <2>5 DEF DraftOK
  <2> QED BY <2>6 DEF v
<1> QED BY <1>2, <1>3

LEMMA DefaultOfARow ==
  ASSUME NEW c, ConfigOK(c), EditorOK(c), NEW field \in ToSet(Fields)
  PROVE  ConfigOK([c EXCEPT ![field] = Default[field]]) /\ EditorOK([c EXCEPT ![field] = Default[field]])
<1>1. field \notin {"theme", "diff", "context", "context_step"} => Default[field] = Unset
  BY DEF Default
<1>2. CASE field \in ToSet(KeyRows)
  <2>1. Default[field] \in KeyLists(field)
    BY <1>1, <1>2, KeyRowsAreRows DEF Words, KeyLists
  <2> QED BY <1>2, <2>1, SetKeysOK
<1>3. CASE field = "editor"
  <2>1. Default[field] = Unset
    BY <1>1, <1>3
  <2> HIDE DEF Default
  <2>2. Default["editor"] # Unset => Default["editor"] \in Runnable
    BY <1>3, <2>1
  <2> QED BY <1>3, <2>2, SetEditorOK
<1>4. CASE field \notin {"editor"} \cup ToSet(KeyRows)
  BY <1>4, SetValueOK DEF Plainer
<1> QED BY <1>2, <1>3, <1>4

LEMMA MovingOK ==
  ASSUME NEW user, NEW e, DraftOK(e, user), e.list = <<>>, e.typing = <<>>, NEW key \in MovingKeys, NEW rows
  PROVE  DraftOK(Moving(e, key, rows), user)
<1> DEFINE field == FieldOf(e)
<1>1. field \in ToSet(Fields) /\ ConfigOK(e.draft) /\ EditorOK(e.draft) /\ e.selected \in Int
  BY FieldOfIsAField DEF DraftOK
<1>2. CASE key \in {"j", "down", "k", "up", "g", "G"}
  <2>1. e.selected + 1 \in Int /\ e.selected - 1 \in Int /\ 1 \in Int /\ Len(Fields) \in Int
    BY <1>1, FieldsAre
  <2>2. \E to \in Int : Moving(e, key, rows) = Selected(e, to, rows)
    <3>1. CASE key \in {"j", "down"}
      BY <2>1, <3>1 DEF Moving
    <3>2. CASE key \in {"k", "up"}
      BY <2>1, <3>2 DEF Moving
    <3>3. CASE key = "g"
      BY <2>1, <3>3 DEF Moving
    <3>4. CASE key = "G"
      BY <2>1, <3>4 DEF Moving
    <3> QED BY <1>2, <3>1, <3>2, <3>3, <3>4
  <2>3. \A to \in Int : DraftOK(Selected(e, to, rows), user)
    BY SelectedOK
  <2> QED BY <2>2, <2>3
<1>3. CASE key \in {"l", "right", "h", "left"}
  <2>1. \E forward \in BOOLEAN : Moving(e, key, rows) = [e EXCEPT !.draft = Next1(e.draft, field, forward)]
    <3>1. CASE key \in {"l", "right"}
      BY <3>1 DEF Moving, DraftOK, EditFields
    <3>2. CASE key \in {"h", "left"}
      BY <3>2 DEF Moving, DraftOK, EditFields
    <3> QED BY <1>3, <3>1, <3>2
  <2>2. PICK forward : Moving(e, key, rows) = [e EXCEPT !.draft = Next1(e.draft, field, forward)]
    BY <2>1
  <2> DEFINE d == Next1(e.draft, field, forward)
  <2>3. ConfigOK(d) /\ EditorOK(d)
    BY <1>1, Next1OK
  <2> HIDE DEF d, field
  <2>4. DraftOK([e EXCEPT !.draft = d], user)
    BY <2>3, DraftedOK
  <2> QED BY <2>2, <2>4, Zenon DEF d
<1>4. CASE key \in {"enter", "space"}
  <2>1. Moving(e, key, rows) = Begun(e)
    BY <1>4 DEF Moving
  <2> QED BY <2>1, BegunOK
<1>5. CASE key = "r"
  <2> DEFINE d == [e.draft EXCEPT ![field] = Default[field]]
  <2>1. Moving(e, key, rows) = [e EXCEPT !.draft = d]
    BY <1>5 DEF Moving, DraftOK, EditFields
  <2>2. ConfigOK(d) /\ EditorOK(d)
    BY <1>1, DefaultOfARow
  <2> HIDE DEF d
  <2>3. DraftOK([e EXCEPT !.draft = d], user)
    BY <2>2, DraftedOK
  <2> QED BY <2>1, <2>3, Zenon
<1> QED BY <1>2, <1>3, <1>4, <1>5 DEF MovingKeys

-----------------------------------------------------------------------------
(* `:config` over the reviewer *)

\* The modal as it is after a key: in order, and worn where the draft may have changed.
LEMMA PreviewedIdle ==
  ASSUME NEW a, AppOK(a), NEW e, EditOK(e, a.user)
  PROVE  Idle(a, Previewed(a, e)) /\ Previewed(a, e).mode = e
<1> DEFINE b == Previewed(a, e)
<1>1. /\ DOMAIN b = AppFields /\ b.mode = e /\ b.shown = Worn(e.draft)
      /\ \A f \in AppFields \ {"mode", "shown"} : b[f] = a[f]
  BY DEF Previewed, Shows, AppOK, AppFields
<1> HIDE DEF b
<1>2. /\ b.user = a.user /\ b.bound = a.bound /\ b.file = a.file /\ b.area = a.area /\ b.view = a.view
      /\ b.cols = a.cols /\ b.offset = a.offset /\ b.grab = a.grab
  BY <1>1 DEF AppFields
<1>3. e.kind = "config" /\ "kind" \in DOMAIN e
  BY DEF EditOK, DraftOK, EditFields
<1>4. AppOK(b)
  BY <1>1, <1>2, <1>3 DEF AppOK, ConfigRuns, Divided, ModeOK
<1>5. Wears(b)
  BY <1>1, <1>3 DEF Wears
<1> QED BY <1>1, <1>2, <1>4, <1>5 DEF Idle, Kept, b

\* The modal moves, its draft as it was.
LEMMA WalkedIdle ==
  ASSUME NEW a, AppOK(a), a.mode.kind = "config", NEW e, EditOK(e, a.user), e.draft = a.mode.draft
  PROVE  Idle(a, [a EXCEPT !.mode = e]) /\ [a EXCEPT !.mode = e].mode = e
<1> DEFINE b == [a EXCEPT !.mode = e]
<1>1. /\ DOMAIN b = AppFields /\ b.mode = e
      /\ \A f \in AppFields \ {"mode"} : b[f] = a[f]
  BY DEF AppOK, AppFields
<1> HIDE DEF b
<1>2. /\ b.user = a.user /\ b.bound = a.bound /\ b.file = a.file /\ b.area = a.area /\ b.view = a.view
      /\ b.cols = a.cols /\ b.offset = a.offset /\ b.grab = a.grab /\ b.shown = a.shown
  BY <1>1 DEF AppFields
<1>3. e.kind = "config" /\ "kind" \in DOMAIN e
  BY DEF EditOK, DraftOK, EditFields
<1>4. AppOK(b)
  BY <1>1, <1>2, <1>3 DEF AppOK, ConfigRuns, Divided, ModeOK
<1>5. Wears(a) => Wears(b)
  BY <1>1, <1>2, <1>3 DEF Wears
<1> QED BY <1>1, <1>2, <1>4, <1>5 DEF Idle, Kept, b

\* The modal closes on a config that is worn and run under.
LEMMA DiscardIdle ==
  ASSUME NEW a, AppOK(a), a.mode.kind = "config"
  PROVE  Idle(a, DiscardConfig(a)) /\ DiscardConfig(a).mode.kind = "normal"
<1> DEFINE b == DiscardConfig(a)
<1>0. a.mode.original = a.user
  BY DEF AppOK, ModeOK, EditOK, DraftOK
<1>1. /\ DOMAIN b = AppFields /\ b.mode = [kind |-> "normal"] /\ b.shown = Worn(a.user)
      /\ \A f \in AppFields \ {"mode", "shown"} : b[f] = a[f]
  BY <1>0 DEF DiscardConfig, Shows, AppOK, AppFields
<1> HIDE DEF b
<1>2. /\ b.user = a.user /\ b.bound = a.bound /\ b.file = a.file /\ b.area = a.area /\ b.view = a.view
      /\ b.cols = a.cols /\ b.offset = a.offset /\ b.grab = a.grab
  BY <1>1 DEF AppFields
<1>3. b.mode.kind = "normal" /\ "kind" \in DOMAIN b.mode
  BY <1>1
<1>4. AppOK(b)
  BY <1>1, <1>2, <1>3 DEF AppOK, ConfigRuns, Divided, ModeOK
<1>5. Wears(b)
  BY <1>1, <1>2, <1>3 DEF Wears
<1> QED BY <1>1, <1>2, <1>3, <1>4, <1>5 DEF Idle, Kept, b

LEMMA SaveIdle ==
  ASSUME NEW a, AppOK(a), a.mode.kind = "config"
  PROVE  Idle(a, SaveConfig(a)) /\ SaveConfig(a).mode \in {a.mode, [kind |-> "normal"]}
<1>1. CASE ~(a.mode.problems = 0 /\ a.disk = "ok")
  BY <1>1, IdleItself DEF SaveConfig
<1>2. CASE a.mode.problems = 0 /\ a.disk = "ok"
  <2> DEFINE d == a.mode.draft
             b == Saved(a, d)
  <2>1. SaveConfig(a) = b
    BY <1>2 DEF SaveConfig
  <2>2. ConfigOK(d) /\ EditorOK(d) /\ Faults[KeysOf(d)] = 0
    BY <1>2 DEF AppOK, ModeOK, EditOK, DraftOK
  <2>3. Opens(d)
    BY <2>2 DEF Opens, EditorOK
  <2> HIDE DEF d
  <2>4. /\ DOMAIN b = AppFields /\ b.mode = [kind |-> "normal"] /\ b.shown = Worn(d)
        /\ b.user = d /\ b.file = d /\ b.bound = KeysOf(d)
        /\ \A f \in AppFields \ {"mode", "shown", "bound", "pending", "user", "file"} : b[f] = a[f]
    BY DEF Saved, Shows, AppOK, AppFields
  <2> HIDE DEF b
  <2>5. /\ b.area = a.area /\ b.view = a.view
        /\ b.cols = a.cols /\ b.offset = a.offset /\ b.grab = a.grab
    BY <2>4 DEF AppFields
  <2>6. b.mode.kind = "normal" /\ "kind" \in DOMAIN b.mode
    BY <2>4
  <2>7. AppOK(b)
    BY <2>2, <2>3, <2>4, <2>5, <2>6 DEF AppOK, ConfigRuns, Divided, ModeOK
  <2>8. Wears(b)
    BY <2>4, <2>6 DEF Wears
  <2> QED BY <2>1, <2>4, <2>5, <2>7, <2>8 DEF Idle, Kept
<1> QED BY <1>1, <1>2

\* A choice is worn, the list open or closed after it.
LEMMA ChoiceOK ==
  ASSUME NEW user, NEW e, EditOK(e, user), e.list # <<>>, NEW i, NEW l
  PROVE  EditOK([e EXCEPT !.draft = SetChoice(e.draft, FieldOf(e), i), !.list = l], user)
<1> DEFINE d == SetChoice(e.draft, FieldOf(e), i)
           v == [e EXCEPT !.draft = d, !.list = l]
<1>1. ConfigOK(e.draft) /\ EditorOK(e.draft) /\ FieldOf(e) \in ToSet(Fields) /\ ChoicesOf[FieldOf(e)] # <<>>
  BY FieldOfIsAField DEF EditOK, DraftOK
<1>2. ConfigOK(d) /\ EditorOK(d) /\ KeysOf(d) = KeysOf(e.draft)
  BY <1>1, SetChoiceOK
<1> HIDE DEF d
<1>3. DOMAIN v = EditFields /\ v.draft = d /\ \A f \in EditFields \ {"draft", "list"} : v[f] = e[f]
  BY DEF EditOK, DraftOK, EditFields
<1> HIDE DEF v
<1>4. /\ v.kind = e.kind /\ v.original = e.original /\ v.selected = e.selected /\ v.typing = e.typing
      /\ v.problems = e.problems /\ FieldOf(v) = FieldOf(e)
  BY <1>3 DEF EditFields, FieldOf
<1>5. EditOK(v, user)
  BY <1>1, <1>2, <1>3, <1>4 DEF EditOK, DraftOK
<1> QED BY <1>5 DEF v, d

LEMMA ChoseOK ==
  ASSUME NEW user, NEW e, EditOK(e, user)
  PROVE  EditOK(Chose(e), user)
<1> DEFINE v == Chose(e)
<1>1. DOMAIN v = EditFields /\ v.list = <<>> /\ \A f \in EditFields \ {"list"} : v[f] = e[f]
  BY DEF EditOK, DraftOK, EditFields, Chose
<1> HIDE DEF v
<1>2. /\ v.kind = e.kind /\ v.draft = e.draft /\ v.original = e.original /\ v.selected = e.selected
      /\ v.typing = e.typing /\ v.problems = e.problems /\ FieldOf(v) = FieldOf(e)
  BY <1>1 DEF EditFields, FieldOf
<1> QED BY <1>1, <1>2 DEF EditOK, DraftOK, v

LEMMA ListKeyIdle ==
  ASSUME NEW a, AppOK(a), NEW e, e = a.mode, e.kind = "config", e.list # <<>>, NEW key
  PROVE  Idle(a, ListKey(a, e, key))
<1>1. EditOK(e, a.user)
  BY DEF AppOK, ModeOK
<1>2. ASSUME NEW i PROVE Idle(a, Previewed(a, Choosing(e, i)))
  <2>1. PICK l : Choosing(e, i) = [e EXCEPT !.draft = SetChoice(e.draft, FieldOf(e), i), !.list = l]
    BY DEF Choosing
  <2>2. EditOK([e EXCEPT !.draft = SetChoice(e.draft, FieldOf(e), i), !.list = l], a.user)
    BY <1>1, ChoiceOK
  <2>3. EditOK(Choosing(e, i), a.user)
    BY <2>1, <2>2, Zenon
  <2> QED BY <2>3, PreviewedIdle
<1>3. Idle(a, Previewed(a, Chose(e)))
  BY <1>1, ChoseOK, PreviewedIdle
<1>4. Idle(a, Previewed(a, PutBack(e)))
  <2>1. PICK i, l : PutBack(e) = [e EXCEPT !.draft = SetChoice(e.draft, FieldOf(e), i), !.list = l]
    BY DEF PutBack
  <2>2. EditOK([e EXCEPT !.draft = SetChoice(e.draft, FieldOf(e), i), !.list = l], a.user)
    BY <1>1, ChoiceOK
  <2>3. EditOK(PutBack(e), a.user)
    BY <2>1, <2>2, Zenon
  <2> QED BY <2>3, PreviewedIdle
<1>5. \/ \E i : ListKey(a, e, key) = Previewed(a, Choosing(e, i))
      \/ ListKey(a, e, key) = Previewed(a, Chose(e))
      \/ ListKey(a, e, key) = Previewed(a, PutBack(e))
      \/ ListKey(a, e, key) = a
  BY DEF ListKey
<1> QED BY <1>2, <1>3, <1>4, <1>5, IdleItself

\* Nothing of the modal but what its draft does not hang on.
LEMMA RetypedOK ==
  ASSUME NEW user, NEW e, EditOK(e, user), NEW v, DOMAIN v = EditFields,
         \A f \in EditFields \ {"typing", "error"} : v[f] = e[f],
         v.typing # <<>> => Listed(FieldOf(e), v.typing[1])
  PROVE  EditOK(v, user) /\ v.draft = e.draft
<1>1. /\ v.kind = e.kind /\ v.draft = e.draft /\ v.original = e.original /\ v.selected = e.selected
      /\ v.list = e.list /\ v.problems = e.problems /\ FieldOf(v) = FieldOf(e)
  BY DEF EditFields, FieldOf
<1> QED BY <1>1 DEF EditOK, DraftOK

LEMMA EnteredOK ==
  ASSUME NEW user, NEW e, EditOK(e, user), e.typing # <<>>, ~Slips(FieldOf(e), e.typing[1])
  PROVE  EditOK(Entered(e, e.typing[1]), user)
<1> DEFINE text == e.typing[1]
           d == Committed(e.draft, FieldOf(e), text)
           v == [e EXCEPT !.draft = d, !.typing = <<>>, !.error = FALSE]
<1>1. ConfigOK(e.draft) /\ EditorOK(e.draft) /\ FieldOf(e) \in ToSet(Fields) /\ Listed(FieldOf(e), text)
  BY FieldOfIsAField DEF EditOK, DraftOK
<1>2. ConfigOK(d) /\ EditorOK(d)
  BY <1>1, CommittedOK
<1>3. Entered(e, text) = Validated(v)
  BY DEF Entered, EditOK, DraftOK, EditFields
<1> HIDE DEF d, text
<1>4. /\ DOMAIN v = EditFields /\ v.draft = d /\ v.typing = <<>>
      /\ \A f \in EditFields \ {"draft", "typing", "error"} : v[f] = e[f]
  BY DEF EditOK, DraftOK, EditFields
<1> HIDE DEF v
<1>5. /\ v.kind = e.kind /\ v.original = e.original /\ v.selected = e.selected /\ v.list = e.list
      /\ FieldOf(v) = FieldOf(e)
  BY <1>4 DEF EditFields, FieldOf
<1>6. DraftOK(v, user)
  BY <1>2, <1>4, <1>5 DEF EditOK, DraftOK
<1> QED BY <1>3, <1>6, ValidatedOK DEF text

LEMMA TypingKeyIdle ==
  ASSUME NEW a, AppOK(a), NEW e, e = a.mode, e.kind = "config", e.typing # <<>>, NEW key
  PROVE  Idle(a, TypingKey(a, e, key))
<1>1. EditOK(e, a.user)
  BY DEF AppOK, ModeOK
<1>2. CASE key = "esc"
  <2> DEFINE v == [e EXCEPT !.typing = <<>>, !.error = FALSE]
  <2>1. TypingKey(a, e, key) = [a EXCEPT !.mode = v]
    BY <1>2, <1>1 DEF TypingKey, AppOK, AppFields
  <2>2. /\ DOMAIN v = EditFields /\ v.typing = <<>>
        /\ \A f \in EditFields \ {"typing", "error"} : v[f] = e[f]
    BY <1>1 DEF EditOK, DraftOK, EditFields
  <2> HIDE DEF v
  <2>3. EditOK(v, a.user) /\ v.draft = e.draft
    BY <1>1, <2>2, RetypedOK
  <2>4. Idle(a, [a EXCEPT !.mode = v])
    BY <2>3, WalkedIdle
  <2> QED BY <2>1, <2>4, Zenon
<1>3. CASE key = "enter" /\ Slips(FieldOf(e), e.typing[1])
  <2> DEFINE v == [e EXCEPT !.error = TRUE]
  <2>1. TypingKey(a, e, key) = [a EXCEPT !.mode = v]
    BY <1>3, <1>1 DEF TypingKey, AppOK, AppFields
  <2>2. /\ DOMAIN v = EditFields /\ v.typing = e.typing
        /\ \A f \in EditFields \ {"typing", "error"} : v[f] = e[f]
    BY <1>1 DEF EditOK, DraftOK, EditFields
  <2> HIDE DEF v
  <2>3. EditOK(v, a.user) /\ v.draft = e.draft
    BY <1>1, <2>2, RetypedOK DEF EditOK, DraftOK
  <2>4. Idle(a, [a EXCEPT !.mode = v])
    BY <2>3, WalkedIdle
  <2> QED BY <2>1, <2>4, Zenon
<1>4. CASE key = "enter" /\ ~Slips(FieldOf(e), e.typing[1])
  <2>1. EditOK(Entered(e, e.typing[1]), a.user)
    BY <1>1, <1>4, EnteredOK
  <2>2. TypingKey(a, e, key) = Previewed(a, Entered(e, e.typing[1]))
    BY <1>4 DEF TypingKey
  <2> QED BY <2>1, <2>2, PreviewedIdle
<1>5. CASE key \notin {"esc", "enter"}
  <2>1. TypingKey(a, e, key) = a
    BY <1>5 DEF TypingKey
  <2> QED BY <2>1, IdleItself
<1> QED BY <1>2, <1>3, <1>4, <1>5

LEMMA RowKeyIdle ==
  ASSUME NEW a, AppOK(a), NEW e, e = a.mode, e.kind = "config", e.typing = <<>>, e.list = <<>>, NEW key
  PROVE  Idle(a, RowKey(a, e, key))
<1>1. EditOK(e, a.user)
  BY DEF AppOK, ModeOK
<1>2. CASE key = "ctrl-s"
  <2>1. RowKey(a, e, key) = SaveConfig(a)
    BY <1>2 DEF RowKey, MovingKeys
  <2> QED BY <2>1, SaveIdle
<1>3. CASE key \in {"esc", "q"}
  <2>1. RowKey(a, e, key) = DiscardConfig(a)
    BY <1>3 DEF RowKey, MovingKeys
  <2> QED BY <2>1, DiscardIdle
<1>4. CASE key \in MovingKeys
  <2>1. RowKey(a, e, key) = Previewed(a, Validated(Moving(e, key, EditRows(e, a.area))))
    BY <1>4 DEF RowKey, MovingKeys
  <2>2. EditOK(Validated(Moving(e, key, EditRows(e, a.area))), a.user)
    BY <1>1, <1>4, MovingOK, ValidatedOK DEF EditOK
  <2> QED BY <2>1, <2>2, PreviewedIdle
<1>5. CASE key \notin {"ctrl-s", "esc", "q"} \cup MovingKeys
  <2>1. RowKey(a, e, key) = a
    BY <1>5 DEF RowKey
  <2> QED BY <2>1, IdleItself
<1> QED BY <1>2, <1>3, <1>4, <1>5

LEMMA SelectedIdle ==
  ASSUME NEW a, AppOK(a), a.mode.kind = "config", NEW to \in Int, NEW rows,
         (a.mode.list = <<>> /\ a.mode.typing = <<>>) \/ to = a.mode.selected
  PROVE  Idle(a, [a EXCEPT !.mode = Selected(a.mode, to, rows)])
<1> DEFINE v == Selected(a.mode, to, rows)
<1>1. EditOK(a.mode, a.user)
  BY DEF AppOK, ModeOK
<1>2. DraftOK(v, a.user) /\ v.draft = a.mode.draft /\ v.problems = a.mode.problems
  BY <1>1, SelectedOK DEF EditOK
<1> HIDE DEF v
<1>3. EditOK(v, a.user)
  BY <1>1, <1>2 DEF EditOK
<1>4. Idle(a, [a EXCEPT !.mode = v])
  BY <1>2, <1>3, WalkedIdle
<1> QED BY <1>4 DEF v

LEMMA KeptInViewIdle == ASSUME NEW a, AppOK(a) PROVE Idle(a, KeptInView(a))
<1>1. CASE a.mode.kind # "config"
  BY <1>1, IdleItself DEF KeptInView
<1>2. CASE a.mode.kind = "config"
  <2> DEFINE rows == EditRows(a.mode, a.area)
  <2>1. KeptInView(a) = [a EXCEPT !.mode = Selected(a.mode, a.mode.selected, rows)]
    BY <1>2 DEF KeptInView, AppOK, AppFields
  <2>2. a.mode.selected \in Int
    BY <1>2 DEF AppOK, ModeOK, EditOK, DraftOK
  <2> HIDE DEF rows
  <2>3. Idle(a, [a EXCEPT !.mode = Selected(a.mode, a.mode.selected, rows)])
    BY <1>2, <2>2, SelectedIdle
  <2> QED BY <2>1, <2>3, Zenon
<1> QED BY <1>1, <1>2

LEMMA ConfigKeyIdle ==
  ASSUME NEW a, AppOK(a), a.mode.kind = "config", NEW key
  PROVE  Idle(a, ConfigKey(a, key))
<1> DEFINE x == KeyInside(a, a.mode, key)
<1>1. Idle(a, x)
  <2>1. CASE a.mode.list # <<>>
    BY <2>1, ListKeyIdle DEF KeyInside
  <2>2. CASE a.mode.list = <<>> /\ a.mode.typing # <<>>
    BY <2>2, TypingKeyIdle DEF KeyInside
  <2>3. CASE a.mode.list = <<>> /\ a.mode.typing = <<>>
    BY <2>3, RowKeyIdle DEF KeyInside
  <2> QED BY <2>1, <2>2, <2>3
<1> HIDE DEF x
<1>2. Idle(x, KeptInView(x))
  BY <1>1, KeptInViewIdle DEF Idle, Kept
<1>3. ConfigKey(a, key) = KeptInView(x)
  BY DEF ConfigKey, x
<1> QED BY <1>1, <1>2, <1>3, IdleTwice

\* Whatever is typed reads as a list there is, where it reads as one.
LEMMA ConfigTypesIdle ==
  ASSUME NEW a, AppOK(a), a.mode.kind = "config", NEW text \in Typed[FieldOf(a.mode)]
  PROVE  Idle(a, ConfigTypes(a, text))
<1> DEFINE e == a.mode
           v == [e EXCEPT !.typing = <<text>>]
<1>1. EditOK(e, a.user)
  BY DEF AppOK, ModeOK
<1>2. ConfigTypes(a, text) = [a EXCEPT !.mode = v]
  BY <1>1 DEF ConfigTypes, AppOK, AppFields
<1>3. /\ DOMAIN v = EditFields /\ v.typing = <<text>>
      /\ \A f \in EditFields \ {"typing", "error"} : v[f] = e[f]
  BY <1>1 DEF EditOK, DraftOK, EditFields
<1>4. Listed(FieldOf(e), text)
  BY DEF Listed, KeyLists
<1> HIDE DEF v
<1>5. v.typing[1] = text
  BY <1>3
<1>6. EditOK(v, a.user) /\ v.draft = e.draft
  BY <1>1, <1>3, <1>4, <1>5, RetypedOK
<1>7. Idle(a, [a EXCEPT !.mode = v])
  BY <1>6, WalkedIdle
<1> QED BY <1>2, <1>7, Zenon

LEMMA WheelConfigIdle ==
  ASSUME NEW a, AppOK(a), a.mode.kind = "config", NEW down \in BOOLEAN
  PROVE  Idle(a, WheelConfig(a, a.mode, down))
<1>1. CASE a.mode.typing # <<>>
  BY <1>1, IdleItself DEF WheelConfig
<1>2. CASE a.mode.typing = <<>> /\ a.mode.list # <<>>
  BY <1>2, ConfigKeyIdle DEF WheelConfig
<1>3. CASE a.mode.typing = <<>> /\ a.mode.list = <<>>
  <2> DEFINE to == a.mode.selected + IF down THEN 1 ELSE -1
             rows == EditRows(a.mode, a.area)
  <2>1. a.mode.selected \in Int
    BY DEF AppOK, ModeOK, EditOK, DraftOK
  <2>2. to \in Int
    BY <2>1
  <2>3. WheelConfig(a, a.mode, down) = [a EXCEPT !.mode = Selected(a.mode, to, rows)]
    BY <1>3 DEF WheelConfig
  <2> HIDE DEF to, rows
  <2>4. Idle(a, [a EXCEPT !.mode = Selected(a.mode, to, rows)])
    BY <1>3, <2>2, SelectedIdle
  <2> QED BY <2>3, <2>4, Zenon
<1> QED BY <1>1, <1>2, <1>3

LEMMA ClickConfigIdle ==
  ASSUME NEW a, AppOK(a), a.mode.kind = "config", NEW line
  PROVE  Idle(a, ClickConfig(a, a.mode, line))
<1>1. CASE a.mode.typing # <<>>
  BY <1>1, IdleItself DEF ClickConfig
<1>2. CASE a.mode.typing = <<>> /\ a.mode.list # <<>>
  BY <1>2, ConfigKeyIdle DEF ClickConfig
<1>3. CASE a.mode.typing = <<>> /\ a.mode.list = <<>>
  <2> DEFINE hit == ConfigRowAt(Sections, a.mode.scroll, line, ConfigTop(a.area))
             rows == EditRows(a.mode, a.area)
  <2>1. ClickConfig(a, a.mode, line) = ClickRow(a, a.mode, hit)
    BY <1>3 DEF ClickConfig
  <2>2. hit = NoEntry \/ hit \in a.mode.scroll .. Len(Sections)
    BY DEF ConfigRowAt
  <2>3. hit \in Int
    BY <2>2 DEF NoEntry
  <2> HIDE DEF hit, rows
  <2>4. CASE hit = NoEntry
    <3>1. ClickRow(a, a.mode, hit) = a
      <4>1. hit # a.mode.selected
        BY <2>4 DEF NoEntry, AppOK, ModeOK, EditOK, DraftOK
      <4> QED BY <2>4, <4>1 DEF ClickRow
    <3> QED BY <2>1, <3>1, IdleItself
  <2>5. CASE hit # NoEntry /\ hit = a.mode.selected
    BY <2>1, <2>5, ConfigKeyIdle DEF ClickRow
  <2>6. CASE hit # NoEntry /\ hit # a.mode.selected
    <3>1. ClickRow(a, a.mode, hit) = [a EXCEPT !.mode = Selected(a.mode, hit, rows)]
      BY <2>6 DEF ClickRow, rows
    <3>2. Idle(a, [a EXCEPT !.mode = Selected(a.mode, hit, rows)])
      BY <1>3, <2>3, SelectedIdle
    <3> QED BY <2>1, <3>1, <3>2, Zenon
  <2> QED BY <2>4, <2>5, <2>6
<1> QED BY <1>1, <1>2, <1>3

-----------------------------------------------------------------------------
(* The rows and the lists, which touch nothing of the config or the dividers *)

LEMMA FollowCursorStays == ASSUME NEW a, DOMAIN a = AppFields PROVE Stays(a, FollowCursor(a))
<1>1. PICK s, f : FollowCursor(a) = [a EXCEPT !.scroll = s, !.followed = f]
  BY DEF FollowCursor
<1> QED BY <1>1 DEF Stays, SameButMode, AppFields

LEMMA FollowPlanStays == ASSUME NEW a, DOMAIN a = AppFields PROVE Stays(a, FollowPlan(a))
<1>1. PICK t : FollowPlan(a) = [a EXCEPT !.top = t]
  BY DEF FollowPlan
<1> QED BY <1>1 DEF Stays, SameButMode, AppFields

LEMMA RemeasureStays == ASSUME NEW a, DOMAIN a = AppFields PROVE Stays(a, Remeasure(a))
<1>1. Stays(a, FollowCursor(a))
  BY FollowCursorStays
<1>2. Stays(FollowCursor(a), FollowPlan(FollowCursor(a)))
  BY <1>1, FollowPlanStays DEF Stays, SameButMode
<1> QED BY <1>1, <1>2, StaysTwice DEF Remeasure

LEMMA RebuildStays == ASSUME NEW a, DOMAIN a = AppFields PROVE Stays(a, Rebuild(a))
<1>1. PICK c : Rebuild(a) = [a EXCEPT !.cursor = c]
  BY DEF Rebuild
<1> QED BY <1>1 DEF Stays, SameButMode, AppFields

LEMMA SelectEntryStays == ASSUME NEW a, DOMAIN a = AppFields, NEW to PROVE Stays(a, SelectEntry(a, to))
<1> DEFINE place == [a.at EXCEPT ![a.view] = Held(to, 1, Len(PlanHeights(a)))]
           b == [a EXCEPT !.at = place, !.cursor = 1, !.scroll = 1]
<1>1. Stays(a, b)
  <2> HIDE DEF place
  <2> QED BY DEF Stays, SameButMode, AppFields
<1>2. SelectEntry(a, to) = Rebuild(FollowPlan(b))
  BY DEF SelectEntry, AppFields
<1> HIDE DEF b
<1>3. Stays(b, FollowPlan(b))
  BY <1>1, FollowPlanStays DEF Stays, SameButMode
<1>4. Stays(FollowPlan(b), Rebuild(FollowPlan(b)))
  BY <1>3, RebuildStays DEF Stays, SameButMode
<1> QED BY <1>1, <1>2, <1>3, <1>4, StaysTwice

LEMMA OntoStays == ASSUME NEW a, DOMAIN a = AppFields, NEW row PROVE Stays(a, Onto(a, row))
<1> DEFINE b == [a EXCEPT !.cursor = row]
<1>1. Stays(a, b)
  BY DEF Stays, SameButMode, AppFields
<1>2. Onto(a, row) = FollowCursor(b)
  BY DEF Onto
<1> HIDE DEF b
<1>3. Stays(b, FollowCursor(b))
  BY <1>1, FollowCursorStays DEF Stays, SameButMode
<1> QED BY <1>1, <1>2, <1>3, StaysTwice

LEMMA MoveCursorStays == ASSUME NEW a, DOMAIN a = AppFields, NEW down PROVE Stays(a, MoveCursor(a, down))
<1>1. PICK row : MoveCursor(a, down) = Onto(a, row)
  BY DEF MoveCursor
<1> QED BY <1>1, OntoStays

LEMMA HalfPageStays == ASSUME NEW a, DOMAIN a = AppFields, NEW down PROVE Stays(a, HalfPage(a, down))
<1>1. \E row : HalfPage(a, down) = Onto(a, row)
  BY Zenon DEF HalfPage
<1> QED BY <1>1, OntoStays

\* Onto a row, in the diff.
LEMMA OntoInDiffStays ==
  ASSUME NEW a, DOMAIN a = AppFields, NEW row
  PROVE  Stays(a, [Onto(a, row) EXCEPT !.focus = "detail"])
<1> DEFINE b == Onto(a, row)
<1>1. Stays(a, b)
  BY OntoStays
<1> HIDE DEF b
<1>2. Stays(b, [b EXCEPT !.focus = "detail"])
  BY <1>1 DEF Stays, SameButMode, AppFields
<1>3. Stays(a, [b EXCEPT !.focus = "detail"])
  BY <1>1, <1>2, StaysTwice
<1> QED BY <1>3 DEF b

LEMMA JumpHunkStays == ASSUME NEW a, DOMAIN a = AppFields, NEW down PROVE Stays(a, JumpHunk(a, down))
<1>1. JumpHunk(a, down) = a \/ \E row : JumpHunk(a, down) = [Onto(a, row) EXCEPT !.focus = "detail"]
  BY Zenon DEF JumpHunk
<1>2. Stays(a, a)
  BY DEF Stays, SameButMode
<1>3. ASSUME NEW row, JumpHunk(a, down) = [Onto(a, row) EXCEPT !.focus = "detail"]
      PROVE  Stays(a, JumpHunk(a, down))
  <2>1. Stays(a, [Onto(a, row) EXCEPT !.focus = "detail"])
    BY OntoInDiffStays
  <2> QED BY <1>3, <2>1, Zenon
<1> QED BY <1>1, <1>2, <1>3

LEMMA LandStays == ASSUME NEW a, DOMAIN a = AppFields, NEW row PROVE Stays(a, Land(a, row))
<1>1. \E to : Land(a, row) = [Onto(a, to) EXCEPT !.focus = "detail"]
  BY Zenon DEF Land
<1>2. PICK to : Land(a, row) = [Onto(a, to) EXCEPT !.focus = "detail"]
  BY <1>1
<1>3. Stays(a, [Onto(a, to) EXCEPT !.focus = "detail"])
  BY OntoInDiffStays
<1> QED BY <1>2, <1>3, Zenon

LEMMA ToggleSplitStays == ASSUME NEW a, DOMAIN a = AppFields PROVE Stays(a, ToggleSplit(a))
<1> DEFINE b == [a EXCEPT !.recorded = ~Split(a)]
           laid == Rebuild(b)
<1>1. Stays(a, b)
  BY DEF Stays, SameButMode, AppFields
<1>2. ToggleSplit(a) = laid \/ \E row : ToggleSplit(a) = Onto(laid, row)
  BY Zenon DEF ToggleSplit
<1> HIDE DEF b
<1>3. Stays(b, laid)
  BY <1>1, RebuildStays DEF Stays, SameButMode
<1> HIDE DEF laid
<1>4. Stays(a, laid)
  BY <1>1, <1>3, StaysTwice
<1>5. \A row : Stays(laid, Onto(laid, row))
  BY <1>4, OntoStays DEF Stays, SameButMode
<1> QED BY <1>2, <1>4, <1>5, StaysTwice

LEMMA ToggleWrapStays == ASSUME NEW a, DOMAIN a = AppFields PROVE Stays(a, ToggleWrap(a))
<1> DEFINE b == [a EXCEPT !.wrap = ~a.wrap]
<1>1. Stays(a, b)
  BY DEF Stays, SameButMode, AppFields
<1>2. ToggleWrap(a) = FollowCursor(b)
  BY DEF ToggleWrap, AppFields
<1> HIDE DEF b
<1>3. Stays(b, FollowCursor(b))
  BY <1>1, FollowCursorStays DEF Stays, SameButMode
<1> QED BY <1>1, <1>2, <1>3, StaysTwice

\* The other list, whose divider is its own.
LEMMA ToggleFileViewIdle == ASSUME NEW a, AppOK(a) PROVE Idle(a, ToggleFileView(a))
<1> DEFINE view == IF a.view = "groups" THEN "files" ELSE "groups"
           b == [a EXCEPT !.view = view, !.cursor = 1, !.scroll = 1]
           c == Rebuild(FollowPlan(Remeasure(b)))
<1>1. view \in Views
  BY DEF Views
<1> HIDE DEF view
<1>2. /\ DOMAIN b = AppFields /\ b.view = view
      /\ b.user = a.user /\ b.bound = a.bound /\ b.file = a.file /\ b.shown = a.shown
      /\ b.area = a.area /\ b.cols = a.cols /\ b.offset = a.offset /\ b.mode = a.mode /\ b.grab = a.grab
  BY DEF AppOK, AppFields
<1>3. ToggleFileView(a) = c
  BY DEF ToggleFileView, AppOK, AppFields, view
<1> HIDE DEF b
<1>4. Idle(a, b)
  BY <1>1, <1>2 DEF AppOK, ConfigRuns, Divided, Wears, Kept, Idle
<1>5. Stays(b, Remeasure(b))
  BY <1>2, RemeasureStays
<1>6. Stays(Remeasure(b), FollowPlan(Remeasure(b)))
  BY <1>5, FollowPlanStays DEF Stays, SameButMode
<1>7. Stays(FollowPlan(Remeasure(b)), c)
  BY <1>6, RebuildStays DEF Stays, SameButMode
<1>8. Stays(b, c)
  BY <1>5, <1>6, <1>7, StaysTwice
<1> HIDE DEF c
<1>9. Idle(b, c)
  BY <1>4, <1>8, StaysIsIdle DEF Idle, Kept
<1> QED BY <1>3, <1>4, <1>9, IdleTwice

-----------------------------------------------------------------------------
(* What opens and closes over the panes, `:config` apart *)

Calm(a) == DOMAIN a = AppFields /\ Plainly(a.mode)
Turns(a, b) == SameButMode(a, b) /\ b.grab = a.grab /\ Plainly(b.mode)

LEMMA TurnsIsIdle ==
  ASSUME NEW a, AppOK(a), NEW b, Turns(a, b), b.mode.kind = "quit" \/ a.mode.kind \notin {"config", "quit"}
  PROVE  Idle(a, b)
<1>1. AppOK(b)
  BY DEF Turns, AppOK, SameButMode, ConfigRuns, Divided, ModeOK, Plainly
<1>2. Wears(a) => Wears(b)
  BY DEF Turns, SameButMode, Wears, Plainly
<1> QED BY <1>1, <1>2 DEF Idle, Kept, Turns, SameButMode

LEMMA TurnsTwice == ASSUME NEW a, NEW b, NEW c, Turns(a, b), Turns(b, c) PROVE Turns(a, c)
BY DEF Turns, SameButMode

LEMMA TurnsIsCalm == ASSUME NEW a, NEW b, Turns(a, b) PROVE Calm(b) /\ DOMAIN b = AppFields
BY DEF Turns, SameButMode, Calm

LEMMA TurnsThenStays == ASSUME NEW a, NEW b, NEW c, Turns(a, b), Stays(b, c) PROVE Turns(a, c)
BY DEF Turns, SameButMode, Stays

LEMMA StaysTurns == ASSUME NEW a, Calm(a), NEW b, Stays(a, b) PROVE Turns(a, b)
BY DEF Turns, Stays, Calm

LEMMA TurnsItself == ASSUME NEW a, Calm(a) PROVE Turns(a, a)
BY DEF Turns, SameButMode, Calm

LEMMA AppIsCalm == ASSUME NEW a, AppOK(a), a.mode.kind # "config" PROVE Calm(a)
BY DEF AppOK, ModeOK, Plainly, Calm

LEMMA OpensTurns ==
  ASSUME NEW a, DOMAIN a = AppFields, NEW m, Plainly(m)
  PROVE  Turns(a, [a EXCEPT !.mode = m]) /\ [a EXCEPT !.mode = m].mode = m
BY DEF Turns, SameButMode, AppFields

\* The kind is what it was: a step in a list, a line in a box.
LEMMA WalksTurns ==
  ASSUME NEW a, Calm(a), a.mode.kind # "help", NEW m, DOMAIN m = DOMAIN a.mode, m.kind = a.mode.kind
  PROVE  Turns(a, [a EXCEPT !.mode = m])
<1>1. Plainly(m)
  BY DEF Calm, Plainly
<1> QED BY <1>1, OpensTurns DEF Calm

LEMMA BackTurns == ASSUME NEW a, Calm(a) PROVE Turns(a, BackToReview(a)) /\ BackToReview(a).mode = Normal
<1>1. Plainly(Normal)
  BY DEF Plainly, Normal
<1> QED BY <1>1, OpensTurns DEF BackToReview, Calm

LEMMA SelectsTurns ==
  ASSUME NEW a, Calm(a), a.mode.kind # "help", NEW x
  PROVE  Turns(a, [a EXCEPT !.mode.selected = x])
<1> DEFINE m == [a.mode EXCEPT !.selected = x]
<1>1. DOMAIN m = DOMAIN a.mode /\ m.kind = a.mode.kind
  BY DEF Calm, Plainly
<1>2. [a EXCEPT !.mode.selected = x] = [a EXCEPT !.mode = m]
  BY DEF Calm, AppFields
<1> HIDE DEF m
<1>3. Turns(a, [a EXCEPT !.mode = m])
  BY <1>1, WalksTurns
<1> QED BY <1>2, <1>3, Zenon

LEMMA ScrollsTurns ==
  ASSUME NEW a, Calm(a), a.mode.kind # "help", NEW x, NEW y
  PROVE  Turns(a, [a EXCEPT !.mode.selected = x, !.mode.scroll = y])
<1> DEFINE m == [a.mode EXCEPT !.selected = x, !.scroll = y]
<1>1. DOMAIN m = DOMAIN a.mode /\ m.kind = a.mode.kind
  BY DEF Calm, Plainly
<1>2. [a EXCEPT !.mode.selected = x, !.mode.scroll = y] = [a EXCEPT !.mode = m]
  BY DEF Calm, AppFields
<1> HIDE DEF m
<1>3. Turns(a, [a EXCEPT !.mode = m])
  BY <1>1, WalksTurns
<1> QED BY <1>2, <1>3, Zenon

LEMMA ConfirmsTurns ==
  ASSUME NEW a, Calm(a), a.mode.kind # "help", NEW x
  PROVE  Turns(a, [a EXCEPT !.mode.confirming = x])
<1> DEFINE m == [a.mode EXCEPT !.confirming = x]
<1>1. DOMAIN m = DOMAIN a.mode /\ m.kind = a.mode.kind
  BY DEF Calm, Plainly
<1>2. [a EXCEPT !.mode.confirming = x] = [a EXCEPT !.mode = m]
  BY DEF Calm, AppFields
<1> HIDE DEF m
<1>3. Turns(a, [a EXCEPT !.mode = m])
  BY <1>1, WalksTurns
<1> QED BY <1>2, <1>3, Zenon

LEMMA StepTurns ==
  ASSUME NEW a, Calm(a), a.mode.kind # "help", NEW len, NEW rows, NEW down
  PROVE  Turns(a, [a EXCEPT !.mode = Step(a.mode, len, rows, down)])
<1> DEFINE m == Step(a.mode, len, rows, down)
<1>1. DOMAIN m = DOMAIN a.mode /\ m.kind = a.mode.kind
  BY DEF Calm, Plainly, Step
<1> HIDE DEF m
<1>2. Turns(a, [a EXCEPT !.mode = m])
  BY <1>1, WalksTurns
<1> QED BY <1>2 DEF m

-----------------------------------------------------------------------------
(* The file list *)

LEMMA OpenFileListTurns == ASSUME NEW a, Calm(a) PROVE Turns(a, OpenFileList(a))
<1> DEFINE m == [kind |-> "files", selected |-> 1, scroll |-> 1]
<1>1. Plainly(m)
  BY DEF Plainly
<1> HIDE DEF m
<1>2. Turns(a, [a EXCEPT !.mode = m])
  BY <1>1, OpensTurns DEF Calm
<1> QED BY <1>2, TurnsItself, Zenon DEF OpenFileList, m

LEMMA LandsTurns == ASSUME NEW a, Calm(a), NEW row PROVE Turns(a, Land(BackToReview(a), row))
<1>1. Turns(a, BackToReview(a))
  BY BackTurns
<1>2. Stays(BackToReview(a), Land(BackToReview(a), row))
  BY <1>1, TurnsIsCalm, LandStays
<1> QED BY <1>1, <1>2, TurnsThenStays

LEMMA GoToFileTurns == ASSUME NEW a, Calm(a) PROVE Turns(a, GoToFile(a))
<1>1. \E row : GoToFile(a) = Land(BackToReview(a), row)
  BY Zenon DEF GoToFile
<1> QED BY <1>1, LandsTurns

LEMMA ClickFilesTurns == ASSUME NEW a, Calm(a), a.mode.kind # "help", NEW line PROVE Turns(a, ClickFiles(a, line))
<1> DEFINE hit == FileHit(a.mode, line)
           b == [a EXCEPT !.mode.selected = hit]
<1>1. ClickFiles(a, line) = a \/ ClickFiles(a, line) = GoToFile(a) \/ ClickFiles(a, line) = b
  BY DEF ClickFiles
<1>2. Turns(a, b)
  BY SelectsTurns
<1> HIDE DEF b
<1> QED BY <1>1, <1>2, TurnsItself, GoToFileTurns

-----------------------------------------------------------------------------
(* The findings *)

LEMMA OpenFindingsTurns ==
  ASSUME NEW a, Calm(a)
  PROVE  /\ Turns(a, OpenFindings(a))
         /\ OpenFindings(a).mode.kind \in {"findings", a.mode.kind}
<1> DEFINE m == [kind |-> "findings", selected |-> 1, scroll |-> 1, confirming |-> FALSE]
<1>1. Plainly(m) /\ m.kind = "findings"
  BY DEF Plainly
<1>2. OpenFindings(a) = a \/ OpenFindings(a) = [a EXCEPT !.mode = m]
  BY DEF OpenFindings
<1> HIDE DEF m
<1>3. Turns(a, [a EXCEPT !.mode = m]) /\ [a EXCEPT !.mode = m].mode = m
  BY <1>1, OpensTurns DEF Calm
<1>4. CASE OpenFindings(a) = a
  BY <1>4, TurnsItself
<1>5. CASE OpenFindings(a) = [a EXCEPT !.mode = m]
  BY <1>1, <1>3, <1>5, Zenon
<1> QED BY <1>2, <1>4, <1>5

LEMMA ReopenFindingsTurns == ASSUME NEW a, Calm(a), NEW mode PROVE Turns(a, ReopenFindings(a, mode))
<1> DEFINE opened == OpenFindings(BackToReview(a))
<1>1. Turns(a, BackToReview(a)) /\ BackToReview(a).mode = Normal /\ Calm(BackToReview(a))
  BY BackTurns, TurnsIsCalm
<1>2. Turns(BackToReview(a), opened) /\ opened.mode.kind \in {"findings", "normal"}
  BY <1>1, OpenFindingsTurns DEF Normal
<1>3. Turns(a, opened) /\ Calm(opened) /\ opened.mode.kind # "help"
  BY <1>1, <1>2, TurnsTwice, TurnsIsCalm
<1>4. \/ ReopenFindings(a, mode) = opened
      \/ \E x, y : ReopenFindings(a, mode) = [opened EXCEPT !.mode.selected = x, !.mode.scroll = y]
  BY Zenon DEF ReopenFindings
<1> HIDE DEF opened
<1>5. CASE \E x, y : ReopenFindings(a, mode) = [opened EXCEPT !.mode.selected = x, !.mode.scroll = y]
  <2>1. PICK x, y : ReopenFindings(a, mode) = [opened EXCEPT !.mode.selected = x, !.mode.scroll = y]
    BY <1>5
  <2> DEFINE b == [opened EXCEPT !.mode.selected = x, !.mode.scroll = y]
  <2>2. Turns(opened, b)
    BY <1>3, ScrollsTurns
  <2> HIDE DEF b
  <2>3. Turns(a, b)
    BY <1>3, <2>2, TurnsTwice
  <2> QED BY <2>1, <2>3 DEF b
<1> QED BY <1>3, <1>4, <1>5

\* The list after an entry went.
LEMMA AfterEntriesTurns ==
  ASSUME NEW a, Calm(a), NEW entries, NEW mode
  PROVE  Turns(a, ReopenFindings(Rebuild([a EXCEPT !.entries = entries]), mode))
<1> DEFINE b == [a EXCEPT !.entries = entries]
           c == Rebuild(b)
<1>1. Turns(a, b)
  BY DEF Turns, SameButMode, AppFields, Calm
<1> HIDE DEF b
<1>2. Stays(b, c)
  BY <1>1, RebuildStays DEF Turns, SameButMode
<1> HIDE DEF c
<1>3. Turns(a, c)
  BY <1>1, <1>2, TurnsThenStays
<1>4. Turns(c, ReopenFindings(c, mode))
  BY <1>3, TurnsIsCalm, ReopenFindingsTurns
<1>5. Turns(a, ReopenFindings(c, mode))
  BY <1>3, <1>4, TurnsTwice
<1> QED BY <1>5 DEF c, b

LEMMA DeleteFindingTurns == ASSUME NEW a, Calm(a) PROVE Turns(a, DeleteFinding(a))
<1> DEFINE c == [a EXCEPT !.mode = Question]
           left == RemoveAt(a.entries, a.mode.selected)
           b == ReopenFindings(Rebuild([a EXCEPT !.entries = left]), a.mode)
<1>1. DeleteFinding(a) = b \/ DeleteFinding(a) = c
  BY DEF DeleteFinding, Calm, AppFields
<1>2. Plainly(Question)
  BY DEF Plainly, Question
<1>3. Turns(a, c)
  BY <1>2, OpensTurns DEF Calm
<1> HIDE DEF left
<1>4. Turns(a, b)
  BY AfterEntriesTurns
<1> HIDE DEF b, c
<1> QED BY <1>1, <1>3, <1>4

LEMMA ClearFindingsTurns == ASSUME NEW a, Calm(a) PROVE Turns(a, ClearFindings(a))
<1>1. \E entries : ClearFindings(a) = ReopenFindings(Rebuild([a EXCEPT !.entries = entries]), a.mode)
  BY Zenon DEF ClearFindings
<1>2. PICK entries : ClearFindings(a) = ReopenFindings(Rebuild([a EXCEPT !.entries = entries]), a.mode)
  BY <1>1
<1>3. Turns(a, ReopenFindings(Rebuild([a EXCEPT !.entries = entries]), a.mode))
  BY AfterEntriesTurns
<1> QED BY <1>2, <1>3, Zenon

LEMMA AskToClearTurns == ASSUME NEW a, Calm(a), a.mode.kind # "help" PROVE Turns(a, AskToClear(a))
BY ConfirmsTurns DEF AskToClear

LEMMA FindingsStepTurns == ASSUME NEW a, Calm(a), a.mode.kind # "help", NEW down PROVE Turns(a, FindingsStep(a, down))
<1>1. \E x, y : FindingsStep(a, down) = [a EXCEPT !.mode.selected = x, !.mode.scroll = y]
  BY Zenon DEF FindingsStep
<1>2. PICK x, y : FindingsStep(a, down) = [a EXCEPT !.mode.selected = x, !.mode.scroll = y]
  BY <1>1
<1>3. Turns(a, [a EXCEPT !.mode.selected = x, !.mode.scroll = y])
  BY ScrollsTurns
<1> QED BY <1>2, <1>3, Zenon

LEMMA GoToFindingTurns == ASSUME NEW a, Calm(a) PROVE Turns(a, GoToFinding(a))
BY BackTurns, LandsTurns DEF GoToFinding, Jumped

LEMMA ClickFindingsTurns ==
  ASSUME NEW a, Calm(a), a.mode.kind # "help", NEW line
  PROVE  Turns(a, ClickFindings(a, line))
<1> DEFINE hit == FindingHit(a, line)
           b == [a EXCEPT !.mode.selected = hit]
<1>1. ClickFindings(a, line) = a \/ ClickFindings(a, line) = GoToFinding(a) \/ ClickFindings(a, line) = b
  BY DEF ClickFindings
<1>2. Turns(a, b)
  BY SelectsTurns
<1> HIDE DEF b
<1> QED BY <1>1, <1>2, TurnsItself, GoToFindingTurns

LEMMA ConfirmedTurns == ASSUME NEW a, Calm(a), a.mode.kind # "help", NEW key PROVE Turns(a, Confirmed(a, key))
<1> DEFINE b == [a EXCEPT !.mode.confirming = FALSE]
<1>1. Turns(a, b)
  BY ConfirmsTurns
<1>2. Confirmed(a, key) = ClearFindings(b) \/ Confirmed(a, key) = b
  BY DEF Confirmed
<1> HIDE DEF b
<1>3. Turns(b, ClearFindings(b))
  BY <1>1, TurnsIsCalm, ClearFindingsTurns
<1> QED BY <1>1, <1>2, <1>3, TurnsTwice

-----------------------------------------------------------------------------
(* The search *)

LEMMA SearchedPlainly == ASSUME NEW query PROVE Plainly(Searched(query))
BY DEF Plainly, Searched

LEMMA OpenSearchTurns == ASSUME NEW a, Calm(a) PROVE Turns(a, OpenSearch(a))
<1> DEFINE m(x, y) == [Searched(a.last.query) EXCEPT !.selected = x, !.scroll = y]
<1>1. \E x, y : OpenSearch(a) = [a EXCEPT !.mode = m(x, y)]
  BY Zenon DEF OpenSearch
<1>2. PICK x, y : OpenSearch(a) = [a EXCEPT !.mode = m(x, y)]
  BY <1>1
<1>3. Plainly(m(x, y))
  BY DEF Plainly, Searched
<1> HIDE DEF m
<1>4. Turns(a, [a EXCEPT !.mode = m(x, y)])
  BY <1>3, OpensTurns DEF Calm
<1> QED BY <1>2, <1>4, Zenon

LEMMA CloseSearchTurns ==
  ASSUME NEW a, Calm(a)
  PROVE  Turns(a, CloseSearch(a)) /\ CloseSearch(a).mode = Normal
<1> DEFINE b == BackToReview(a)
           v == [query |-> a.mode.query, hit |-> a.mode.selected]
<1>1. Turns(a, b) /\ b.mode = Normal /\ DOMAIN b = AppFields
  BY BackTurns, TurnsIsCalm
<1>2. CloseSearch(a) = [b EXCEPT !.last = v]
  BY DEF CloseSearch
<1> HIDE DEF b, v
<1>3. Turns(b, [b EXCEPT !.last = v]) /\ [b EXCEPT !.last = v].mode = b.mode
  BY <1>1 DEF Turns, SameButMode, AppFields
<1>4. Turns(a, [b EXCEPT !.last = v]) /\ [b EXCEPT !.last = v].mode = Normal
  BY <1>1, <1>3, TurnsTwice
<1> QED BY <1>2, <1>4, Zenon

LEMMA SearchStepTurns == ASSUME NEW a, Calm(a), a.mode.kind # "help", NEW down PROVE Turns(a, SearchStep(a, down))
<1>1. SearchStep(a, down) = [a EXCEPT !.mode = Step(a.mode, Hits[a.mode.query], SearchShown(a), down)]
  BY DEF SearchStep, Calm, AppFields
<1>2. Turns(a, [a EXCEPT !.mode = Step(a.mode, Hits[a.mode.query], SearchShown(a), down)])
  BY StepTurns
<1> QED BY <1>1, <1>2, Zenon

LEMMA SearchJumpTurns == ASSUME NEW a, Calm(a) PROVE Turns(a, SearchJump(a))
<1>1. Turns(a, CloseSearch(a))
  BY CloseSearchTurns
<1>2. Stays(CloseSearch(a), Land(CloseSearch(a), Landing))
  BY <1>1, TurnsIsCalm, LandStays
<1>3. Turns(a, Land(CloseSearch(a), Landing))
  BY <1>1, <1>2, TurnsThenStays
<1> QED BY <1>3, TurnsItself DEF SearchJump

LEMMA SearchTypesTurns == ASSUME NEW a, Calm(a), NEW query PROVE Turns(a, SearchTypes(a, query))
BY SearchedPlainly, OpensTurns DEF SearchTypes, Calm

LEMMA SearchKeyTurns == ASSUME NEW a, Calm(a), a.mode.kind # "help", NEW key PROVE Turns(a, SearchKey(a, key))
<1>1. SearchKey(a, key) \in {CloseSearch(a), SearchJump(a), SearchStep(a, TRUE), SearchStep(a, FALSE), a}
  BY DEF SearchKey
<1> QED BY <1>1, CloseSearchTurns, SearchJumpTurns, SearchStepTurns, TurnsItself

LEMMA ClickSearchTurns ==
  ASSUME NEW a, Calm(a), a.mode.kind # "help", NEW line
  PROVE  Turns(a, ClickSearch(a, line))
<1> DEFINE hit == SearchHit(a, line)
           to == Follow(hit, a.mode.scroll, SearchShown(a))
           b == [a EXCEPT !.mode.selected = hit, !.mode.scroll = to]
<1>1. ClickSearch(a, line) = a \/ ClickSearch(a, line) = SearchJump(a) \/ ClickSearch(a, line) = b
  BY DEF ClickSearch, Calm, AppFields
<1> HIDE DEF hit, to
<1>2. Turns(a, b)
  BY ScrollsTurns
<1> HIDE DEF b
<1> QED BY <1>1, <1>2, TurnsItself, SearchJumpTurns

-----------------------------------------------------------------------------
(* The command line, help, a question *)

LEMMA OpenCommandTurns == ASSUME NEW a, Calm(a) PROVE Turns(a, OpenCommand(a))
<1> DEFINE m == [kind |-> "command", typed |-> "", line |-> "", pick |-> 0]
<1>1. Plainly(m)
  BY DEF Plainly
<1> HIDE DEF m
<1>2. Turns(a, [a EXCEPT !.mode = m])
  BY <1>1, OpensTurns DEF Calm
<1> QED BY <1>2, Zenon DEF OpenCommand, m

LEMMA CommandTypesTurns ==
  ASSUME NEW a, Calm(a), a.mode.kind # "help", NEW text
  PROVE  Turns(a, CommandTypes(a, text))
<1> DEFINE m == [a.mode EXCEPT !.typed = text, !.line = text, !.pick = 0]
<1>1. DOMAIN m = DOMAIN a.mode /\ m.kind = a.mode.kind
  BY DEF Calm, Plainly
<1>2. CommandTypes(a, text) = [a EXCEPT !.mode = m]
  BY DEF Calm, AppFields, CommandTypes
<1> HIDE DEF m
<1>3. Turns(a, [a EXCEPT !.mode = m])
  BY <1>1, WalksTurns
<1> QED BY <1>2, <1>3, Zenon

LEMMA WalkTurns == ASSUME NEW a, Calm(a), a.mode.kind # "help", NEW by PROVE Turns(a, Walk(a, by))
<1> DEFINE m(x, y) == [a.mode EXCEPT !.pick = x, !.line = y]
           b(x, y) == [a EXCEPT !.mode.pick = x, !.mode.line = y]
<1>1. Walk(a, by) = a \/ \E x, y : Walk(a, by) = b(x, y)
  BY Zenon DEF Walk
<1>2. ASSUME NEW x, NEW y PROVE Turns(a, b(x, y))
  <2>1. DOMAIN m(x, y) = DOMAIN a.mode /\ m(x, y).kind = a.mode.kind
    BY DEF Calm, Plainly
  <2>2. b(x, y) = [a EXCEPT !.mode = m(x, y)]
    BY DEF Calm, AppFields
  <2> HIDE DEF m, b
  <2>3. Turns(a, [a EXCEPT !.mode = m(x, y)])
    BY <2>1, WalksTurns
  <2> QED BY <2>2, <2>3, Zenon
<1> HIDE DEF b
<1> QED BY <1>1, <1>2, TurnsItself

LEMMA OpenHelpTurns ==
  ASSUME NEW a, Calm(a), a.mode.kind \in Screened
  PROVE  Turns(a, OpenHelp(a)) /\ OpenHelp(a).mode.kind = "help"
<1> DEFINE m == [kind |-> "help", from |-> a.mode]
<1>1. Plainly(m) /\ m.kind = "help"
  BY DEF Plainly, Calm
<1> HIDE DEF m
<1>2. Turns(a, [a EXCEPT !.mode = m]) /\ [a EXCEPT !.mode = m].mode = m
  BY <1>1, OpensTurns DEF Calm
<1>3. OpenHelp(a) = [a EXCEPT !.mode = m]
  BY DEF OpenHelp, m
<1> QED BY <1>1, <1>2, <1>3, Zenon

\* Help goes back to what it was opened over.
LEMMA LeaveHelpTurns ==
  ASSUME NEW a, Calm(a), a.mode.kind = "help"
  PROVE  Turns(a, [a EXCEPT !.mode = a.mode.from])
<1>1. Plainly(a.mode.from)
  BY DEF Calm, Plainly, Screened
<1> QED BY <1>1, OpensTurns DEF Calm

LEMMA OfferPublishTurns == ASSUME NEW a, Calm(a) PROVE Turns(a, OfferPublish(a))
<1>1. Plainly(Question)
  BY DEF Plainly, Question
<1>2. Turns(a, [a EXCEPT !.mode = Question])
  BY <1>1, OpensTurns DEF Calm
<1> QED BY <1>2, TurnsItself, Zenon DEF OfferPublish

LEMMA StartFetchStays == ASSUME NEW a, DOMAIN a = AppFields PROVE Stays(a, StartFetch(a))
BY DEF StartFetch, Stays, SameButMode, AppFields

LEMMA QuitTurns ==
  ASSUME NEW a, DOMAIN a = AppFields
  PROVE  Turns(a, ToQuit(a)) /\ ToQuit(a).mode.kind = "quit"
<1> DEFINE m == [kind |-> "quit"]
<1>1. Plainly(m) /\ m.kind = "quit"
  BY DEF Plainly
<1> HIDE DEF m
<1>2. Turns(a, [a EXCEPT !.mode = m]) /\ [a EXCEPT !.mode = m].mode = m
  BY <1>1, OpensTurns
<1>3. ToQuit(a) = [a EXCEPT !.mode = m]
  BY DEF ToQuit, m
<1> QED BY <1>1, <1>2, <1>3, Zenon

LEMMA OpenConfigIdle == ASSUME NEW a, AppOK(a), a.mode = Normal PROVE Idle(a, OpenConfig(a))
<1> DEFINE e == ConfigEdit(a.user)
           b == OpenConfig(a)
<1>1. EditOK(e, a.user) /\ e.draft = a.user
  BY ConfigEditOK DEF AppOK, ConfigRuns, Opens, EditorOK
<1> HIDE DEF e
<1>2. DOMAIN b = AppFields /\ b.mode = e /\ \A f \in AppFields \ {"mode"} : b[f] = a[f]
  BY DEF OpenConfig, AppOK, AppFields, e
<1> HIDE DEF b
<1>3. /\ b.user = a.user /\ b.bound = a.bound /\ b.file = a.file /\ b.area = a.area /\ b.view = a.view
      /\ b.cols = a.cols /\ b.offset = a.offset /\ b.grab = a.grab /\ b.shown = a.shown
  BY <1>2 DEF AppFields
<1>4. e.kind = "config" /\ "kind" \in DOMAIN e /\ a.mode.kind = "normal"
  BY <1>1 DEF EditOK, DraftOK, EditFields, Normal
<1>5. AppOK(b)
  BY <1>1, <1>2, <1>3, <1>4 DEF AppOK, ConfigRuns, Divided, ModeOK
<1>6. Wears(a) => Wears(b)
  BY <1>1, <1>2, <1>3, <1>4 DEF Wears
<1> QED BY <1>3, <1>5, <1>6 DEF Idle, Kept, b

\* A command runs in the review it goes back to.
LEMMA RunCommandIdle == ASSUME NEW a, AppOK(a), a.mode = Normal, NEW name PROVE Idle(a, RunCommand(a, name))
<1>1. a.mode.kind = "normal" /\ Calm(a)
  BY AppIsCalm DEF Normal
<1>2. Idle(a, OpenConfig(a))
  BY OpenConfigIdle
<1>3. Turns(a, OpenHelp(a))
  BY <1>1, OpenHelpTurns DEF Screened
<1>4. Turns(a, OpenFindings(a)) /\ Turns(a, OpenSearch(a)) /\ Turns(a, OpenFileList(a))
      /\ Turns(a, OfferPublish(a)) /\ Turns(a, ToQuit(a)) /\ Turns(a, a)
  BY <1>1, OpenFindingsTurns, OpenSearchTurns, OpenFileListTurns, OfferPublishTurns, QuitTurns, TurnsItself DEF Calm
<1>5. Turns(a, StartFetch(a))
  BY <1>1, StartFetchStays, StaysTurns DEF Calm
<1>6. \A b : Turns(a, b) => Idle(a, b)
  BY <1>1, TurnsIsIdle
<1>7. RunCommand(a, name) \in
        {OpenConfig(a), OpenHelp(a), OpenFindings(a), OpenSearch(a), OpenFileList(a), OfferPublish(a),
         StartFetch(a), ToQuit(a), a}
  BY DEF RunCommand
<1> QED BY <1>2, <1>3, <1>4, <1>5, <1>6, <1>7

LEMMA CommandKeyIdle ==
  ASSUME NEW a, AppOK(a), a.mode.kind = "command", NEW key
  PROVE  Idle(a, CommandKey(a, key))
<1>1. Calm(a) /\ a.mode.kind \notin {"config", "quit"} /\ a.mode.kind # "help"
  BY AppIsCalm
<1>2. Turns(a, BackToReview(a)) /\ BackToReview(a).mode = Normal
  BY <1>1, BackTurns
<1>3. Idle(a, BackToReview(a))
  BY <1>1, <1>2, TurnsIsIdle
<1>4. Idle(BackToReview(a), RunCommand(BackToReview(a), a.mode.line))
  BY <1>2, <1>3, RunCommandIdle DEF Idle, Kept
<1>5. Idle(a, RunCommand(BackToReview(a), a.mode.line))
  BY <1>3, <1>4, IdleTwice
<1>6. Turns(a, Walk(a, 1)) /\ Turns(a, Walk(a, -1)) /\ Turns(a, a)
  BY <1>1, WalkTurns, TurnsItself
<1>7. Turns(a, CommandTypes(a, Completes[a.mode.line][1]))
  BY <1>1, CommandTypesTurns
<1>8. \A b : Turns(a, b) => Idle(a, b)
  BY <1>1, TurnsIsIdle
<1>9. CommandKey(a, key) \in
        {BackToReview(a), RunCommand(BackToReview(a), a.mode.line), Walk(a, 1), Walk(a, -1),
         CommandTypes(a, Completes[a.mode.line][1]), a}
  BY DEF CommandKey
<1> QED BY <1>3, <1>5, <1>6, <1>7, <1>8, <1>9

-----------------------------------------------------------------------------
(* The dividers *)

\* A divider is put where it is asked for, or at a wall; and stays there.
LEMMA SplitPointIs ==
  ASSUME NEW place \in Int, NEW span \in Nat, NEW floor \in Nat
  PROVE  /\ SplitPoint(place, span, floor) \in Nat
         /\ SplitPoint(place, span, floor) = place \/ AtWall(SplitPoint(place, span, floor), span, floor)
         /\ SplitPoint(SplitPoint(place, span, floor), span, floor) = SplitPoint(place, span, floor)
<1>1. CASE span - floor < floor
  <2>1. span \div 2 \in Nat
    OBVIOUS
  <2> QED BY <1>1, <2>1 DEF SplitPoint, AtWall
<1>2. CASE ~(span - floor < floor)
  BY <1>2 DEF SplitPoint, AtWall, Held, Most, Least
<1> QED BY <1>1, <1>2

LEMMA ClampColsIs ==
  ASSUME NEW place \in Int, NEW w \in Nat
  PROVE  /\ ClampCols(place, w) \in Nat
         /\ ClampCols(place, w) = place \/ AtWall(ClampCols(place, w), w, MinPane)
         /\ ClampCols(ClampCols(place, w), w) = ClampCols(place, w)
<1>1. MinPane \in Nat
  BY DEF MinPane
<1> QED BY <1>1, SplitPointIs DEF ClampCols

LEMMA PlanColsIsANumber == ASSUME NEW a, AppOK(a) PROVE PlanCols(a) \in Nat
<1>1. a.cols[a.view] \in Int /\ a.area.w \in Nat
  BY DEF AppOK, Divided
<1> QED BY <1>1, ClampColsIs DEF PlanCols
\* The divider that is drawn is moved, of the list that is shown, and nothing else is.
Slid(a, b, to) ==
  /\ DOMAIN b = AppFields /\ b.mode = a.mode /\ b.grab = a.grab
  /\ b.user = a.user /\ b.bound = a.bound /\ b.file = a.file /\ b.shown = a.shown
  /\ b.area = a.area /\ b.view = a.view /\ b.offset = a.offset
  /\ b.cols \in [Views -> Nat] /\ PlanCols(b) = to
  /\ \A v \in Views : v # a.view => b.cols[v] = a.cols[v]

LEMMA SlidIsKept == ASSUME NEW a, AppOK(a), NEW b, NEW to, Slid(a, b, to) PROVE Kept(a, b)
BY DEF Slid, AppOK, ConfigRuns, Divided, Wears, Kept

LEMMA SetPlanColsSlides ==
  ASSUME NEW a, AppOK(a), NEW want \in Int
  PROVE  Slid(a, SetPlanCols(a, want), ClampCols(want, a.area.w))
<1> DEFINE to == ClampCols(want, a.area.w)
           b == [a EXCEPT !.cols[a.view] = to]
           c == Remeasure(b)
<1>1. to \in Nat /\ ClampCols(to, a.area.w) = to /\ a.view \in Views /\ a.cols \in [Views -> Nat] /\ DOMAIN a = AppFields
  BY ClampColsIs DEF AppOK, Divided
<1> HIDE DEF to
<1>2. CASE to = PlanCols(a)
  <2>1. SetPlanCols(a, want) = a
    BY <1>2 DEF SetPlanCols, to
  <2>2. Slid(a, a, to)
    BY <1>1, <1>2 DEF Slid
  <2> QED BY <2>1, <2>2 DEF to
<1>3. CASE to # PlanCols(a)
  <2>1. SetPlanCols(a, want) = c
    BY <1>3 DEF SetPlanCols, to
  <2>2. /\ DOMAIN b = AppFields /\ b.cols = [a.cols EXCEPT ![a.view] = to]
        /\ \A f \in AppFields \ {"cols"} : b[f] = a[f]
    BY <1>1 DEF AppFields
  <2> HIDE DEF b
  <2>3. Stays(b, c)
    BY <2>2, RemeasureStays
  <2> HIDE DEF c
  <2>4. /\ b.user = a.user /\ b.bound = a.bound /\ b.file = a.file /\ b.area = a.area /\ b.view = a.view
        /\ b.offset = a.offset /\ b.grab = a.grab /\ b.shown = a.shown /\ b.mode = a.mode
    BY <2>2 DEF AppFields
  <2>5. /\ b.cols \in [Views -> Nat] /\ b.cols[a.view] = to
        /\ \A v \in Views : v # a.view => b.cols[v] = a.cols[v]
    BY <1>1, <2>2
  <2>6. PlanCols(c) = to
    BY <1>1, <2>3, <2>4, <2>5 DEF PlanCols, Stays, SameButMode
  <2>7. Slid(a, c, to)
    BY <2>3, <2>4, <2>5, <2>6 DEF Slid, Stays, SameButMode
  <2> QED BY <2>1, <2>7 DEF to
<1> QED BY <1>2, <1>3

\* What a key does to the dividers: nothing, or one step of the one that is drawn.
Stepping(a, b) ==
  \/ PlanCols(b) - PlanCols(a) \in {ResizeStep, -ResizeStep}
  \/ AtWall(PlanCols(b), a.area.w, MinPane)
Shifts(a, b) ==
  /\ b.area = a.area /\ b.view = a.view /\ Stepping(a, b)
  /\ \A v \in Views : v # a.view => b.cols[v] = a.cols[v]
Pressed(a, b) == Idle(a, b) \/ (Kept(a, b) /\ Shifts(a, b))

LEMMA ResizeDiffShifts ==
  ASSUME NEW a, AppOK(a), NEW by \in {ResizeStep, -ResizeStep}
  PROVE  Pressed(a, ResizeDiff(a, by))
<1> DEFINE cols == PlanCols(a)
           w == a.area.w
           want == Max({cols - by, 0})
           to == ClampCols(want, w)
           b == ResizeDiff(a, by)
<1>1. cols \in Nat /\ w \in Nat /\ by \in Int /\ ResizeStep \in Nat
  BY PlanColsIsANumber, DeskAssumption DEF AppOK, Divided, DeskAssumption
<1> HIDE DEF cols, w
<1>2. want = (IF cols - by >= 0 THEN cols - by ELSE 0) /\ want \in Int
  <2> DEFINE p == cols - by
             q == 0
  <2>1. p \in Int /\ q \in Int
    BY <1>1
  <2> HIDE DEF p, q
  <2>2. Max({p, q}) = IF p >= q THEN p ELSE q
    BY <2>1, MaxOfTwo
  <2> QED BY <1>1, <2>2 DEF p, q
<1> HIDE DEF want
<1>3. to \in Nat /\ (to = want \/ AtWall(to, w, MinPane))
  BY <1>1, <1>2, ClampColsIs
<1>4. b = SetPlanCols(a, want)
  BY DEF ResizeDiff, want, cols
<1> HIDE DEF b, to
<1>5. Slid(a, b, to)
  BY <1>2, <1>4, SetPlanColsSlides DEF to, w
<1>6. Kept(a, b)
  BY <1>5, SlidIsKept
<1>7. Stepping(a, b)
  <2>1. PlanCols(b) = to
    BY <1>5 DEF Slid
  <2>2. CASE AtWall(to, w, MinPane)
    BY <2>1, <2>2 DEF Stepping, w
  <2>3. CASE to = want /\ cols - by >= 0
    <3>1. to - cols \in {ResizeStep, -ResizeStep}
      BY <1>1, <1>2, <2>3
    <3> QED BY <2>1, <3>1 DEF Stepping, cols
  <2>4. CASE to = want /\ ~(cols - by >= 0)
    <3>1. ClampCols(0, w) = 0
      BY <1>2, <2>4, <1>1 DEF to
    <3>2. w \div 2 = 0 => w < 40
      BY <1>1
    <3>3. AtWall(0, w, MinPane)
      BY <1>1, <3>1, <3>2 DEF ClampCols, SplitPoint, Held, Most, Least, AtWall, MinPane
    <3> QED BY <1>2, <2>1, <2>4, <3>3 DEF Stepping, w
  <2> QED BY <1>3, <2>2, <2>3, <2>4
<1> QED BY <1>5, <1>6, <1>7 DEF Pressed, Shifts, Slid, b

-----------------------------------------------------------------------------
(* A key *)

LEMMA FocusStays == ASSUME NEW a, DOMAIN a = AppFields, NEW to PROVE Stays(a, [a EXCEPT !.focus = to])
BY DEF Stays, SameButMode, AppFields

LEMMA NormalActionPressed ==
  ASSUME NEW a, AppOK(a), a.mode.kind = "normal", NEW action
  PROVE  Pressed(a, NormalAction(a, action))
<1> DEFINE focused == [a EXCEPT !.focus = IF a.focus = "detail" THEN "groups" ELSE "detail"]
           composing == [a EXCEPT !.mode = Composer]
           b == NormalAction(a, action)
<1>1. DOMAIN a = AppFields /\ Calm(a)
  BY AppIsCalm DEF Calm
<1>2. \A x : Stays(a, x) => Idle(a, x)
  BY StaysIsIdle
<1>3. \A x : Turns(a, x) => Idle(a, x)
  BY TurnsIsIdle
<1>4. Idle(a, focused)
  BY <1>1, <1>2, FocusStays
<1>5. Idle(a, composing)
  <2>1. Plainly(Composer)
    BY DEF Plainly, Composer
  <2> QED BY <1>1, <1>3, <2>1, OpensTurns
<1>6. \/ b = a \/ b = focused \/ b = EnterPlanEntry(a) \/ (\E d : b = MoveCursor(a, d))
      \/ (\E to : b = SelectEntry(a, to)) \/ (\E d : b = HalfPage(a, d)) \/ (\E row : b = Onto(a, row))
      \/ (\E d : b = JumpHunk(a, d)) \/ b = ToggleSplit(a) \/ b = ToggleWrap(a)
      \/ b = ResizeDiff(a, ResizeStep) \/ b = ResizeDiff(a, -ResizeStep)
      \/ b = OpenFindings(a) \/ b = OpenSearch(a) \/ b = OpenFileList(a) \/ b = ToggleFileView(a)
      \/ b = composing \/ b = StartFetch(a) \/ b = OfferPublish(a)
  <2> DEFINE here == a.at[a.view]
  <2>1. \/ b = a \/ b = focused \/ b = EnterPlanEntry(a) \/ b = MoveCursor(a, action = "down")
        \/ b = SelectEntry(a, here + 1) \/ b = SelectEntry(a, here - 1)
        \/ b = HalfPage(a, action = "half-page-down") \/ b = Onto(a, FirstRow) \/ b = Onto(a, Max(Selectable))
        \/ b = JumpHunk(a, action = "next-hunk") \/ b = ToggleSplit(a) \/ b = ToggleWrap(a)
        \/ b = ResizeDiff(a, ResizeStep) \/ b = ResizeDiff(a, -ResizeStep)
        \/ b = OpenFindings(a) \/ b = OpenSearch(a) \/ b = OpenFileList(a) \/ b = ToggleFileView(a)
        \/ b = composing \/ b = StartFetch(a) \/ b = OfferPublish(a)
    BY ZenonT(40) DEF NormalAction, Half
  <2> HIDE DEF b, focused, composing, here
  <2> QED BY <2>1, Zenon
<1> HIDE DEF b, focused, composing
<1>7. CASE b = ResizeDiff(a, ResizeStep) \/ b = ResizeDiff(a, -ResizeStep)
  BY <1>7, ResizeDiffShifts DEF b
<1>8. CASE b = a
  BY <1>8, IdleItself DEF Pressed, b
<1>9. CASE b = focused \/ b = composing
  BY <1>9, <1>4, <1>5 DEF Pressed, b
<1>10. CASE \/ b = EnterPlanEntry(a) \/ (\E d : b = MoveCursor(a, d))
            \/ (\E to : b = SelectEntry(a, to)) \/ (\E d : b = HalfPage(a, d)) \/ (\E row : b = Onto(a, row))
            \/ (\E d : b = JumpHunk(a, d)) \/ b = ToggleSplit(a) \/ b = ToggleWrap(a) \/ b = StartFetch(a)
  <2>1. Stays(a, EnterPlanEntry(a))
    BY <1>1, FocusStays DEF EnterPlanEntry
  <2>2. Stays(a, b)
    BY <1>1, <1>10, <2>1, MoveCursorStays, SelectEntryStays, HalfPageStays, OntoStays, JumpHunkStays,
       ToggleSplitStays, ToggleWrapStays, StartFetchStays
  <2> QED BY <1>2, <2>2 DEF Pressed, b
<1>11. CASE b = OpenFindings(a) \/ b = OpenSearch(a) \/ b = OpenFileList(a) \/ b = OfferPublish(a)
  <2>1. Turns(a, b)
    BY <1>1, <1>11, OpenFindingsTurns, OpenSearchTurns, OpenFileListTurns, OfferPublishTurns
  <2> QED BY <1>3, <2>1 DEF Pressed, b
<1>12. CASE b = ToggleFileView(a)
  BY <1>12, ToggleFileViewIdle DEF Pressed, b
<1> QED BY <1>6, <1>7, <1>8, <1>9, <1>10, <1>11, <1>12

LEMMA FileListActionTurns ==
  ASSUME NEW a, Calm(a), a.mode.kind # "help", NEW action
  PROVE  Turns(a, FileListAction(a, action))
<1> DEFINE stepped == [a EXCEPT !.mode = Step(a.mode, FileEntries, FilesShown(a), action = "down")]
           b == FileListAction(a, action)
<1>1. b = stepped \/ b = GoToFile(a) \/ b = OpenSearch(a) \/ b = BackToReview(a) \/ b = a
  BY DEF FileListAction, Calm, AppFields
<1>2. Turns(a, stepped)
  BY StepTurns
<1> HIDE DEF b, stepped
<1>3. Turns(a, b)
  BY <1>1, <1>2, GoToFileTurns, OpenSearchTurns, BackTurns, TurnsItself
<1> QED BY <1>3 DEF b

LEMMA FindingsActionTurns ==
  ASSUME NEW a, Calm(a), a.mode.kind # "help", NEW action
  PROVE  Turns(a, FindingsAction(a, action))
<1> DEFINE b == FindingsAction(a, action)
           back == BackToReview(a)
<1>1. \/ (\E d : b = FindingsStep(a, d)) \/ b = AskToClear(a) \/ b = DeleteFinding(a)
      \/ b = OfferPublish(back) \/ b = GoToFinding(a) \/ b = OpenSearch(a) \/ b = back \/ b = a
  BY DEF FindingsAction
<1>2. Turns(a, back) /\ Turns(back, OfferPublish(back))
  BY BackTurns, TurnsIsCalm, OfferPublishTurns
<1>3. Turns(a, OfferPublish(back))
  BY <1>2, TurnsTwice
<1> HIDE DEF b, back
<1>4. Turns(a, b)
  BY <1>1, <1>2, <1>3, FindingsStepTurns, AskToClearTurns, DeleteFindingTurns, GoToFindingTurns, OpenSearchTurns,
     TurnsItself
<1> QED BY <1>4 DEF b

LEMMA ScreenKinds ==
  ASSUME NEW m
  PROVE  /\ ScreenOf(m) \in {"review", "files", "findings", NoScreen}
         /\ ScreenOf(m) = "review" => m.kind = "normal"
         /\ ScreenOf(m) = "files" => m.kind = "files"
         /\ ScreenOf(m) = "findings" => m.kind = "findings"
BY DEF ScreenOf, NoScreen

LEMMA ScreenKeyPressed ==
  ASSUME NEW a, AppOK(a), NEW screen, screen = ScreenOf(a.mode), screen # NoScreen, NEW pending, NEW key
  PROVE  Pressed(a, ScreenKey(a, screen, pending, key))
<1> DEFINE found == Looks[a.bound][screen][pending][key]
           b == ScreenKey(a, screen, pending, key)
           waits == [a EXCEPT !.pending = found.presses]
<1>1. /\ screen \in {"review", "files", "findings"} /\ a.mode.kind \in Screened
      /\ (screen = "review" => a.mode.kind = "normal")
  BY ScreenKinds DEF Screened
<1>2. Calm(a) /\ DOMAIN a = AppFields /\ a.mode.kind \notin {"help", "config", "quit"}
  BY <1>1, AppIsCalm DEF Screened, Calm
<1>3. \A x : Turns(a, x) => Idle(a, x)
  BY <1>2, TurnsIsIdle
<1>4. \/ b = ToQuit(a) \/ b = BackToReview(a) \/ b = OpenHelp(a) \/ b = OpenCommand(a)
      \/ b = Looked(a, screen, found)
  BY DEF ScreenKey
<1>5. Looked(a, screen, found) = a \/ Looked(a, screen, found) = waits
      \/ Looked(a, screen, found) = Acts(a, screen, found.action)
  BY DEF Looked
<1>6. \/ Acts(a, screen, found.action) = NormalAction(a, found.action) /\ a.mode.kind = "normal"
      \/ Acts(a, screen, found.action) = FileListAction(a, found.action)
      \/ Acts(a, screen, found.action) = FindingsAction(a, found.action)
  BY <1>1 DEF Acts
<1>7. Stays(a, waits)
  BY <1>2 DEF Stays, SameButMode, AppFields
<1>8. Pressed(a, Acts(a, screen, found.action))
  <2>1. a.mode.kind = "normal" => Pressed(a, NormalAction(a, found.action))
    BY NormalActionPressed
  <2>2. Turns(a, FileListAction(a, found.action)) /\ Turns(a, FindingsAction(a, found.action))
    BY <1>2, FileListActionTurns, FindingsActionTurns
  <2> HIDE DEF found
  <2>3. Pressed(a, FileListAction(a, found.action)) /\ Pressed(a, FindingsAction(a, found.action))
    BY <1>3, <2>2 DEF Pressed
  <2> QED BY <1>6, <2>1, <2>3
<1>9. Pressed(a, a) /\ Pressed(a, waits)
  <2> HIDE DEF waits
  <2> QED BY <1>7, IdleItself, StaysIsIdle DEF Pressed
<1>10. /\ Pressed(a, ToQuit(a)) /\ Pressed(a, BackToReview(a)) /\ Pressed(a, OpenHelp(a))
       /\ Pressed(a, OpenCommand(a))
  <2>1. Turns(a, ToQuit(a)) /\ Turns(a, BackToReview(a)) /\ Turns(a, OpenHelp(a)) /\ Turns(a, OpenCommand(a))
    BY <1>1, <1>2, QuitTurns, BackTurns, OpenHelpTurns, OpenCommandTurns
  <2> QED BY <1>3, <2>1 DEF Pressed
<1> HIDE DEF b, waits, found
<1> QED BY <1>4, <1>5, <1>8, <1>9, <1>10 DEF b

LEMMA FixedKeyIdle ==
  ASSUME NEW a, AppOK(a), ScreenOf(a.mode) = NoScreen, NEW key
  PROVE  Idle(a, FixedKey(a, key))
<1>1. CASE a.mode.kind = "config"
  <2>1. FixedKey(a, key) = ConfigKey(a, key)
    BY <1>1 DEF FixedKey
  <2> QED BY <1>1, <2>1, ConfigKeyIdle
<1>2. CASE a.mode.kind = "command"
  <2>1. FixedKey(a, key) = CommandKey(a, key)
    BY <1>2 DEF FixedKey
  <2> QED BY <1>2, <2>1, CommandKeyIdle
<1>3. CASE a.mode.kind \notin {"config", "command", "help", "notice", "findings", "question", "composer", "search"}
  <2>1. FixedKey(a, key) = a
    BY <1>3 DEF FixedKey
  <2> QED BY <2>1, IdleItself
<1>4. CASE a.mode.kind \in {"help", "notice", "findings", "question", "composer", "search"}
  <2> DEFINE back == BackToReview(a)
             left == [a EXCEPT !.mode = a.mode.from]
             b == FixedKey(a, key)
  <2>1. Calm(a)
    BY <1>4, AppIsCalm
  <2>2. Turns(a, back) /\ Turns(a, a)
    BY <2>1, BackTurns, TurnsItself
  <2>3. Turns(a, StartFetch(back))
    <3>1. Stays(back, StartFetch(back))
      BY <2>2, TurnsIsCalm, StartFetchStays
    <3> HIDE DEF back
    <3> QED BY <2>2, <3>1, TurnsThenStays
  <2>4. a.mode.kind = "help" => Turns(a, left)
    BY <2>1, LeaveHelpTurns
  <2>5. a.mode.kind # "help" => Turns(a, Confirmed(a, key)) /\ Turns(a, SearchKey(a, key))
    BY <2>1, ConfirmedTurns, SearchKeyTurns
  <2>6. \/ b = left /\ a.mode.kind = "help"
        \/ b = back \/ b = StartFetch(back) \/ b = a
        \/ (b = Confirmed(a, key) \/ b = SearchKey(a, key)) /\ a.mode.kind # "help"
    BY <1>4 DEF FixedKey
  <2> HIDE DEF b, left, back
  <2>7. Turns(a, b)
    BY <2>2, <2>3, <2>4, <2>5, <2>6
  <2> QED BY <1>4, <2>7, TurnsIsIdle DEF b
<1> QED BY <1>1, <1>2, <1>3, <1>4

\* What any key comes to, whatever is open.
LEMMA OnKeyPressed == ASSUME NEW a, AppOK(a), NEW key PROVE Pressed(a, OnKey(a, key))
<1> DEFINE taken == [a EXCEPT !.pending = <<>>, !.grab = <<>>]
           b == OnKey(a, key)
<1>1. /\ DOMAIN taken = AppFields /\ taken.grab = <<>> /\ taken.mode = a.mode
      /\ taken.user = a.user /\ taken.bound = a.bound /\ taken.file = a.file /\ taken.shown = a.shown
      /\ taken.area = a.area /\ taken.view = a.view /\ taken.cols = a.cols /\ taken.offset = a.offset
  BY DEF AppOK, AppFields
<1>2. \/ b = ToQuit(a)
      \/ ScreenOf(a.mode) # NoScreen /\ b = ScreenKey(taken, ScreenOf(a.mode), a.pending, key)
      \/ ScreenOf(a.mode) = NoScreen /\ b = FixedKey(taken, key)
  BY DEF OnKey
<1> HIDE DEF taken, b
<1>3. AppOK(taken) /\ Idle(a, taken)
  BY <1>1 DEF AppOK, ConfigRuns, Divided, Grips, Wears, Kept, Idle
<1>4. CASE b = ToQuit(a)
  <2>1. Turns(a, ToQuit(a)) /\ ToQuit(a).mode.kind = "quit"
    BY QuitTurns DEF AppOK
  <2> QED BY <1>4, <2>1, TurnsIsIdle DEF Pressed, b
<1>5. CASE ScreenOf(a.mode) # NoScreen /\ b = ScreenKey(taken, ScreenOf(a.mode), a.pending, key)
  <2>1. Pressed(taken, b)
    BY <1>1, <1>3, <1>5, ScreenKeyPressed
  <2>2. CASE Idle(taken, b)
    BY <1>3, <2>2, IdleTwice DEF Pressed, b
  <2>3. CASE Kept(taken, b) /\ Shifts(taken, b)
    <3>1. Kept(a, b)
      BY <1>3, <2>3 DEF Idle, Kept
    <3>2. Shifts(a, b)
      BY <1>1, <2>3 DEF Shifts, Stepping, PlanCols
    <3> QED BY <3>1, <3>2 DEF Pressed, b
  <2> QED BY <2>1, <2>2, <2>3 DEF Pressed
<1>6. CASE ScreenOf(a.mode) = NoScreen /\ b = FixedKey(taken, key)
  <2>1. Idle(taken, b)
    BY <1>1, <1>3, <1>6, FixedKeyIdle
  <2> QED BY <1>3, <2>1, IdleTwice DEF Pressed, b
<1> QED BY <1>2, <1>4, <1>5, <1>6

-----------------------------------------------------------------------------
(* A footer's button *)

\* The presses of a button, each over what the one before it came to.
PressesOf(f, a, keys, n) ==
  DOMAIN f = 0 .. n /\ f[0] = a /\ \A m \in 1 .. n : f[m] = OnKey(f[m - 1], keys[m])

LEMMA PressEachIs ==
  ASSUME NEW a, NEW keys, Len(keys) \in Nat
  PROVE  \E f : PressesOf(f, a, keys, Len(keys)) /\ PressEach(a, keys) = f[Len(keys)]
<1> DEFINE N == Len(keys)
           T == {n \in 0 .. N : \E f : PressesOf(f, a, keys, n)}
           Def(f) == [n \in 0 .. Len(keys) |-> IF n = 0 THEN a ELSE OnKey(f[n - 1], keys[n])]
           upto == CHOOSE f : f = Def(f)
<1>1. 0 \in T
  <2> DEFINE f == [n \in 0 .. 0 |-> a]
  <2>1. PressesOf(f, a, keys, 0)
    BY DEF PressesOf
  <2> HIDE DEF f
  <2> QED BY <2>1
<1>2. ASSUME NEW n \in 0 .. (N - 1), n \in T PROVE n + 1 \in T
  <2>1. PICK f : PressesOf(f, a, keys, n)
    BY <1>2
  <2> DEFINE g == [m \in 0 .. (n + 1) |-> IF m = n + 1 THEN OnKey(f[n], keys[n + 1]) ELSE f[m]]
  <2>2. DOMAIN g = 0 .. (n + 1) /\ g[n + 1] = OnKey(f[n], keys[n + 1]) /\ \A m \in 0 .. n : g[m] = f[m]
    OBVIOUS
  <2> HIDE DEF g
  <2>3. g[0] = a
    BY <2>1, <2>2 DEF PressesOf
  <2>4. ASSUME NEW m \in 1 .. (n + 1) PROVE g[m] = OnKey(g[m - 1], keys[m])
    <3>1. CASE m = n + 1
      <4>1. m - 1 = n /\ n \in 0 .. n
        BY <3>1
      <4> QED BY <2>2, <3>1, <4>1
    <3>2. CASE m # n + 1
      <4>1. m \in 1 .. n /\ m \in 0 .. n /\ m - 1 \in 0 .. n
        BY <3>2
      <4> QED BY <2>1, <2>2, <4>1 DEF PressesOf
    <3> QED BY <3>1, <3>2
  <2>5. PressesOf(g, a, keys, n + 1)
    BY <2>2, <2>3, <2>4 DEF PressesOf
  <2> QED BY <2>5
<1>3. N \in T
  <2>1. N \in Nat /\ N \in 0 .. N
    OBVIOUS
  <2> HIDE DEF T, N
  <2>2. \A n \in 0 .. N : n \in T
    BY <1>1, <1>2, <2>1, ByInduction
  <2> QED BY <2>1, <2>2
<1>4. PICK f : PressesOf(f, a, keys, N)
  BY <1>3
<1> DEFINE g == [n \in 0 .. Len(keys) |-> f[n]]
<1>5. g = Def(g)
  <2>1. ASSUME NEW n \in 0 .. Len(keys) PROVE g[n] = Def(g)[n]
    <3>1. CASE n = 0
      BY <1>4, <3>1 DEF PressesOf
    <3>2. CASE n # 0
      <4>1. n \in 1 .. N /\ n - 1 \in 0 .. N
        BY <3>2
      <4>2. g[n - 1] = f[n - 1] /\ g[n] = f[n]
        BY <4>1
      <4>3. f[n] = OnKey(f[n - 1], keys[n])
        BY <1>4, <4>1 DEF PressesOf
      <4> QED BY <3>2, <4>2, <4>3
    <3> QED BY <3>1, <3>2
  <2> QED BY <2>1
<1> HIDE DEF g
<1>6. upto = Def(upto)
  <2> HIDE DEF Def
  <2> QED BY <1>5
<1>7. PressEach(a, keys) = upto[N]
  BY DEF PressEach
<1> HIDE DEF upto
<1>8. PressesOf(upto, a, keys, N)
  <2>1. DOMAIN upto = 0 .. N /\ \A n \in 0 .. N : upto[n] = IF n = 0 THEN a ELSE OnKey(upto[n - 1], keys[n])
    <3> DEFINE d == Def(upto)
    <3>1. DOMAIN d = 0 .. N /\ \A n \in 0 .. N : d[n] = IF n = 0 THEN a ELSE OnKey(upto[n - 1], keys[n])
      OBVIOUS
    <3>2. upto = d
      BY <1>6
    <3> HIDE DEF d, N
    <3> QED BY <3>1, <3>2
  <2>2. 0 \in 0 .. N /\ \A m \in 1 .. N : m \in 0 .. N /\ m # 0
    OBVIOUS
  <2> HIDE DEF N
  <2> QED BY <2>1, <2>2 DEF PressesOf
<1> QED BY <1>7, <1>8

LEMMA PressEachKept ==
  ASSUME NEW a, AppOK(a), NEW keys, Len(keys) \in Nat
  PROVE  Kept(a, PressEach(a, keys)) /\ (Len(keys) = 1 => Pressed(a, PressEach(a, keys)))
         /\ (Len(keys) = 0 => PressEach(a, keys) = a)
<1> DEFINE N == Len(keys)
<1>1. PICK f : PressesOf(f, a, keys, N) /\ PressEach(a, keys) = f[N]
  BY PressEachIs
<1> DEFINE T == {n \in 0 .. N : Kept(a, f[n])}
<1>2. f[0] = a /\ \A m \in 1 .. N : f[m] = OnKey(f[m - 1], keys[m])
  BY <1>1 DEF PressesOf
<1>3. 0 \in T
  BY <1>2, IdleItself DEF Idle
<1>4. ASSUME NEW n \in 0 .. (N - 1), n \in T PROVE n + 1 \in T
  <2>1. n + 1 \in 1 .. N /\ n + 1 \in 0 .. N /\ (n + 1) - 1 = n
    OBVIOUS
  <2>2. f[n + 1] = OnKey(f[n], keys[n + 1]) /\ Kept(a, f[n])
    BY <1>2, <1>4, <2>1
  <2>3. Pressed(f[n], f[n + 1])
    BY <2>2, OnKeyPressed DEF Kept
  <2>4. Kept(a, f[n + 1])
    BY <2>2, <2>3 DEF Pressed, Idle, Kept
  <2> QED BY <2>1, <2>4
<1>5. Kept(a, f[N])
  <2>1. N \in Nat /\ N \in 0 .. N
    OBVIOUS
  <2> HIDE DEF T, N
  <2>2. \A n \in 0 .. N : n \in T
    BY <1>3, <1>4, <2>1, ByInduction
  <2> QED BY <2>1, <2>2 DEF T
<1>6. CASE N = 1
  <2>1. 1 \in 1 .. N /\ 1 - 1 = 0
    BY <1>6
  <2>2. f[1] = OnKey(a, keys[1])
    BY <1>2, <2>1
  <2> QED BY <1>1, <1>5, <1>6, <2>2, OnKeyPressed
<1> QED BY <1>1, <1>2, <1>5, <1>6

\* The row of an action that a footer names.
LEMMA FooterRows ==
  ASSUME NEW action \in {"open", "toggle-reviewed", "comment", "delete", "files", "clear-notes", "copy", "publish", "close"}
  PROVE  RowOf(action) \in Table
<1>1. \E row \in Table : Defaults[row].action = action
  <2>1. /\ Defaults[2].action = "open" /\ Defaults[3].action = "close" /\ Defaults[22].action = "files"
        /\ Defaults[26].action = "toggle-reviewed" /\ Defaults[28].action = "comment"
        /\ Defaults[29].action = "delete" /\ Defaults[30].action = "clear-notes" /\ Defaults[31].action = "copy"
        /\ Defaults[35].action = "publish"
    <3>1. Defaults[2].action = "open"
      BY RowParts, SMTT(60) DEF Defaults
    <3>2. Defaults[3].action = "close"
      BY RowParts, SMTT(60) DEF Defaults
    <3>3. Defaults[22].action = "files"
      BY RowParts, SMTT(60) DEF Defaults
    <3>4. Defaults[26].action = "toggle-reviewed"
      BY RowParts, SMTT(60) DEF Defaults
    <3>5. Defaults[28].action = "comment"
      BY RowParts, SMTT(60) DEF Defaults
    <3>6. Defaults[29].action = "delete"
      BY RowParts, SMTT(60) DEF Defaults
    <3>7. Defaults[30].action = "clear-notes"
      BY RowParts, SMTT(60) DEF Defaults
    <3>8. Defaults[31].action = "copy"
      BY RowParts, SMTT(60) DEF Defaults
    <3>9. Defaults[35].action = "publish"
      BY RowParts, SMTT(60) DEF Defaults
    <3> QED BY <3>1, <3>2, <3>3, <3>4, <3>5, <3>6, <3>7, <3>8, <3>9
  <2>2. {2, 3, 22, 26, 28, 29, 30, 31, 35} \subseteq Table
    BY TableIs
  <2> QED BY <2>1, <2>2
<1> QED BY <1>1 DEF RowOf

LEMMA ButtonsArePresses ==
  ASSUME NEW a, AppOK(a), NEW keys \in Buttons(a)
  PROVE  Len(keys) \in Nat
<1> DEFINE Of(action) == Bindings(KeyMaps[a.bound], ScreenOf(a.mode), action)
<1>1. a.bound \in KeyTables /\ KeyMaps[a.bound] = Bound(a.bound)
  <2>1. a.bound \in Accepted
    BY OpensAreAccepted DEF AppOK, ConfigRuns
  <2> QED BY <2>1 DEF Accepted, KeyMaps
<1>2. CASE \E key \in FooterKeys(a.mode) : keys = <<key>>
  BY <1>2
<1>3. CASE \E action \in FooterActs(a.mode) : Of(action) # <<>> /\ keys = Of(action)[1]
  <2>1. PICK action \in FooterActs(a.mode) : Of(action) # <<>> /\ keys = Of(action)[1]
    BY <1>3
  <2>2. RowOf(action) \in Table
    BY FooterRows DEF FooterActs
  <2> DEFINE k == Bound(a.bound)[RowOf(action)]
  <2>3. k \in Seq(ToSet(k)) /\ \A l \in ToSet(k) : IsKeys(l)
    BY <1>1, <2>2, BoundIsKeys
  <2>4. Of(action) = k
    BY <1>1, <2>1 DEF Bindings
  <2> HIDE DEF k, Of
  <2>5. k # <<>> => 1 \in DOMAIN k
    BY <2>3
  <2>6. k[1] \in ToSet(k)
    BY <2>1, <2>4, <2>5 DEF ToSet
  <2>7. IsKeys(keys)
    BY <2>1, <2>3, <2>4, <2>6
  <2> QED BY <2>7 DEF IsKeys
<1>4. \/ \E key \in FooterKeys(a.mode) : keys = <<key>>
      \/ \E action \in FooterActs(a.mode) : Of(action) # <<>> /\ keys = Of(action)[1]
  BY DEF Buttons
<1> QED BY <1>2, <1>3, <1>4
-----------------------------------------------------------------------------
(* The mouse *)

LEMMA ClickOpenIdle ==
  ASSUME NEW a, AppOK(a), a.mode.kind # "quit", NEW line
  PROVE  Idle(a, ClickOpen(a, line))
<1> DEFINE b == ClickOpen(a, line)
<1>1. CASE a.mode.kind = "config"
  <2> DEFINE place == Max({line, 0})
  <2>1. b = a \/ b = ClickConfig(a, a.mode, place)
    BY <1>1 DEF ClickOpen
  <2> HIDE DEF place, b
  <2>2. Idle(a, ClickConfig(a, a.mode, place))
    BY <1>1, ClickConfigIdle
  <2> QED BY <2>1, <2>2, IdleItself DEF b
<1>2. CASE a.mode.kind # "config"
  <2> DEFINE left == [a EXCEPT !.mode = a.mode.from]
             unasked == [a EXCEPT !.mode.confirming = FALSE]
  <2>1. Calm(a)
    BY <1>2, AppIsCalm
  <2>2. a.mode.kind = "help" => Turns(a, left)
    BY <2>1, LeaveHelpTurns
  <2>3. Turns(a, BackToReview(a)) /\ Turns(a, a) /\ Turns(a, CloseSearch(a))
    BY <2>1, BackTurns, TurnsItself, CloseSearchTurns
  <2>4. a.mode.kind # "help" =>
          /\ Turns(a, unasked) /\ Turns(a, ClickFiles(a, line)) /\ Turns(a, ClickFindings(a, line))
          /\ Turns(a, ClickSearch(a, line))
    BY <2>1, ConfirmsTurns, ClickFilesTurns, ClickFindingsTurns, ClickSearchTurns
  <2>5. \/ b = left /\ a.mode.kind = "help"
        \/ b = BackToReview(a) \/ b = a \/ b = CloseSearch(a)
        \/ /\ b = unasked \/ b = ClickFiles(a, line) \/ b = ClickFindings(a, line) \/ b = ClickSearch(a, line)
           /\ a.mode.kind # "help"
    BY <1>2 DEF ClickOpen
  <2> HIDE DEF b, left, unasked
  <2>6. Turns(a, b)
    BY <2>2, <2>3, <2>4, <2>5
  <2> QED BY <1>2, <2>6, TurnsIsIdle DEF b
<1> QED BY <1>1, <1>2

LEMMA WheelOpenIdle ==
  ASSUME NEW a, AppOK(a), a.mode.kind # "quit", NEW down \in BOOLEAN
  PROVE  Idle(a, WheelOpen(a, down))
<1> DEFINE b == WheelOpen(a, down)
           stepped == [a EXCEPT !.mode = Step(a.mode, FileEntries, FilesShown(a), down)]
<1>1. CASE a.mode.kind = "config"
  BY <1>1, WheelConfigIdle DEF WheelOpen
<1>2. CASE a.mode.kind # "config"
  <2>1. Calm(a) /\ Turns(a, a)
    BY <1>2, AppIsCalm, TurnsItself
  <2>2. a.mode.kind # "help" => Turns(a, stepped) /\ Turns(a, FindingsStep(a, down)) /\ Turns(a, SearchStep(a, down))
    BY <2>1, StepTurns, FindingsStepTurns, SearchStepTurns
  <2>3. \/ b = a
        \/ (b = stepped \/ b = FindingsStep(a, down) \/ b = SearchStep(a, down)) /\ a.mode.kind # "help"
    BY <1>2, <2>1 DEF WheelOpen, Calm, AppFields
  <2> HIDE DEF b, stepped
  <2>4. Turns(a, b)
    BY <2>1, <2>2, <2>3
  <2> QED BY <1>2, <2>4, TurnsIsIdle DEF b
<1> QED BY <1>1, <1>2

LEMMA ClickPaneIdle ==
  ASSUME NEW a, AppOK(a), NEW pane, NEW line
  PROVE  Idle(a, ClickPane(a, pane, line))
<1> DEFINE free == [a EXCEPT !.grab = <<>>]
           plan == [free EXCEPT !.focus = "groups"]
           detail == [free EXCEPT !.focus = "detail"]
           b == ClickPane(a, pane, line)
<1>1. /\ DOMAIN free = AppFields /\ free.grab = <<>> /\ free.mode = a.mode
      /\ free.user = a.user /\ free.bound = a.bound /\ free.file = a.file /\ free.shown = a.shown
      /\ free.area = a.area /\ free.view = a.view /\ free.cols = a.cols /\ free.offset = a.offset
  BY DEF AppOK, AppFields
<1>2. b = ClickPlan(free, line) \/ b = ClickDetail(free, line)
  BY DEF ClickPane
<1> HIDE DEF free
<1>3. AppOK(free) /\ Idle(a, free)
  BY <1>1 DEF AppOK, ConfigRuns, Divided, Grips, Wears, Kept, Idle
<1>4. Stays(free, plan) /\ Stays(free, detail)
  BY <1>1, FocusStays
<1>5. \/ b = plan \/ b = EnterPlanEntry(plan) \/ (\E hit : b = SelectEntry(plan, hit))
      \/ b = detail \/ (\E hit : b = Onto(detail, hit))
  <2>1. \/ ClickPlan(free, line) = plan \/ ClickPlan(free, line) = EnterPlanEntry(plan)
        \/ \E hit : ClickPlan(free, line) = SelectEntry(plan, hit)
    BY Zenon DEF ClickPlan
  <2>2. ClickDetail(free, line) = detail \/ \E hit : ClickDetail(free, line) = Onto(detail, hit)
    BY Zenon DEF ClickDetail
  <2> HIDE DEF plan, detail, b
  <2> QED BY <1>2, <2>1, <2>2, Zenon
<1> HIDE DEF plan, detail, b
<1>6. DOMAIN plan = AppFields /\ DOMAIN detail = AppFields
  BY <1>4 DEF Stays, SameButMode
<1>7. Stays(plan, EnterPlanEntry(plan))
  BY <1>6, FocusStays DEF EnterPlanEntry
<1>8. Stays(free, b)
  <2>1. Stays(free, plan) /\ Stays(free, detail) /\ Stays(plan, EnterPlanEntry(plan))
    BY <1>4, <1>7
  <2>2. \A hit : Stays(plan, SelectEntry(plan, hit)) /\ Stays(detail, Onto(detail, hit))
    BY <1>6, SelectEntryStays, OntoStays
  <2> QED BY <1>5, <2>1, <2>2, StaysTwice
<1>9. Idle(free, b)
  BY <1>3, <1>8, StaysIsIdle
<1> QED BY <1>3, <1>9, IdleTwice DEF b

LEMMA WheelPaneIdle ==
  ASSUME NEW a, AppOK(a), NEW pane, NEW down
  PROVE  Idle(a, WheelPane(a, pane, down))
<1> DEFINE plan == [a EXCEPT !.focus = "groups"]
           detail == [a EXCEPT !.focus = "detail"]
           b == WheelPane(a, pane, down)
<1>1. Stays(a, plan) /\ Stays(a, detail)
  BY FocusStays DEF AppOK
<1>2. b = MoveCursor(detail, down) \/ \E to : b = SelectEntry(plan, to)
  BY Zenon DEF WheelPane, WheelPlan, WheelDetail
<1> HIDE DEF plan, detail, b
<1>3. DOMAIN plan = AppFields /\ DOMAIN detail = AppFields
  BY <1>1 DEF Stays, SameButMode
<1>4. Stays(detail, MoveCursor(detail, down)) /\ \A to : Stays(plan, SelectEntry(plan, to))
  BY <1>3, MoveCursorStays, SelectEntryStays
<1>5. Stays(a, b)
  BY <1>1, <1>2, <1>4, StaysTwice
<1> QED BY <1>5, StaysIsIdle DEF b

\* A press takes hold of a divider, by the column it landed on.
LEMMA PressAtIdle ==
  ASSUME NEW a, AppOK(a), NEW x, NEW inside
  PROVE  Idle(a, Press_at(a, x, inside))
<1> DEFINE g == GrabAt(a, x, inside)
           b == Press_at(a, x, inside)
<1>1. g \in Grips
  <2> DEFINE cols == PlanCols(a)
  <2>1. cols \in Nat
    BY PlanColsIsANumber
  <2>2. g = <<>> \/ g = <<"split">> \/ (x \in {cols - 1, cols} /\ g = <<"panes", x - cols>>)
    BY DEF GrabAt
  <2> HIDE DEF cols, g
  <2>3. x \in {cols - 1, cols} => x - cols = 0 \/ x - cols = -1
    BY <2>1
  <2> QED BY <2>2, <2>3 DEF Grips
<1>2. /\ DOMAIN b = AppFields /\ b.grab = g /\ b.mode = a.mode
      /\ b.user = a.user /\ b.bound = a.bound /\ b.file = a.file /\ b.shown = a.shown
      /\ b.area = a.area /\ b.view = a.view /\ b.cols = a.cols /\ b.offset = a.offset
  BY DEF Press_at, AppOK, AppFields
<1> HIDE DEF b, g
<1>3. Idle(a, b)
  BY <1>1, <1>2 DEF AppOK, ConfigRuns, Divided, Wears, Kept, Idle
<1> QED BY <1>3 DEF b

-----------------------------------------------------------------------------
(* A drag *)

\* The divider held is under the pointer, or at a wall; and the other one is where it was.
FollowsTo(a, b, x) ==
  IF a.grab[1] = "panes"
  THEN /\ PlanCols(b) + a.grab[2] = x \/ AtWall(PlanCols(b), a.area.w, MinPane)
       /\ b.offset = a.offset
  ELSE /\ \/ SplitColumn(b) = x
          \/ AtWall(HalfWidths(DetailCols(a), b.offset)[1], Less(DetailCols(a), 1), MinHalf)
       /\ b.cols = a.cols
Drags(a, b, x) ==
  /\ Kept(a, b) /\ b.grab = a.grab /\ FollowsTo(a, b, x)
  /\ \A v \in Views : v # a.view => b.cols[v] = a.cols[v]

LEMMA PanesDrag ==
  ASSUME NEW a, AppOK(a), NEW x \in Nat, a.grab \in {<<"panes", 0>>, <<"panes", -1>>}
  PROVE  Drags(a, DragTo(a, x), x)
<1> DEFINE off == a.grab[2]
           w == a.area.w
           want == Max({x - off, 0})
           to == ClampCols(want, w)
           b == DragTo(a, x)
<1>1. off \in {0, -1} /\ a.grab[1] = "panes" /\ a.grab # <<>> /\ w \in Nat
  <2>1. w \in Nat
    BY DEF AppOK, Divided
  <2>2. CASE a.grab = <<"panes", 0>>
    BY <2>1, <2>2
  <2>3. CASE a.grab = <<"panes", -1>>
    BY <2>1, <2>3
  <2> QED BY <2>2, <2>3
<1>2. b = SetPlanCols(a, want)
  BY <1>1 DEF DragTo, DragPanesTo
<1> HIDE DEF off, w
<1>3. want = x - off /\ want \in Int
  <2> DEFINE p == x - off
             q == 0
  <2>1. p \in Int /\ q \in Int /\ p >= q
    BY <1>1
  <2> HIDE DEF p, q
  <2>2. Max({p, q}) = IF p >= q THEN p ELSE q
    BY <2>1, MaxOfTwo
  <2> QED BY <2>1, <2>2 DEF p, q
<1> HIDE DEF want
<1>4. to \in Nat /\ (to = want \/ AtWall(to, w, MinPane))
  BY <1>1, <1>3, ClampColsIs
<1> HIDE DEF b, to
<1>5. Slid(a, b, to)
  BY <1>2, <1>3, SetPlanColsSlides DEF to, w
<1>6. Kept(a, b) /\ PlanCols(b) = to /\ b.grab = a.grab /\ b.offset = a.offset
      /\ \A v \in Views : v # a.view => b.cols[v] = a.cols[v]
  BY <1>5, SlidIsKept DEF Slid
<1>7. PlanCols(b) + off = x \/ AtWall(PlanCols(b), w, MinPane)
  <2>1. CASE to = want
    BY <1>1, <1>3, <1>6, <2>1
  <2> QED BY <1>4, <1>6, <2>1
<1> QED BY <1>1, <1>6, <1>7 DEF Drags, FollowsTo, off, w, b

LEMMA SplitPointAtZero ==
  ASSUME NEW span \in Nat, NEW floor \in Nat
  PROVE  AtWall(SplitPoint(0, span, floor), span, floor)
<1>1. CASE span - floor < floor
  BY <1>1 DEF AtWall
<1>2. CASE ~(span - floor < floor)
  BY <1>2 DEF SplitPoint, AtWall, Held, Most, Least
<1> QED BY <1>1, <1>2

LEMMA MiddleDrag ==
  ASSUME NEW a, AppOK(a), NEW x \in Nat, a.grab = <<"split">>
  PROVE  Drags(a, DragTo(a, x), x)
<1> DEFINE cols == PlanCols(a)
           d == DetailCols(a)
           inner == Less(d, 1)
           centre == HalfCentre(d)
           to == x - (cols + 1) - centre
           c == [a EXCEPT !.offset = to]
           b == DragTo(a, x)
           half == SplitPoint(Most(x - (cols + 1), 0), inner, MinHalf)
<1>1. cols \in Nat /\ a.area.w \in Nat /\ DOMAIN a = AppFields
  BY PlanColsIsANumber DEF AppOK, Divided
<1>2. b = Remeasure(c)
  <2>1. a.grab # <<>> /\ a.grab[1] # "panes"
    OBVIOUS
  <2> QED BY <2>1 DEF DragTo, DragSplitTo
<1>3. d \in Nat
  BY <1>1 DEF DetailCols, Less, Most
<1> HIDE DEF d
<1>4. inner \in Nat
  BY <1>3 DEF Less, Most
<1>5. centre \in Nat
  BY <1>4 DEF HalfCentre
<1> HIDE DEF cols, inner, centre
<1>6. to \in Int
  BY <1>1, <1>5
<1> HIDE DEF to
<1>7. /\ DOMAIN c = AppFields /\ c.offset = to /\ \A f \in AppFields \ {"offset"} : c[f] = a[f]
  BY <1>1 DEF AppFields
<1> HIDE DEF c
<1>8. /\ c.user = a.user /\ c.bound = a.bound /\ c.file = a.file /\ c.area = a.area /\ c.view = a.view
      /\ c.cols = a.cols /\ c.grab = a.grab /\ c.shown = a.shown /\ c.mode = a.mode
  BY <1>7 DEF AppFields
<1>9. Stays(c, b)
  BY <1>2, <1>7, RemeasureStays
<1> HIDE DEF b
<1>10. /\ DOMAIN b = AppFields /\ b.offset = to /\ b.user = a.user /\ b.bound = a.bound /\ b.file = a.file
       /\ b.area = a.area /\ b.view = a.view /\ b.cols = a.cols /\ b.grab = a.grab /\ b.shown = a.shown
       /\ b.mode = a.mode
  BY <1>7, <1>8, <1>9 DEF Stays, SameButMode
<1>11. Kept(a, b)
  BY <1>6, <1>10 DEF AppOK, ConfigRuns, Divided, Wears, Kept
<1>12. HalfWidths(d, b.offset)[1] = half
  <2>1. centre + to = x - (cols + 1)
    BY <1>1, <1>5 DEF to
  <2>2. HalfWidths(d, b.offset)[1] = SplitPoint(Most(centre + b.offset, 0), inner, MinHalf)
    BY DEF HalfWidths, inner, centre
  <2> QED BY <1>10, <2>1, <2>2
<1>13. SplitColumn(b) = cols + 1 + half
  <2>1. PlanCols(b) = cols /\ DetailCols(b) = d
    BY <1>10 DEF PlanCols, DetailCols, cols, d
  <2> QED BY <1>12, <2>1 DEF SplitColumn
<1>14. MinHalf \in Nat
  BY DEF MinHalf
<1>15. SplitColumn(b) = x \/ AtWall(half, inner, MinHalf)
  <2>1. CASE x - (cols + 1) >= 0
    <3>1. Most(x - (cols + 1), 0) = x - (cols + 1) /\ x - (cols + 1) \in Int
      BY <1>1, <2>1 DEF Most
    <3>2. half = x - (cols + 1) \/ AtWall(half, inner, MinHalf)
      BY <1>4, <1>14, <3>1, SplitPointIs
    <3> QED BY <1>1, <1>13, <3>2
  <2>2. CASE ~(x - (cols + 1) >= 0)
    <3>1. Most(x - (cols + 1), 0) = 0
      BY <1>1, <2>2 DEF Most
    <3> QED BY <1>4, <1>14, <3>1, SplitPointAtZero
  <2> QED BY <2>1, <2>2
<1> HIDE DEF half
<1>16. FollowsTo(a, b, x)
  <2>1. a.grab[1] # "panes"
    OBVIOUS
  <2> QED BY <1>10, <1>12, <1>15, <2>1 DEF FollowsTo, inner, d
<1> QED BY <1>10, <1>11, <1>16 DEF Drags, b

LEMMA DragToDrags ==
  ASSUME NEW a, AppOK(a), NEW x \in Nat, a.grab # <<>>
  PROVE  Drags(a, DragTo(a, x), x)
<1>1. a.grab \in Grips
  BY DEF AppOK, Divided
<1> QED BY <1>1, PanesDrag, MiddleDrag DEF Grips
-----------------------------------------------------------------------------
(* A resize, an answer, a notice, an opening *)

LEMMA SetAreaKept ==
  ASSUME NEW a, AppOK(a), NEW box, box.w \in Nat
  PROVE  /\ Kept(a, SetArea(a, box)) /\ SetArea(a, box).cols = a.cols
         /\ SetArea(a, box).mode = a.mode /\ SetArea(a, box).user = a.user
         /\ SetArea(a, box).shown = a.shown
<1> DEFINE c == [a EXCEPT !.area = box]
           b == SetArea(a, box)
<1>1. /\ DOMAIN c = AppFields /\ c.area = box /\ \A f \in AppFields \ {"area"} : c[f] = a[f]
  BY DEF AppOK, AppFields
<1>2. b = Remeasure(c)
  BY DEF SetArea
<1> HIDE DEF b, c
<1>3. /\ c.user = a.user /\ c.bound = a.bound /\ c.file = a.file /\ c.offset = a.offset /\ c.view = a.view
      /\ c.cols = a.cols /\ c.grab = a.grab /\ c.shown = a.shown /\ c.mode = a.mode
  BY <1>1 DEF AppFields
<1>4. Stays(c, b)
  BY <1>1, <1>2, RemeasureStays
<1>5. AppOK(b) /\ (Wears(a) => Wears(b)) /\ b.cols = a.cols
  BY <1>1, <1>3, <1>4 DEF AppOK, ConfigRuns, Divided, Wears, Stays, SameButMode
<1>6. b.mode = a.mode /\ b.user = a.user /\ b.shown = a.shown
  BY <1>3, <1>4 DEF Stays, SameButMode
<1> QED BY <1>5, <1>6 DEF Kept, b

LEMMA AnsweredIdle == ASSUME NEW a, AppOK(a) PROVE Idle(a, Rebuild([a EXCEPT !.calling = FALSE]))
<1> DEFINE b == [a EXCEPT !.calling = FALSE]
<1>1. Stays(a, b)
  BY DEF Stays, SameButMode, AppFields, AppOK
<1> HIDE DEF b
<1>2. Stays(b, Rebuild(b))
  BY <1>1, RebuildStays DEF Stays, SameButMode
<1>3. Stays(a, Rebuild(b))
  BY <1>1, <1>2, StaysTwice
<1>4. Idle(a, Rebuild(b))
  BY <1>3, StaysIsIdle
<1> QED BY <1>4 DEF b

\* A notice takes the place of what was open, which may have been an edited config.
LEMMA NoticeIsOpen ==
  ASSUME NEW a, AppOK(a)
  PROVE  LET b == [a EXCEPT !.calling = FALSE, !.mode = Notice]
         IN  AppOK(b) /\ b.cols = a.cols /\ (a.shown = Worn(a.user) => Wears(b))
<1> DEFINE b == [a EXCEPT !.calling = FALSE, !.mode = Notice]
<1>1. /\ DOMAIN b = AppFields /\ b.mode = Notice /\ b.grab = a.grab
      /\ b.user = a.user /\ b.bound = a.bound /\ b.file = a.file /\ b.shown = a.shown
      /\ b.area = a.area /\ b.view = a.view /\ b.cols = a.cols /\ b.offset = a.offset
  BY DEF AppOK, AppFields
<1>2. "kind" \in DOMAIN Notice /\ Notice.kind \notin {"config", "help", "quit"}
  BY DEF Notice
<1> HIDE DEF b
<1>3. AppOK(b)
  BY <1>1, <1>2 DEF AppOK, ConfigRuns, Divided, ModeOK
<1>4. a.shown = Worn(a.user) => Wears(b)
  BY <1>1, <1>2 DEF Wears
<1> QED BY <1>1, <1>3, <1>4 DEF b

LEMMA OpenedIsOK ==
  ASSUME NEW file, ConfigOK(file), Opens(file), NEW disk, NEW box, box.w \in Nat, NEW view \in Views,
         NEW recorded, NEW wrap
  PROVE  AppOK(Opened(file, disk, box, view, recorded, wrap)) /\ Wears(Opened(file, disk, box, view, recorded, wrap))
<1> DEFINE c == [area |-> box, mode |-> Normal, user |-> file, shown |-> Worn(file), bound |-> KeysOf(file),
                 pending |-> <<>>, file |-> file, disk |-> disk,
                 view |-> view, focus |-> "groups", cols |-> [v \in {"groups", "files"} |-> Default_cols],
                 offset |-> 0, grab |-> <<>>, at |-> [v \in {"groups", "files"} |-> 1], top |-> 1,
                 cursor |-> FirstRow, scroll |-> 1, recorded |-> recorded, wrap |-> wrap, followed |-> FALSE,
                 entries |-> Entries, last |-> [query |-> "", hit |-> 1], calling |-> FALSE]
           b == Opened(file, disk, box, view, recorded, wrap)
<1>1. b = FollowPlan(FollowCursor(c))
  BY Zenon DEF Opened
<1>2. /\ DOMAIN c = AppFields /\ c.mode = Normal /\ c.grab = <<>>
      /\ c.user = file /\ c.bound = KeysOf(file) /\ c.file = file /\ c.shown = Worn(file)
      /\ c.area = box /\ c.view = view /\ c.cols = [v \in Views |-> Default_cols] /\ c.offset = 0
  BY DEF AppFields, Views
<1> HIDE DEF b, c
<1>3. Stays(c, FollowCursor(c))
  BY <1>2, FollowCursorStays
<1>4. Stays(FollowCursor(c), b)
  BY <1>1, <1>3, FollowPlanStays DEF Stays, SameButMode
<1>5. Stays(c, b)
  BY <1>3, <1>4, StaysTwice
<1>6. "kind" \in DOMAIN Normal /\ Normal.kind = "normal"
  BY DEF Normal
<1>7. c.cols \in [Views -> Nat]
  BY <1>2, DeskAssumption DEF DeskAssumption
<1>8. AppOK(c) /\ Wears(c)
  BY <1>2, <1>6, <1>7 DEF AppOK, ConfigRuns, Divided, ModeOK, Wears, Grips
<1>9. Idle(c, b)
  BY <1>5, <1>8, StaysIsIdle
<1> QED BY <1>8, <1>9 DEF Idle, Kept, b

\* Text in a box.
LEMMA TypesIdle ==
  ASSUME NEW a, AppOK(a), NEW b,
         \/ a.mode.kind = "search" /\ \E q : b = SearchTypes(a, q)
         \/ a.mode.kind = "command" /\ \E t : b = CommandTypes(a, t)
         \/ a.mode.kind = "config" /\ \E t \in Typed[FieldOf(a.mode)] : b = ConfigTypes(a, t)
  PROVE  Idle(a, b)
<1>1. CASE a.mode.kind = "config"
  BY <1>1, ConfigTypesIdle
<1>2. CASE a.mode.kind \in {"search", "command"}
  <2>1. Calm(a)
    BY <1>2, AppIsCalm
  <2>2. Turns(a, b)
    BY <1>2, <2>1, SearchTypesTurns, CommandTypesTurns
  <2> QED BY <1>2, <2>2, TurnsIsIdle
<1> QED BY <1>1, <1>2

-----------------------------------------------------------------------------
(* The terminal's events, one at a time *)

\* The reviewer is in order, and wears what it should unless a notice took that away.
Orderly(a, gone) == AppOK(a) /\ gone \in BOOLEAN /\ (gone = FALSE => Wears(a))
DeskInv == Orderly(app, lost)

LEMMA KeptIsOrderly ==
  ASSUME NEW a, NEW gone, Orderly(a, gone), NEW b, Kept(a, b), NEW after,
         after = (gone /\ (b.mode.kind = "config" \/ b.shown # Worn(b.user)))
  PROVE  Orderly(b, after)
<1>1. CASE gone = FALSE
  BY <1>1 DEF Orderly, Kept
<1>2. CASE gone = TRUE
  <2>1. CASE b.mode.kind = "config" \/ b.shown # Worn(b.user)
    BY <1>2, <2>1 DEF Orderly, Kept
  <2>2. CASE ~(b.mode.kind = "config" \/ b.shown # Worn(b.user))
    <3>1. Wears(b)
      BY <2>2 DEF Wears
    <3> QED BY <1>2, <2>2, <3>1 DEF Orderly, Kept
  <2> QED BY <2>1, <2>2
<1> QED BY <1>1, <1>2 DEF Orderly

\* What a step that is not a restart, a resize or a notice comes to.
Leads(a, b, gone, after) ==
  /\ Kept(a, b)
  /\ after = (gone /\ (b.mode.kind = "config" \/ b.shown # Worn(b.user)))

\* The dividers after it: what a key moves is the one drawn, by its step or to a wall.
MovesTo(a, b) ==
  /\ b.grab = <<>> /\ b.cols # a.cols => Stepping(a, b)
  /\ \A v \in Views : v # a.view => b.cols[v] = a.cols[v]

LEMMA PressedMoves == ASSUME NEW a, NEW b, Pressed(a, b) PROVE MovesTo(a, b)
BY DEF Pressed, Idle, Shifts, MovesTo

LEMMA DragsMove == ASSUME NEW a, NEW b, NEW x, a.grab # <<>>, Drags(a, b, x) PROVE MovesTo(a, b)
BY DEF Drags, MovesTo

LEMMA StepsOf ==
  ASSUME DeskInv, Running,
         \/ \E key \in Presses : Key(key)
         \/ \E keys \in Buttons(app) : Button(keys)
         \/ Types
         \/ \E line \in Off .. MaxLine : Click(line)
         \/ \E down \in BOOLEAN : Wheel(down)
         \/ \E pane \in {"plan", "detail"}, line \in 0 .. MaxLine : ClickIn(pane, line)
         \/ \E pane \in {"plan", "detail"}, down \in BOOLEAN : WheelIn(pane, down)
         \/ \E x \in {PlanCols(app) - 1, PlanCols(app), SplitColumn(app)} : Grab(x)
         \/ \E x \in Columns : Drag(x)
         \/ Answered
  PROVE  Leads(app, app', lost, lost') /\ (MovesTo(app, app') \/ SeveralPresses)
<1>0. AppOK(app) /\ app.mode.kind # "quit"
  BY DEF DeskInv, Orderly, Running
<1>1. ASSUME NEW key \in Presses, Key(key) PROVE Leads(app, app', lost, lost') /\ MovesTo(app, app')
  <2>1. app' = OnKey(app, key) /\ lost' = (lost /\ (app'.mode.kind = "config" \/ app'.shown # Worn(app'.user)))
    BY <1>1 DEF Key, Goes, Takes
  <2>2. Pressed(app, OnKey(app, key))
    BY <1>0, OnKeyPressed
  <2> QED BY <2>1, <2>2, PressedMoves DEF Leads, Idle, Pressed
<1>2. ASSUME NEW keys \in Buttons(app), Button(keys)
      PROVE  Leads(app, app', lost, lost') /\ (MovesTo(app, app') \/ SeveralPresses)
  <2>1. app' = PressEach(app, keys)
        /\ lost' = (lost /\ (app'.mode.kind = "config" \/ app'.shown # Worn(app'.user)))
    BY <1>2 DEF Button, Goes, Takes
  <2>2. Len(keys) \in Nat
    BY <1>0, ButtonsArePresses
  <2>3. Kept(app, PressEach(app, keys)) /\ (Len(keys) = 1 => Pressed(app, PressEach(app, keys)))
        /\ (Len(keys) = 0 => PressEach(app, keys) = app)
    BY <1>0, <2>2, PressEachKept
  <2>4. CASE Len(keys) > 1
    BY <1>2, <2>1, <2>3, <2>4 DEF Leads, SeveralPresses
  <2>5. CASE Len(keys) = 1
    BY <2>1, <2>3, <2>5, PressedMoves DEF Leads
  <2>6. CASE Len(keys) = 0
    BY <2>1, <2>3, <2>6 DEF Leads, MovesTo
  <2>7. Len(keys) > 1 \/ Len(keys) = 1 \/ Len(keys) = 0
    <3> DEFINE n == Len(keys)
    <3>1. n \in Nat
      BY <2>2
    <3> HIDE DEF n
    <3>2. n > 1 \/ n = 1 \/ n = 0
      BY <3>1
    <3> QED BY <3>2 DEF n
  <2> QED BY <2>4, <2>5, <2>6, <2>7
<1>3. CASE Types
  <2>1. /\ \/ app.mode.kind = "search" /\ \E q : app' = SearchTypes(app, q)
           \/ app.mode.kind = "command" /\ \E t : app' = CommandTypes(app, t)
           \/ app.mode.kind = "config" /\ \E t \in Typed[FieldOf(app.mode)] : app' = ConfigTypes(app, t)
        /\ lost' = (lost /\ (app'.mode.kind = "config" \/ app'.shown # Worn(app'.user)))
    BY <1>3 DEF Types, Goes, Takes
  <2>2. Idle(app, app')
    BY <1>0, <2>1, TypesIdle
  <2> QED BY <2>1, <2>2, PressedMoves DEF Leads, Idle, Pressed
<1>4. ASSUME NEW line \in Off .. MaxLine, Click(line) PROVE Leads(app, app', lost, lost') /\ MovesTo(app, app')
  <2>1. app' = ClickOpen(app, line) /\ lost' = (lost /\ (app'.mode.kind = "config" \/ app'.shown # Worn(app'.user)))
    BY <1>4 DEF Click, Takes
  <2>2. Idle(app, ClickOpen(app, line))
    BY <1>0, ClickOpenIdle
  <2> QED BY <2>1, <2>2, PressedMoves DEF Leads, Idle, Pressed
<1>5. ASSUME NEW down \in BOOLEAN, Wheel(down) PROVE Leads(app, app', lost, lost') /\ MovesTo(app, app')
  <2>1. app' = WheelOpen(app, down) /\ lost' = (lost /\ (app'.mode.kind = "config" \/ app'.shown # Worn(app'.user)))
    BY <1>5 DEF Wheel, Goes, Takes
  <2>2. Idle(app, WheelOpen(app, down))
    BY <1>0, WheelOpenIdle
  <2> QED BY <2>1, <2>2, PressedMoves DEF Leads, Idle, Pressed
<1>6. ASSUME NEW pane, NEW line, ClickIn(pane, line) PROVE Leads(app, app', lost, lost') /\ MovesTo(app, app')
  <2>1. app' = ClickPane(app, pane, line)
        /\ lost' = (lost /\ (app'.mode.kind = "config" \/ app'.shown # Worn(app'.user)))
    BY <1>6 DEF ClickIn, Goes, Takes
  <2>2. Idle(app, ClickPane(app, pane, line))
    BY <1>0, ClickPaneIdle
  <2> QED BY <2>1, <2>2, PressedMoves DEF Leads, Idle, Pressed
<1>7. ASSUME NEW pane, NEW down, WheelIn(pane, down) PROVE Leads(app, app', lost, lost') /\ MovesTo(app, app')
  <2>1. app' = WheelPane(app, pane, down)
        /\ lost' = (lost /\ (app'.mode.kind = "config" \/ app'.shown # Worn(app'.user)))
    BY <1>7 DEF WheelIn, Goes, Takes
  <2>2. Idle(app, WheelPane(app, pane, down))
    BY <1>0, WheelPaneIdle
  <2> QED BY <2>1, <2>2, PressedMoves DEF Leads, Idle, Pressed
<1>8. ASSUME NEW x, Grab(x) PROVE Leads(app, app', lost, lost') /\ MovesTo(app, app')
  <2>1. app' = Press_at(app, x, TRUE)
        /\ lost' = (lost /\ (app'.mode.kind = "config" \/ app'.shown # Worn(app'.user)))
    BY <1>8 DEF Grab, Goes, Takes
  <2>2. Idle(app, Press_at(app, x, TRUE))
    BY <1>0, PressAtIdle
  <2> QED BY <2>1, <2>2, PressedMoves DEF Leads, Idle, Pressed
<1>9. ASSUME NEW x \in Columns, Drag(x) PROVE Leads(app, app', lost, lost') /\ MovesTo(app, app')
  <2>1. app' = DragTo(app, x) /\ app.grab # <<>>
        /\ lost' = (lost /\ (app'.mode.kind = "config" \/ app'.shown # Worn(app'.user)))
    BY <1>9 DEF Drag, Goes, Takes
  <2>2. x \in Nat
    BY DeskAssumption DEF DeskAssumption
  <2>3. Drags(app, DragTo(app, x), x)
    BY <1>0, <2>1, <2>2, DragToDrags
  <2> QED BY <2>1, <2>3, DragsMove DEF Leads, Drags
<1>10. CASE Answered
  <2>1. app' = Rebuild([app EXCEPT !.calling = FALSE])
        /\ lost' = (lost /\ (app'.mode.kind = "config" \/ app'.shown # Worn(app'.user)))
    BY <1>10 DEF Answered, Goes, Takes
  <2>2. Idle(app, Rebuild([app EXCEPT !.calling = FALSE]))
    BY <1>0, AnsweredIdle
  <2> QED BY <2>1, <2>2, PressedMoves DEF Leads, Idle, Pressed
<1> QED BY <1>1, <1>2, <1>3, <1>4, <1>5, <1>6, <1>7, <1>8, <1>9, <1>10

LEMMA DeskInitInv == DeskInit => DeskInv
<1> SUFFICES ASSUME DeskInit PROVE DeskInv
  OBVIOUS
<1>1. PICK file \in {c \in Configs : Opens(c)}, disk \in {"ok", "refuses"}, box \in Areas :
        app = Opened(file, disk, box, "groups", Unset, FALSE)
  BY DEF DeskInit
<1>2. ConfigOK(file) /\ box.w \in Nat /\ "groups" \in Views
  BY DeskAssumption DEF DeskAssumption, ConfigOK, Views
<1>3. AppOK(app) /\ Wears(app)
  BY <1>1, <1>2, OpenedIsOK
<1> QED BY <1>3 DEF DeskInit, DeskInv, Orderly

LEMMA DeskStep == DeskInv /\ [DeskNext]_deskVars => DeskInv'
<1> SUFFICES ASSUME DeskInv, [DeskNext]_deskVars PROVE DeskInv'
  OBVIOUS
<1>0. Orderly(app, lost) /\ AppOK(app)
  BY DEF DeskInv, Orderly
<1>1. CASE Running /\ Leads(app, app', lost, lost')
  BY <1>0, <1>1, KeptIsOrderly DEF DeskInv, Leads
<1>2. ASSUME NEW box \in Areas \ {app.area}, SetsArea(box) PROVE DeskInv'
  <2>1. app' = SetArea(app, box) /\ lost' = lost /\ box.w \in Nat
    BY <1>2, DeskAssumption DEF SetsArea, DeskAssumption
  <2>2. Kept(app, app')
    BY <1>0, <2>1, SetAreaKept
  <2> QED BY <1>0, <2>1, <2>2 DEF DeskInv, Orderly, Kept
<1>3. CASE Failed
  <2>1. app' = [app EXCEPT !.calling = FALSE, !.mode = Notice] /\ lost' = (app.shown # Worn(app.user))
    BY <1>3 DEF Failed
  <2>2. AppOK(app') /\ (app.shown = Worn(app.user) => Wears(app'))
    BY <1>0, <2>1, NoticeIsOpen
  <2> QED BY <2>1, <2>2 DEF DeskInv, Orderly
<1>4. CASE Restart
  <2>1. /\ app' = Opened(app.file, app.disk, app.area, app.view, app.recorded, app.wrap) /\ lost' = FALSE
        /\ Opens(app.file)
    BY <1>4 DEF Restart
  <2>2. ConfigOK(app.file) /\ app.area.w \in Nat /\ app.view \in Views
    BY <1>0 DEF AppOK, ConfigRuns, Divided
  <2>3. AppOK(app') /\ Wears(app')
    BY <2>1, <2>2, OpenedIsOK
  <2> QED BY <2>1, <2>3 DEF DeskInv, Orderly
<1>5. CASE UNCHANGED deskVars
  BY <1>0, <1>5 DEF DeskInv, deskVars
<1>6. ASSUME \/ \E key \in Presses : Key(key)
             \/ \E keys \in Buttons(app) : Button(keys)
             \/ Types
             \/ \E line \in Off .. MaxLine : Click(line)
             \/ \E down \in BOOLEAN : Wheel(down)
             \/ \E pane \in {"plan", "detail"}, line \in 0 .. MaxLine : ClickIn(pane, line)
             \/ \E pane \in {"plan", "detail"}, down \in BOOLEAN : WheelIn(pane, down)
             \/ \E x \in {PlanCols(app) - 1, PlanCols(app), SplitColumn(app)} : Grab(x)
             \/ \E x \in Columns : Drag(x)
             \/ Answered
      PROVE  DeskInv'
  <2>1. Running
    BY <1>6 DEF Key, Button, Types, Click, Wheel, ClickIn, WheelIn, Grab, Drag, Answered, Over, InPanes
  <2> QED BY <1>1, <1>6, <2>1, StepsOf
<1> QED BY <1>2, <1>3, <1>4, <1>5, <1>6 DEF DeskNext

-----------------------------------------------------------------------------
(* The theorems *)

\* Whatever the reviewer does and whatever the forge answers, it runs under its file's config
\* and that config's keys, its dividers are numbers, and a draft that is open is one it may
\* run under but for its keys, whose faults are counted (`on_event`, `on_key`, `on_mouse`).
THEOREM DeskInvariant == DeskSpec => []DeskInv
BY DeskInitInv, DeskStep, PTL DEF DeskSpec

\* What is on the screen is the config the reviewer edits while it edits one, and the config
\* it runs under otherwise, unless a notice took an edited one's place; the keys are that
\* config's, the file holds it, and the reviewer opens under it again.
THEOREM TheScreenIsTheConfig == DeskSpec => []ScreenIsTheConfig
<1>1. DeskInv => ScreenIsTheConfig
  BY DEF DeskInv, Orderly, AppOK, ConfigRuns, Wears, ScreenIsTheConfig, Running
<1> QED BY <1>1, DeskInvariant, PTL DEF DeskSpec

\* Whatever keymap a reviewer comes to run with, each binding's presses lead to its action.
THEOREM TheBindingsAnswer == DeskSpec => []BindingsAnswer
<1>1. DeskInv => BindingsAnswer
  <2> SUFFICES ASSUME DeskInv PROVE BindingsAnswer
    OBVIOUS
  <2>1. app.bound \in Accepted
    BY OpensAreAccepted DEF DeskInv, Orderly, AppOK, ConfigRuns
  <2> QED BY <2>1, AcceptedAnswers DEF BindingsAnswer
<1> QED BY <1>1, DeskInvariant, PTL DEF DeskSpec

\* A dragged divider stays under the pointer that holds it or stops at a wall, a resize key
\* moves the one that is drawn by its step or to a wall, and neither moves the other list's.
THEOREM TheDividerMoves == DeskSpec => DividerMoves
<1> DEFINE A == /\ app.grab # <<>> => \A x \in Columns : Drag(x) => Follows(x)
                /\ app'.grab = <<>> /\ app'.cols # app.cols => Resized \/ SeveralPresses
                /\ SeveralPresses \/ \A v \in DOMAIN app.cols : v # app.view => app'.cols[v] = app.cols[v]
<1>1. ASSUME DeskInv, [DeskNext]_deskVars, Running PROVE A
  <2>0. AppOK(app) /\ DOMAIN app.cols = Views
    BY <1>1 DEF DeskInv, Orderly, AppOK, Divided
  <2>1. ASSUME app.grab # <<>>, NEW x \in Columns, Drag(x) PROVE Follows(x)
    <3>1. app' = DragTo(app, x) /\ x \in Nat
      BY <2>1, DeskAssumption DEF Drag, Goes, Takes, DeskAssumption
    <3>2. Drags(app, app', x)
      BY <2>0, <2>1, <3>1, DragToDrags
    <3> QED BY <3>2 DEF Drags, FollowsTo, Follows
  <2>2. MovesTo(app, app') \/ SeveralPresses
    <3>1. CASE app'.cols = app.cols
      BY <3>1 DEF MovesTo
    <3>2. ASSUME NEW box \in Areas \ {app.area}, SetsArea(box) PROVE app'.cols = app.cols
      <4>1. app' = SetArea(app, box) /\ box.w \in Nat
        BY <3>2, DeskAssumption DEF SetsArea, DeskAssumption
      <4> QED BY <2>0, <4>1, SetAreaKept
    <3>3. CASE Failed
      <4>1. app' = [app EXCEPT !.calling = FALSE, !.mode = Notice]
        BY <3>3 DEF Failed
      <4>2. app'.cols = app.cols
        BY <2>0, <4>1, NoticeIsOpen
      <4> QED BY <3>1, <4>2
    <3>4. CASE UNCHANGED deskVars
      <4>1. app'.cols = app.cols
        BY <3>4 DEF deskVars
      <4> QED BY <3>1, <4>1
    <3>5. ~Restart
      BY <1>1 DEF Restart
    <3> QED BY <1>1, <3>1, <3>2, <3>3, <3>4, <3>5, StepsOf DEF DeskNext
  <2>3. Stepping(app, app') => Resized
    BY DEF Stepping, Resized
  <2> HIDE DEF A
  <2> QED BY <2>0, <2>1, <2>2, <2>3 DEF MovesTo, A
<1>2. DeskInv /\ [DeskNext]_deskVars => [Running => A]_deskVars
  BY <1>1
<1> QED BY <1>2, DeskInvariant, PTL DEF DeskSpec, DividerMoves

-----------------------------------------------------------------------------
(* Lists on the screen *)

\* The lines up to each entry.
UpTo(up, heights) ==
  /\ up \in [0 .. Len(heights) -> Nat] /\ up[0] = 0
  /\ \A i \in 1 .. Len(heights) : up[i] = heights[i] + up[i - 1]

LEMMA TallIsADifference ==
  ASSUME NEW heights \in Seq(Nat)
  PROVE  \E up : /\ UpTo(up, heights)
                 /\ \A from, to : Tall(heights, from, to) = up[to] - up[from - 1]
<1> DEFINE N == Len(heights)
           Def(f) == [i \in 0 .. Len(heights) |-> IF i = 0 THEN 0 ELSE heights[i] + f[i - 1]]
           up == CHOOSE f : f = Def(f)
           G == [i \in Nat |-> [t \in Nat |-> IF i \in 1 .. N THEN heights[i] + t ELSE t]]
<1>1. N \in Nat /\ \A i \in 1 .. N : heights[i] \in Nat
  OBVIOUS
<1>2. G \in Steps(Nat)
  BY <1>1 DEF Steps
<1>3. \E f : IsPass(f, N, Nat, 0, G)
  <2> HIDE DEF G, N
  <2> QED BY <1>1, <1>2, Recursion
<1>4. PICK f : IsPass(f, N, Nat, 0, G)
  BY <1>3
<1>5. \A i \in 1 .. N : f[i] = heights[i] + f[i - 1]
  <2> TAKE i \in 1 .. N
  <2>1. i \in Nat /\ i - 1 \in 0 .. N /\ f[i - 1] \in Nat
    BY <1>4 DEF IsPass
  <2>2. f[i] = G[i][f[i - 1]]
    BY <1>4 DEF IsPass
  <2> QED BY <2>1, <2>2
<1>6. f = Def(f)
  <2>1. DOMAIN f = 0 .. N /\ f = [i \in 0 .. N |-> f[i]] /\ f[0] = 0
    BY <1>4 DEF IsPass
  <2>2. \A i \in 0 .. N : f[i] = IF i = 0 THEN 0 ELSE heights[i] + f[i - 1]
    <3> TAKE i \in 0 .. N
    <3>1. i # 0 => i \in 1 .. N
      BY <1>1
    <3> HIDE DEF N
    <3> QED BY <1>5, <2>1, <3>1
  <2> HIDE DEF G
  <2> QED BY <2>1, <2>2
<1>7. up = Def(up)
  <2> HIDE DEF Def
  <2> QED BY <1>6
<1>8. \A from, to : Tall(heights, from, to) = up[to] - up[from - 1]
  BY DEF Tall
<1> HIDE DEF up
<1>9. DOMAIN up = 0 .. N /\ \A i \in 0 .. N : up[i] = IF i = 0 THEN 0 ELSE heights[i] + up[i - 1]
  <2> DEFINE d == Def(up)
  <2>1. DOMAIN d = 0 .. N /\ \A i \in 0 .. N : d[i] = IF i = 0 THEN 0 ELSE heights[i] + up[i - 1]
    OBVIOUS
  <2>2. up = d
    BY <1>7
  <2> HIDE DEF d, N
  <2> QED BY <2>1, <2>2
<1>10. \A i \in 0 .. N : up[i] \in Nat
  <2> DEFINE T == {i \in 0 .. N : up[i] \in Nat}
  <2>1. 0 \in T
    BY <1>1, <1>9
  <2>2. ASSUME NEW i \in 0 .. (N - 1), i \in T PROVE i + 1 \in T
    <3>1. i + 1 \in 0 .. N /\ i + 1 # 0 /\ (i + 1) - 1 = i /\ i + 1 \in 1 .. N
      BY <1>1
    <3>2. up[i + 1] = heights[i + 1] + up[i] /\ heights[i + 1] \in Nat /\ up[i] \in Nat
      BY <1>1, <1>9, <2>2, <3>1
    <3> QED BY <3>1, <3>2
  <2> HIDE DEF T, N
  <2>3. \A i \in 0 .. N : i \in T
    BY <1>1, <2>1, <2>2, ByInduction
  <2> QED BY <2>3 DEF T
<1>11. UpTo(up, heights)
  <2>1. up = [i \in 0 .. N |-> up[i]]
    BY <1>7
  <2>2. up \in [0 .. N -> Nat]
    BY <1>10, <2>1
  <2>3. \A i \in 1 .. N : i \in 0 .. N /\ i # 0
    OBVIOUS
  <2>4. 0 \in 0 .. N
    BY <1>1
  <2> QED BY <1>9, <2>2, <2>3, <2>4 DEF UpTo
<1> QED BY <1>8, <1>11

\* They only rise.
LEMMA UpToRises ==
  ASSUME NEW heights \in Seq(Nat), NEW up, UpTo(up, heights)
  PROVE  \A i, j \in 0 .. Len(heights) : i <= j => up[i] <= up[j]
<1> DEFINE N == Len(heights)
           T == {j \in 0 .. N : \A i \in 0 .. j : up[i] <= up[j]}
<1>1. N \in Nat /\ \A i \in 1 .. N : heights[i] \in Nat
  OBVIOUS
<1>2. 0 \in T
  BY DEF UpTo
<1>3. ASSUME NEW j \in 0 .. (N - 1), j \in T PROVE j + 1 \in T
  <2>1. j + 1 \in 1 .. N /\ (j + 1) - 1 = j /\ j \in 0 .. N /\ j + 1 \in 0 .. N
    BY <1>1
  <2>2. up[j + 1] = heights[j + 1] + up[j] /\ heights[j + 1] \in Nat /\ up[j] \in Nat /\ up[j + 1] \in Nat
    BY <1>1, <2>1 DEF UpTo
  <2>3. ASSUME NEW i \in 0 .. (j + 1) PROVE up[i] <= up[j + 1]
    <3>1. CASE i = j + 1
      BY <2>2, <3>1
    <3>2. CASE i # j + 1
      <4>1. i \in 0 .. j /\ i \in 0 .. N
        BY <1>1, <3>2
      <4>2. up[i] <= up[j] /\ up[i] \in Nat
        BY <1>3, <4>1 DEF UpTo
      <4> QED BY <2>2, <4>2
    <3> QED BY <3>1, <3>2
  <2> QED BY <2>1, <2>3
<1>4. \A j \in 0 .. N : j \in T
  <2> HIDE DEF T, N
  <2> QED BY <1>1, <1>2, <1>3, ByInduction
<1> QED BY <1>4

\* A stretch inside another takes no more lines.
LEMMA TallRises ==
  ASSUME NEW heights \in Seq(Nat)
  PROVE  /\ \A i \in 1 .. Len(heights) + 1, j \in 0 .. Len(heights) : Tall(heights, i, j) \in Int
         /\ \A i, k \in 1 .. Len(heights) + 1, j, l \in 0 .. Len(heights) :
               i <= k /\ l <= j => Tall(heights, k, l) <= Tall(heights, i, j)
<1>1. PICK up : /\ UpTo(up, heights)
                /\ \A from, to : Tall(heights, from, to) = up[to] - up[from - 1]
  BY TallIsADifference
<1>2. /\ \A i \in 0 .. Len(heights) : up[i] \in Nat
      /\ \A i, j \in 0 .. Len(heights) : i <= j => up[i] <= up[j]
  BY <1>1, UpToRises DEF UpTo
<1>3. Len(heights) \in Nat /\ \A i \in 1 .. Len(heights) + 1 : i - 1 \in 0 .. Len(heights)
  OBVIOUS
<1> DEFINE N == Len(heights)
<1> HIDE DEF N
<1>4. \A i \in 1 .. N + 1, j \in 0 .. N : Tall(heights, i, j) \in Int
  BY <1>1, <1>2, <1>3 DEF N
<1>5. ASSUME NEW i \in 1 .. N + 1, NEW k \in 1 .. N + 1, NEW j \in 0 .. N, NEW l \in 0 .. N, i <= k, l <= j
      PROVE  Tall(heights, k, l) <= Tall(heights, i, j)
  <2>1. i - 1 \in 0 .. N /\ k - 1 \in 0 .. N /\ i - 1 <= k - 1
    BY <1>3, <1>5 DEF N
  <2>2. up[i - 1] <= up[k - 1] /\ up[l] <= up[j]
    BY <1>2, <1>5, <2>1 DEF N
  <2>3. up[i - 1] \in Nat /\ up[k - 1] \in Nat /\ up[l] \in Nat /\ up[j] \in Nat
    BY <1>2, <2>1 DEF N
  <2> QED BY <1>1, <2>2, <2>3, SMTT(30)
<1> QED BY <1>4, <1>5 DEF N

\* Entries of one line each.
LEMMA OnesAreTall ==
  ASSUME NEW heights \in Seq(Nat), \A i \in 1 .. Len(heights) : heights[i] = 1
  PROVE  \A i \in 1 .. Len(heights) + 1, j \in 0 .. Len(heights) : Tall(heights, i, j) = j - i + 1
<1> DEFINE N == Len(heights)
<1>1. PICK up : /\ UpTo(up, heights)
                /\ \A from, to : Tall(heights, from, to) = up[to] - up[from - 1]
  BY TallIsADifference
<1> DEFINE T == {n \in 0 .. N : up[n] = n}
<1>2. N \in Nat
  OBVIOUS
<1>3. 0 \in T
  BY <1>1 DEF UpTo
<1>4. ASSUME NEW n \in 0 .. (N - 1), n \in T PROVE n + 1 \in T
  <2>1. n + 1 \in 1 .. N /\ (n + 1) - 1 = n /\ n + 1 \in 0 .. N
    BY <1>2
  <2>2. up[n + 1] = heights[n + 1] + up[n]
    BY <1>1, <2>1 DEF UpTo
  <2> QED BY <1>4, <2>1, <2>2
<1>5. \A n \in 0 .. N : n \in T
  <2> HIDE DEF T, N
  <2> QED BY <1>2, <1>3, <1>4, ByInduction
<1>6. ASSUME NEW i \in 1 .. N + 1, NEW j \in 0 .. N PROVE Tall(heights, i, j) = j - i + 1
  <2>1. i - 1 \in 0 .. N
    BY <1>2
  <2>2. up[j] = j /\ up[i - 1] = i - 1
    BY <1>5, <2>1
  <2> HIDE DEF N, T
  <2> QED BY <1>1, <2>2
<1> QED BY <1>6

\* From an offset that has the selection in view, the widget draws.
LEMMA ShownFromThere ==
  ASSUME NEW heights, NEW offset \in Nat \ {0}, NEW selected \in Nat, NEW height,
         offset <= selected, offset = selected \/ Tall(heights, offset, selected) <= height
  PROVE  Shown(heights, offset, selected, height) = offset
<1> DEFINE S == {s \in offset .. selected : s = selected \/ Tall(heights, s, selected) <= height}
<1>1. S \subseteq Nat /\ offset \in S
  OBVIOUS
<1>2. Min(S) \in S /\ Min(S) <= offset
  <2> HIDE DEF S
  <2> QED BY <1>1, MinIsLeast
<1>3. Min(S) >= offset
  BY <1>2
<1>4. Min(S) = offset
  BY <1>1, <1>2, <1>3
<1>5. Shown(heights, offset, selected, height) = Min(S)
  BY DEF Shown
<1> QED BY <1>4, <1>5

\* And it is what a list of entries of several lines is scrolled to.
LEMMA FollowTallKeeps ==
  ASSUME NEW heights, NEW selected \in Nat \ {0}, NEW scroll \in Nat \ {0}, NEW height
  PROVE  /\ FollowTall(heights, selected, scroll, height) \in 1 .. selected
         /\ \/ FollowTall(heights, selected, scroll, height) = selected
            \/ Tall(heights, FollowTall(heights, selected, scroll, height), selected) <= height
<1> DEFINE top == Least(scroll, selected)
           S == {s \in top .. selected : s = selected \/ Tall(heights, s, selected) <= height}
<1>1. top \in 1 .. selected
  BY DEF Least
<1>2. S \subseteq Nat /\ selected \in S
  <2> HIDE DEF top
  <2> QED BY <1>1
<1>3. Min(S) \in S
  <2> HIDE DEF S
  <2> QED BY <1>2, MinIsLeast
<1>4. FollowTall(heights, selected, scroll, height) = Min(S)
  BY DEF FollowTall
<1>5. Min(S) \in 1 .. selected /\ (Min(S) = selected \/ Tall(heights, Min(S), selected) <= height)
  <2> HIDE DEF top
  <2> QED BY <1>1, <1>3
<1> QED BY <1>4, <1>5

\* What is drawn on a line is what is found there.
LEMMA HitIsDrawn ==
  ASSUME NEW heights \in Seq(Nat), NEW offset \in Nat \ {0}, NEW height,
         NEW d \in DrawnAt(heights, offset, height)
  PROVE  /\ d[1] \in offset .. Len(heights) /\ Tall(heights, offset, d[1]) <= height
         /\ d[2] \in Tall(heights, offset, d[1] - 1) .. Tall(heights, offset, d[1]) - 1
         /\ EntryAtLine(heights, offset, d[2]) = d[1]
<1> DEFINE N == Len(heights)
<1>1. PICK i \in offset .. N :
        /\ Tall(heights, offset, i) <= height
        /\ d \in {i} \X (Tall(heights, offset, i - 1) .. Tall(heights, offset, i) - 1)
  BY DEF DrawnAt
<1>2. d[1] = i /\ d[2] \in Tall(heights, offset, i - 1) .. Tall(heights, offset, i) - 1
  BY <1>1
<1> DEFINE line == d[2]
           reach == {j \in offset .. N : line < Tall(heights, offset, j)}
<1>3. N \in Nat /\ i \in 1 .. N /\ offset \in 1 .. N + 1
  OBVIOUS
<1>4. Tall(heights, offset, i - 1) \in Int /\ Tall(heights, offset, i) \in Int /\ line \in Int
  BY <1>2, <1>3, TallRises
<1>5. i \in reach /\ reach \subseteq Nat
  BY <1>2, <1>4
<1>6. Min(reach) \in reach /\ Min(reach) <= i
  <2> HIDE DEF reach
  <2> QED BY <1>5, MinIsLeast
<1>7. ASSUME NEW j \in reach, j < i PROVE FALSE
  <2>1. j \in 0 .. N /\ j <= i - 1 /\ i - 1 \in 0 .. N
    BY <1>3, <1>7
  <2>2. Tall(heights, offset, j) <= Tall(heights, offset, i - 1) /\ Tall(heights, offset, j) \in Int
    <3> HIDE DEF reach
    <3>1. offset <= offset
      BY <1>3
    <3>2. Tall(heights, offset, j) <= Tall(heights, offset, i - 1)
      BY <1>3, <2>1, <3>1, TallRises
    <3>3. Tall(heights, offset, j) \in Int
      BY <1>3, <2>1, TallRises
    <3> QED BY <3>2, <3>3
  <2>3. line < Tall(heights, offset, j)
    BY <1>7
  <2> QED BY <1>2, <1>4, <2>2, <2>3, SMTT(30)
<1>8. Min(reach) = i
  <2>1. Min(reach) \in Nat
    BY <1>5, <1>6
  <2> HIDE DEF reach
  <2> QED BY <1>3, <1>6, <1>7, <2>1
<1>9. EntryAtLine(heights, offset, line) = i
  BY <1>5, <1>8 DEF EntryAtLine
<1> QED BY <1>1, <1>2, <1>9

\* Where an entry is among the entries and the rules above them.
Place(rules, i) == i + Cardinality({r \in rules : r <= i})

\* The rules drawn between two entries.
RulesIn(rules, from, to) == Cardinality({r \in rules : from < r /\ r <= to})

LEMMA RulesAreBetween ==
  ASSUME NEW n \in Nat, NEW rules, rules \subseteq 1 .. n
  PROVE  \A i, j \in 0 .. n : i <= j => Place(rules, j) - Place(rules, i) = j - i + RulesIn(rules, i, j)
<1> DEFINE Before(i) == {r \in rules : r <= i}
           Amid(i, j) == {r \in rules : i < r /\ r <= j}
<1>0. \A r \in rules : r \in Int /\ r >= 1 /\ r <= n
  OBVIOUS
<1>1. \A S : S \subseteq rules => IsFiniteSet(S) /\ Cardinality(S) \in Nat
  <2>1. IsFiniteSet(1 .. n)
    BY UpToIsFinite
  <2>2. IsFiniteSet(rules)
    BY <2>1, FS_Subset
  <2> QED BY <2>2, FS_Subset, FS_CardinalityType
<1>2. \A i \in 0 .. n : Before(i) \subseteq rules /\ Cardinality(Before(i)) \in Nat
  BY <1>1
<1>3. \A i \in 0 .. n : Place(rules, i) = i + Cardinality(Before(i))
  BY DEF Place
<1>4. ASSUME NEW i \in 0 .. n, NEW j \in 0 .. n, i <= j
      PROVE  /\ Place(rules, j) - Place(rules, i) = j - i + Cardinality(Amid(i, j))
             /\ Cardinality(Amid(i, j)) \in Nat
  <2>1. Before(j) = Before(i) \cup Amid(i, j) /\ Before(i) \cap Amid(i, j) = {}
    <3>1. i \in Int /\ j \in Int
      OBVIOUS
    <3>2. \A r \in rules : (r <= j <=> r <= i \/ (i < r /\ r <= j)) /\ ~(r <= i /\ i < r)
      BY <1>0, <1>4, <3>1
    <3> QED BY <3>2, Zenon
  <2>2. /\ IsFiniteSet(Before(i)) /\ IsFiniteSet(Amid(i, j))
        /\ Cardinality(Before(i)) \in Nat /\ Cardinality(Amid(i, j)) \in Nat
    BY <1>1
  <2> HIDE DEF Before, Amid
  <2>3. Cardinality(Before(j)) = Cardinality(Before(i)) + Cardinality(Amid(i, j))
    <3>1. Cardinality(Before(i) \cup Amid(i, j))
            = Cardinality(Before(i)) + Cardinality(Amid(i, j)) - Cardinality(Before(i) \cap Amid(i, j))
      BY <2>2, FS_Union
    <3>2. Cardinality(Before(i) \cap Amid(i, j)) = 0
      BY <2>1, FS_EmptySet
    <3> QED BY <2>1, <2>2, <3>1, <3>2
  <2> QED BY <1>3, <2>2, <2>3
<1> QED BY <1>4 DEF RulesIn

LEMMA RulesAreCounted ==
  ASSUME NEW n \in Nat, NEW rules, rules \subseteq 1 .. n
  PROVE  /\ \A i \in 0 .. n : Place(rules, i) \in Nat
         /\ Place(rules, 0) = 0
         /\ \A i \in 1 .. n : Place(rules, i) = Place(rules, i - 1) + IF i \in rules THEN 2 ELSE 1
         /\ \A i, j \in 0 .. n : i <= j => Place(rules, j) - Place(rules, i) >= j - i
<1> DEFINE Before(i) == {r \in rules : r <= i}
           Amid(i, j) == {r \in rules : i < r /\ r <= j}
<1>0. \A r \in rules : r \in Int /\ r >= 1 /\ r <= n
  OBVIOUS
<1>1. \A S : S \subseteq rules => IsFiniteSet(S) /\ Cardinality(S) \in Nat
  <2>1. IsFiniteSet(1 .. n)
    BY UpToIsFinite
  <2>2. IsFiniteSet(rules)
    BY <2>1, FS_Subset
  <2> QED BY <2>2, FS_Subset, FS_CardinalityType
<1>2. \A i \in 0 .. n : Before(i) \subseteq rules /\ Cardinality(Before(i)) \in Nat
  BY <1>1
<1>3. \A i \in 0 .. n : Place(rules, i) = i + Cardinality(Before(i))
  BY DEF Place
<1>4. Place(rules, 0) = 0
  <2>1. Before(0) = {}
    <3>1. ASSUME NEW r \in Before(0) PROVE FALSE
      <4>1. r \in rules /\ r <= 0
        OBVIOUS
      <4> QED BY <1>0, <4>1
    <3> HIDE DEF Before
    <3> QED BY <3>1
  <2> HIDE DEF Before
  <2> QED BY <1>3, <2>1, FS_EmptySet
<1>5. ASSUME NEW i \in 0 .. n, NEW j \in 0 .. n, i <= j
      PROVE  /\ Place(rules, j) - Place(rules, i) = j - i + Cardinality(Amid(i, j))
             /\ Cardinality(Amid(i, j)) \in Nat
  <2>1. Cardinality(Amid(i, j)) \in Nat /\ RulesIn(rules, i, j) = Cardinality(Amid(i, j))
    BY <1>1 DEF RulesIn
  <2> HIDE DEF Amid
  <2>2. Place(rules, j) - Place(rules, i) = j - i + RulesIn(rules, i, j)
    <3>1. \A k, l \in 0 .. n : k <= l => Place(rules, l) - Place(rules, k) = l - k + RulesIn(rules, k, l)
      BY RulesAreBetween, Zenon
    <3> QED BY <1>5, <3>1, Zenon
  <2> QED BY <2>1, <2>2, Zenon
<1>6. ASSUME NEW i \in 1 .. n PROVE Place(rules, i) = Place(rules, i - 1) + IF i \in rules THEN 2 ELSE 1
  <2>1. i - 1 \in 0 .. n /\ i \in 0 .. n /\ i - 1 <= i
    OBVIOUS
  <2>2. Place(rules, i) - Place(rules, i - 1) = 1 + Cardinality(Amid(i - 1, i))
    <3> HIDE DEF Amid
    <3> QED BY <1>5, <2>1
  <2>3. Amid(i - 1, i) = IF i \in rules THEN {i} ELSE {}
    <3>1. \A r \in rules : i - 1 < r /\ r <= i <=> r = i
      BY <1>0
    <3> QED BY <3>1
  <2>4. Cardinality(Amid(i - 1, i)) = IF i \in rules THEN 1 ELSE 0
    <3> HIDE DEF Amid
    <3> QED BY <2>3, FS_EmptySet, FS_Singleton
  <2>5. Place(rules, i) \in Int /\ Place(rules, i - 1) \in Int
    <3> HIDE DEF Before
    <3> QED BY <1>2, <1>3, <2>1
  <2> HIDE DEF Amid
  <2> QED BY <2>2, <2>4, <2>5
<1>7. \A i \in 0 .. n : Place(rules, i) \in Nat
  <2> HIDE DEF Before
  <2> QED BY <1>2, <1>3
<1>8. ASSUME NEW i \in 0 .. n, NEW j \in 0 .. n, i <= j PROVE Place(rules, j) - Place(rules, i) >= j - i
  <2> HIDE DEF Amid
  <2> QED BY <1>5, <1>7, <1>8
<1> QED BY <1>4, <1>6, <1>7, <1>8

\* Each entry is at its place, and nothing is at the others.
Laid(items, rules, m) ==
  /\ Len(items) = Place(rules, m)
  /\ \A i \in 1 .. m : Place(rules, i) \in 1 .. Len(items) /\ items[Place(rules, i)] = i
  /\ \A k \in 1 .. Len(items) : items[k] = NoEntry \/ (items[k] \in 1 .. m /\ Place(rules, items[k]) = k)

LEMMA OneMoreLaid ==
  ASSUME NEW n \in Nat, NEW rules, rules \subseteq 1 .. n, NEW m \in 0 .. (n - 1),
         NEW f \in Seq(Nat), Laid(f, rules, m)
  PROVE  Laid(f \o (IF m + 1 \in rules THEN <<NoEntry, m + 1>> ELSE <<m + 1>>), rules, m + 1)
<1> DEFINE s == IF m + 1 \in rules THEN <<NoEntry, m + 1>> ELSE <<m + 1>>
           F == f \o s
           N == Len(f)
<1>0. m + 1 \in Nat
  OBVIOUS
<1>1. s \in Seq(Nat) /\ Len(s) = (IF m + 1 \in rules THEN 2 ELSE 1) /\ s[Len(s)] = m + 1
      /\ (Len(s) = 2 => s[1] = NoEntry)
  BY <1>0 DEF NoEntry
<1>2. N \in Nat /\ Len(s) \in {1, 2} /\ m \in Nat
  BY <1>1
<1> HIDE DEF s
<1>3. /\ Len(F) = N + Len(s)
      /\ \A k \in 1 .. N : F[k] = f[k]
      /\ \A k \in 1 .. Len(s) : F[N + k] = s[k]
  <2>1. Len(F) = N + Len(s) /\ \A k \in 1 .. (N + Len(s)) : F[k] = IF k <= N THEN f[k] ELSE s[k - N]
    BY <1>1, ConcatProperties
  <2> HIDE DEF F, N
  <2>2. ASSUME NEW k \in 1 .. Len(s) PROVE F[N + k] = s[k]
    <3>1. N + k \in 1 .. (N + Len(s)) /\ ~(N + k <= N) /\ (N + k) - N = k
      BY <1>2
    <3> QED BY <2>1, <3>1
  <2>3. ASSUME NEW k \in 1 .. N PROVE F[k] = f[k]
    <3>1. k \in 1 .. (N + Len(s)) /\ k <= N
      BY <1>2
    <3> QED BY <2>1, <3>1
  <2> QED BY <2>1, <2>2, <2>3
<1> HIDE DEF F, N
<1>4. Place(rules, m + 1) = Place(rules, m) + Len(s) /\ Place(rules, m) = N
  <2>1. m + 1 \in 1 .. n /\ (m + 1) - 1 = m
    OBVIOUS
  <2>2. \A i \in 1 .. n : Place(rules, i) = Place(rules, i - 1) + IF i \in rules THEN 2 ELSE 1
    BY RulesAreCounted
  <2>3. Place(rules, m + 1) = Place(rules, (m + 1) - 1) + IF m + 1 \in rules THEN 2 ELSE 1
    BY <2>1, <2>2
  <2> QED BY <1>1, <2>1, <2>3 DEF Laid, N
<1>5. Len(F) = Place(rules, m + 1)
  BY <1>3, <1>4
<1>6. ASSUME NEW i \in 1 .. (m + 1) PROVE Place(rules, i) \in 1 .. Len(F) /\ F[Place(rules, i)] = i
  <2>1. CASE i = m + 1
    <3>1. Place(rules, i) = N + Len(s)
      BY <1>4, <2>1
    <3>2. Len(s) \in 1 .. Len(s) /\ N + Len(s) \in 1 .. (N + Len(s))
      <4> DEFINE l == Len(s)
      <4>1. l \in Nat /\ l >= 1
        BY <1>2
      <4> HIDE DEF l
      <4>2. l \in 1 .. l /\ N + l \in 1 .. (N + l)
        BY <1>2, <4>1
      <4> QED BY <4>2 DEF l
    <3>3. F[N + Len(s)] = s[Len(s)]
      BY <1>3, <3>2
    <3> QED BY <1>1, <1>3, <2>1, <3>1, <3>2, <3>3
  <2>2. CASE i # m + 1
    <3>1. i \in 1 .. m
      BY <2>2
    <3>2. Place(rules, i) \in 1 .. N /\ f[Place(rules, i)] = i
      BY <3>1 DEF Laid, N
    <3> QED BY <1>2, <1>3, <3>2
  <2> QED BY <2>1, <2>2
<1>7. ASSUME NEW k \in 1 .. Len(F)
      PROVE  F[k] = NoEntry \/ (F[k] \in 1 .. (m + 1) /\ Place(rules, F[k]) = k)
  <2>1. CASE k \in 1 .. N
    <3>1. f[k] = NoEntry \/ (f[k] \in 1 .. m /\ Place(rules, f[k]) = k)
      BY <2>1 DEF Laid, N
    <3> QED BY <1>2, <1>3, <2>1, <3>1
  <2>2. CASE k = N + Len(s)
    <3>1. F[k] = m + 1 /\ m + 1 \in 1 .. (m + 1)
      BY <1>1, <1>2, <1>3, <2>2
    <3> QED BY <1>4, <2>2, <3>1
  <2>3. CASE k \notin 1 .. N /\ k # N + Len(s)
    <3>1. k > N /\ k <= N + Len(s) /\ k # N + Len(s)
      BY <1>2, <1>3, <2>3
    <3>2. Len(s) = 2 /\ k = N + 1
      <4>1. k \in Int
        OBVIOUS
      <4>2. CASE Len(s) = 1
        BY <1>2, <3>1, <4>1, <4>2
      <4>3. CASE Len(s) = 2
        BY <1>2, <3>1, <4>1, <4>3
      <4> QED BY <1>2, <4>2, <4>3
    <3>3. 1 \in 1 .. Len(s)
      BY <3>2
    <3>4. F[N + 1] = s[1]
      BY <1>3, <3>3
    <3> QED BY <1>1, <3>2, <3>4
  <2> QED BY <2>1, <2>2, <2>3
<1> QED BY <1>5, <1>6, <1>7 DEF Laid, F, s

LEMMA WithRulesLaid ==
  ASSUME NEW n \in Nat \ {0}, NEW rules, rules \subseteq 1 .. n
  PROVE  WithRules(n, rules) \in Seq(Nat) /\ Laid(WithRules(n, rules), rules, n)
<1> DEFINE seqs == [i \in 1 .. n |-> IF i \in rules THEN <<NoEntry, i>> ELSE <<i>>]
<1>1. seqs \in Seq(Seq(Nat)) /\ Len(seqs) = n /\ WithRules(n, rules) = FlattenSeq(seqs)
  <2>1. \A i \in 1 .. n : seqs[i] \in Seq(Nat)
    BY DEF NoEntry
  <2> QED BY <2>1 DEF WithRules
<1>2. \A i \in 1 .. n : seqs[i] = IF i \in rules THEN <<NoEntry, i>> ELSE <<i>>
  OBVIOUS
<1> HIDE DEF seqs
<1>3. PICK flat : Flattens(flat, seqs, Nat)
  BY <1>1, FlattenIsAPass
<1> DEFINE T == {m \in 0 .. n : Laid(flat[m], rules, m)}
<1>4. flat \in [0 .. n -> Seq(Nat)] /\ flat[0] = <<>> /\ \A i \in 1 .. n : flat[i] = flat[i - 1] \o seqs[i]
  BY <1>1, <1>3 DEF Flattens
<1>5. 0 \in T
  <2>1. Place(rules, 0) = 0
    BY RulesAreCounted
  <2> QED BY <1>4, <2>1 DEF Laid
<1>6. ASSUME NEW m \in 0 .. (n - 1), m \in T PROVE m + 1 \in T
  <2>1. m + 1 \in 1 .. n /\ (m + 1) - 1 = m /\ m \in 0 .. n /\ m + 1 \in 0 .. n
    OBVIOUS
  <2>2. flat[m + 1] = flat[m] \o seqs[m + 1] /\ flat[m] \in Seq(Nat)
    BY <1>4, <2>1
  <2>3. Laid(flat[m] \o (IF m + 1 \in rules THEN <<NoEntry, m + 1>> ELSE <<m + 1>>), rules, m + 1)
    BY <1>6, <2>2, OneMoreLaid
  <2>4. seqs[m + 1] = IF m + 1 \in rules THEN <<NoEntry, m + 1>> ELSE <<m + 1>>
    BY <1>2, <2>1
  <2> QED BY <2>1, <2>2, <2>3, <2>4
<1>7. n \in T
  <2> HIDE DEF T
  <2>1. \A m \in 0 .. n : m \in T
    BY <1>5, <1>6, ByInduction
  <2> QED BY <2>1
<1> QED BY <1>1, <1>3, <1>4, <1>7 DEF Flattens

\* So an entry is found at its place.
LEMMA ItemOfIsItsPlace ==
  ASSUME NEW n \in Nat \ {0}, NEW rules, rules \subseteq 1 .. n, NEW i \in 1 .. n
  PROVE  ItemOf(WithRules(n, rules), i) = Place(rules, i)
<1> DEFINE items == WithRules(n, rules)
           I == {k \in 1 .. Len(items) : items[k] = i}
<1>1. Laid(items, rules, n) /\ items \in Seq(Nat)
  BY WithRulesLaid
<1> HIDE DEF items
<1>2. I = {Place(rules, i)}
  <2>1. Place(rules, i) \in I
    BY <1>1 DEF Laid
  <2>2. ASSUME NEW k \in I PROVE k = Place(rules, i)
    BY <1>1 DEF Laid, NoEntry
  <2> QED BY <2>1, <2>2
<1>3. Min(I) = Place(rules, i)
  <2>1. I \subseteq Nat /\ I # {}
    BY <1>2, <1>1
  <2>2. Min(I) \in I
    BY <2>1, MinIsLeast
  <2> QED BY <1>2, <2>2
<1>4. ItemOf(items, i) = IF I # {} THEN Min(I) ELSE 0
  BY DEF ItemOf, SelectInSeq
<1> QED BY <1>2, <1>3, <1>4 DEF items

\* A list of entries of one line each, with its selection in view.
LEMMA LinesDrawn ==
  ASSUME NEW items \in Seq(Nat), NEW offset \in Nat \ {0}, NEW selected \in Nat, NEW height \in Nat,
         offset <= selected,
         selected = offset \/ (selected <= Len(items) /\ selected - offset + 1 <= height)
  PROVE  /\ Shown(Single(items), offset, selected, height) = offset
         /\ \A d \in DrawnAt(Single(items), offset, height) :
              d[1] \in offset .. Len(items) /\ d[2] = d[1] - offset /\ d[2] \in 0 .. (height - 1)
<1> DEFINE h == Single(items)
           N == Len(items)
<1>1. h \in Seq(Nat) /\ Len(h) = N /\ N \in Nat /\ \A i \in 1 .. N : h[i] = 1
  BY DEF Single
<1> HIDE DEF h
<1>2. \A i \in 1 .. N + 1, j \in 0 .. N : Tall(h, i, j) = j - i + 1
  BY <1>1, OnesAreTall
<1> HIDE DEF N
<1>3. Shown(h, offset, selected, height) = offset
  <2>1. CASE selected = offset
    BY <2>1, ShownFromThere
  <2>2. CASE selected # offset
    <3>1. offset \in 1 .. N + 1 /\ selected \in 0 .. N /\ selected - offset + 1 <= height
      BY <1>1, <2>2 DEF N
    <3>2. Tall(h, offset, selected) <= height
      BY <1>2, <3>1
    <3> QED BY <3>2, ShownFromThere
  <2> QED BY <2>1, <2>2
<1>4. ASSUME NEW d \in DrawnAt(h, offset, height)
      PROVE  d[1] \in offset .. N /\ d[2] = d[1] - offset /\ d[2] \in 0 .. (height - 1)
  <2>1. /\ d[1] \in offset .. N /\ Tall(h, offset, d[1]) <= height
        /\ d[2] \in Tall(h, offset, d[1] - 1) .. Tall(h, offset, d[1]) - 1
    BY <1>1, HitIsDrawn
  <2> DEFINE i == d[1]
  <2> HIDE DEF i
  <2>2. i \in offset .. N
    BY <2>1 DEF i
  <2>3. offset \in 1 .. N + 1 /\ i \in 0 .. N /\ i - 1 \in 0 .. N
    BY <1>1, <2>2
  <2>4. Tall(h, offset, i) = i - offset + 1 /\ Tall(h, offset, i - 1) = (i - 1) - offset + 1
    BY <1>2, <2>3
  <2>5. Tall(h, offset, i) <= height /\ d[2] \in Tall(h, offset, i - 1) .. Tall(h, offset, i) - 1
    BY <2>1 DEF i
  <2>6. d[2] = i - offset /\ i - offset + 1 <= height
    BY <2>2, <2>4, <2>5
  <2>7. d[2] \in 0 .. (height - 1)
    BY <2>2, <2>6
  <2> QED BY <2>2, <2>6, <2>7 DEF i
<1> QED BY <1>3, <1>4 DEF h, N

\* One whose entries have rules between them, from an entry on.
RuledShown(n, rules, from, to, height) ==
  LET items == WithRules(n, rules)
  IN  /\ Shown(Single(items), ItemOf(items, from), ItemOf(items, to), height) = ItemOf(items, from)
      /\ ItemOf(items, from) = Place(rules, from)
      /\ \A d \in DrawnAt(Single(items), ItemOf(items, from), height) :
           /\ d[1] = d[2] + Place(rules, from) /\ d[2] \in 0 .. (height - 1)
           /\ \/ items[d[1]] = NoEntry /\ \A i \in 1 .. n : Place(rules, i) # d[1]
              \/ items[d[1]] \in from .. n /\ \A i \in 1 .. n : Place(rules, i) = d[1] <=> i = items[d[1]]

LEMMA RuledDrawn ==
  ASSUME NEW n \in Nat \ {0}, NEW rules, rules \subseteq 1 .. n, NEW from \in 1 .. n, NEW to \in 1 .. n,
         NEW height \in Nat, from <= to,
         from = to \/ to + 1 - from + RulesIn(rules, from, to) <= height
  PROVE  RuledShown(n, rules, from, to, height)
<1> DEFINE items == WithRules(n, rules)
           P(i) == Place(rules, i)
<1>1. items \in Seq(Nat) /\ Laid(items, rules, n)
  BY WithRulesLaid
<1>2. ItemOf(items, from) = P(from) /\ ItemOf(items, to) = P(to)
  BY ItemOfIsItsPlace
<1> HIDE DEF items
<1>3. /\ \A i \in 1 .. n : P(i) \in 1 .. Len(items) /\ items[P(i)] = i
      /\ \A k \in 1 .. Len(items) : items[k] = NoEntry \/ (items[k] \in 1 .. n /\ P(items[k]) = k)
  BY <1>1 DEF Laid
<1>a. /\ \A i, j \in 0 .. n : i <= j => Place(rules, j) - Place(rules, i) >= j - i
      /\ \A i, j \in 0 .. n : i <= j => Place(rules, j) - Place(rules, i) = j - i + RulesIn(rules, i, j)
  <2> HIDE DEF P
  <2>1. n \in Nat /\ rules \subseteq 1 .. n
    OBVIOUS
  <2>2. \A i, j \in 0 .. n : i <= j => Place(rules, j) - Place(rules, i) >= j - i
    BY <2>1, RulesAreCounted, Zenon
  <2>3. \A i, j \in 0 .. n : i <= j => Place(rules, j) - Place(rules, i) = j - i + RulesIn(rules, i, j)
    BY <2>1, RulesAreBetween, Zenon
  <2> QED BY <2>2, <2>3
<1>b. \A i \in 1 .. n : i \in 0 .. n
  OBVIOUS
<1>4. P(to) - P(from) = to - from + RulesIn(rules, from, to)
  BY <1>a, <1>b, Zenon
<1>5. \A i, j \in 1 .. n : i <= j => P(j) - P(i) >= j - i
  BY <1>a, <1>b, Zenon
<1> HIDE DEF P
<1>6. /\ P(from) \in Nat \ {0} /\ P(to) \in Nat /\ P(from) <= P(to) /\ P(to) <= Len(items)
      /\ from # to => P(to) - P(from) + 1 <= height
  <2>1. P(from) \in 1 .. Len(items) /\ P(to) \in 1 .. Len(items) /\ Len(items) \in Nat
    BY <1>1, <1>3
  <2>2. P(to) - P(from) >= to - from
    BY <1>5
  <2> DEFINE c == RulesIn(rules, from, to)
  <2>3. P(to) - P(from) = to - from + c /\ (from = to \/ to + 1 - from + c <= height)
    BY <1>4
  <2> HIDE DEF c
  <2>4. c \in Int \/ from = to
    <3>1. IsFiniteSet(rules)
      BY FS_Subset, UpToIsFinite
    <3>2. IsFiniteSet({r \in rules : from < r /\ r <= to})
      BY <3>1, FS_Subset
    <3> QED BY <3>2, FS_CardinalityType DEF c, RulesIn
  <2> QED BY <2>1, <2>2, <2>3, <2>4
<1>7. P(to) = P(from) \/ (P(to) <= Len(items) /\ P(to) - P(from) + 1 <= height)
  BY <1>6
<1>8. /\ Shown(Single(items), P(from), P(to), height) = P(from)
      /\ \A d \in DrawnAt(Single(items), P(from), height) :
           d[1] \in P(from) .. Len(items) /\ d[2] = d[1] - P(from) /\ d[2] \in 0 .. (height - 1)
  BY <1>1, <1>6, <1>7, LinesDrawn
<1>9. ASSUME NEW d \in DrawnAt(Single(items), P(from), height)
      PROVE  /\ d[1] = d[2] + P(from) /\ d[2] \in 0 .. (height - 1)
             /\ \/ items[d[1]] = NoEntry /\ \A i \in 1 .. n : P(i) # d[1]
                \/ items[d[1]] \in from .. n /\ \A i \in 1 .. n : P(i) = d[1] <=> i = items[d[1]]
  <2>1. d[1] \in P(from) .. Len(items) /\ d[2] = d[1] - P(from) /\ d[2] \in 0 .. (height - 1)
    BY <1>8
  <2>2. d[1] = d[2] + P(from) /\ d[1] \in 1 .. Len(items)
    BY <1>6, <2>1, SMTT(30)
  <2>3. CASE items[d[1]] = NoEntry
    BY <1>3, <2>1, <2>2, <2>3 DEF NoEntry
  <2>4. CASE items[d[1]] # NoEntry
    <3>1. items[d[1]] \in 1 .. n /\ P(items[d[1]]) = d[1]
      BY <1>3, <2>2, <2>4
    <3>2. \A i \in 1 .. n : P(i) = d[1] <=> i = items[d[1]]
      BY <1>3, <3>1
    <3>3. items[d[1]] >= from
      <4> DEFINE e == items[d[1]]
      <4>1. e \in 1 .. n /\ P(e) = d[1] /\ d[1] >= P(from) /\ P(from) \in Nat /\ d[1] \in Int
        BY <1>6, <2>1, <3>1
      <4> HIDE DEF e
      <4>2. ASSUME e < from PROVE FALSE
        <5>1. P(from) - P(e) >= from - e
          BY <1>5, <4>1, <4>2
        <5> QED BY <4>1, <4>2, <5>1
      <4> QED BY <4>1, <4>2 DEF e
    <3> QED BY <2>1, <2>2, <3>1, <3>2, <3>3
  <2> QED BY <2>3, <2>4
<1> QED BY <1>2, <1>8, <1>9 DEF items, P, RuledShown

-----------------------------------------------------------------------------
(* What keeps a selection in its window *)

LEMMA FollowKeeps ==
  ASSUME NEW selected \in Nat \ {0}, NEW scroll \in Nat \ {0}, NEW height \in Nat
  PROVE  /\ Follow(selected, scroll, height) \in 1 .. selected
         /\ selected < Follow(selected, scroll, height) + Most(height, 1)
BY DEF Follow, Most

LEMMA FindingsFollowKeeps ==
  ASSUME NEW selected \in Nat \ {0}, NEW scroll \in Nat \ {0}, NEW rows, NEW rules
  PROVE  LET from == FindingsFollow(selected, scroll, rows, rules)
         IN  /\ from \in 1 .. selected
             /\ \/ from = selected
                \/ selected + 1 - from + Cardinality({r \in rules : from < r /\ r <= selected}) <= Most(rows, 1)
<1> DEFINE top == Least(scroll, selected)
           lines(from) == selected + 1 - from + Cardinality({r \in rules : from < r /\ r <= selected})
           S == {s \in top .. selected : s = selected \/ lines(s) <= Most(rows, 1)}
<1>1. top \in 1 .. selected
  BY DEF Least
<1>2. S \subseteq Nat /\ selected \in S
  <2> HIDE DEF top, lines
  <2> QED BY <1>1
<1>3. Min(S) \in S
  <2> HIDE DEF S
  <2> QED BY <1>2, MinIsLeast
<1>4. FindingsFollow(selected, scroll, rows, rules) = Min(S)
  BY DEF FindingsFollow
<1>5. Min(S) \in 1 .. selected /\ (Min(S) = selected \/ lines(Min(S)) <= Most(rows, 1))
  <2> HIDE DEF top, lines
  <2> QED BY <1>1, <1>3
<1> QED BY <1>4, <1>5

LEMMA SteppedIsThere ==
  ASSUME NEW n \in Nat, NEW selected \in 1 .. Most(n, 1), NEW down
  PROVE  Stepped(selected, n, down) \in 1 .. Most(n, 1)
BY DEF Stepped, Least, Most

-----------------------------------------------------------------------------
(* The settings' sections *)

\* The keys come after the rest, which are of two sections.
LEMMA SectionsAre ==
  /\ Len(Sections) = Len(Fields) /\ DOMAIN Sections = 1 .. Len(Fields)
  /\ Starts(Sections) \subseteq 1 .. Len(Fields)
  /\ Starts(Sections) \subseteq {3, 8}
<1> DEFINE W == <<"agent", "timeout_secs", "theme", "diff", "context", "context_step", "editor">>
           n == Len(KeyRows)
           N == Len(Fields)
<1>1. W \in Seq(Words) /\ Len(W) = 7
  BY DEF Words
<1>2. n \in Nat /\ DOMAIN KeyRows = 1 .. n /\ \A i \in 1 .. n : KeyRows[i] \in ToSet(KeyRows)
  BY KeyRowsAreRows DEF ToSet
<1>3. KeyRows \in Seq(ToSet(KeyRows))
  <2>1. KeyRows \in Seq({Defaults[row].action : row \in Table})
    BY SettingsAssumption DEF SettingsAssumption
  <2> QED BY <2>1, OwnMembers
<1>4. /\ W[1] = "agent" /\ W[2] = "timeout_secs" /\ W[3] = "theme" /\ W[4] = "diff"
      /\ W[5] = "context" /\ W[6] = "context_step" /\ W[7] = "editor"
  OBVIOUS
<1>5. Fields = W \o KeyRows
  BY DEF Fields
<1>6. /\ N = 7 + n /\ DOMAIN Fields = 1 .. N
      /\ \A i \in 1 .. N : Fields[i] = IF i <= 7 THEN W[i] ELSE KeyRows[i - 7]
  <2> DEFINE A == Words \cup ToSet(KeyRows)
  <2>1. W \in Seq(A) /\ KeyRows \in Seq(A)
    BY <1>1, <1>3
  <2> HIDE DEF A, W
  <2>2. /\ W \o KeyRows \in Seq(A) /\ Len(W \o KeyRows) = Len(W) + Len(KeyRows)
        /\ \A i \in 1 .. (Len(W) + Len(KeyRows)) :
             (W \o KeyRows)[i] = IF i <= Len(W) THEN W[i] ELSE KeyRows[i - Len(W)]
    BY <2>1, ConcatProperties
  <2>3. DOMAIN Fields = 1 .. Len(Fields)
    BY <1>5, <2>2
  <2> QED BY <1>1, <1>5, <2>2, <2>3
<1>7. DOMAIN Sections = 1 .. N /\ Len(Sections) = N /\ \A i \in 1 .. N : Sections[i] = Section(Fields[i])
  <2>1. N \in Nat
    BY <1>2, <1>6
  <2>2. DOMAIN Sections = DOMAIN Fields /\ \A i \in DOMAIN Fields : Sections[i] = Section(Fields[i])
    BY DEF Sections
  <2>3. Sections = [i \in 1 .. N |-> Section(Fields[i])]
    BY <1>6 DEF Sections
  <2> HIDE DEF N
  <2> QED BY <1>6, <2>1, <2>2, <2>3
<1>8. ASSUME NEW i \in 1 .. N
      PROVE  /\ i \in {1, 2} => Sections[i] = "grouping"
             /\ i \in 3 .. 7 => Sections[i] = "review"
             /\ i > 7 => Sections[i] = "keys"
  <2>1. CASE i \in {1, 2}
    <3>1. Fields[i] \in {"agent", "timeout_secs"}
      <4> HIDE DEF W
      <4> QED BY <1>4, <1>6, <2>1
    <3>2. Fields[i] \notin ToSet(KeyRows)
      BY <3>1, KeyRowsAreRows DEF Words
    <3>3. Section(Fields[i]) = "grouping"
      BY <3>1, <3>2 DEF Section
    <3>4. i <= 2
      BY <2>1
    <3> QED BY <1>7, <3>3, <3>4
  <2>2. CASE i \in 3 .. 7
    <3>1. i = 3 \/ i = 4 \/ i = 5 \/ i = 6 \/ i = 7
      BY <2>2
    <3>2. Fields[i] \in {"theme", "diff", "context", "context_step", "editor"}
      <4> HIDE DEF W
      <4> QED BY <1>4, <1>6, <3>1
    <3>3. Fields[i] \notin ToSet(KeyRows) /\ Fields[i] \notin {"agent", "timeout_secs"}
      BY <3>2, KeyRowsAreRows DEF Words
    <3> QED BY <1>7, <2>2, <3>3 DEF Section
  <2>3. CASE i > 7
    <3>1. i - 7 \in 1 .. n /\ ~(i <= 7)
      BY <1>2, <1>6, <2>3
    <3>2. Fields[i] \in ToSet(KeyRows)
      <4> HIDE DEF W, N, n
      <4> QED BY <1>2, <1>6, <3>1
    <3>3. Fields[i] \notin {"agent", "timeout_secs"}
      BY <3>2, KeyRowsAreRows DEF Words
    <3> QED BY <1>7, <2>3, <3>2, <3>3 DEF Section
  <2> QED BY <2>1, <2>2, <2>3
<1>9. ASSUME NEW i \in Starts(Sections) PROVE i \in 1 .. N /\ i \in {3, 8}
  <2> HIDE DEF W, n
  <2>1. N \in Nat
    BY <1>2, <1>6
  <2>2. i \in 2 .. N /\ Sections[i] # Sections[i - 1]
    <3> HIDE DEF N
    <3> QED BY <1>7 DEF Starts
  <2> HIDE DEF N
  <2>3. i \in 1 .. N /\ i - 1 \in 1 .. N
    BY <2>1, <2>2
  <2>4. i = 2 \/ i = 3 \/ i \in 4 .. 7 \/ i = 8 \/ i > 8
    BY <2>2
  <2>5. i # 2
    BY <1>8, <2>2, <2>3
  <2>6. ~(i \in 4 .. 7)
    <3>1. i \in 4 .. 7 => i \in 3 .. 7 /\ i - 1 \in 3 .. 7
      OBVIOUS
    <3> QED BY <1>8, <2>2, <2>3, <3>1
  <2>7. ~(i > 8)
    <3>1. i > 8 => i > 7 /\ i - 1 > 7
      BY <2>3
    <3> QED BY <1>8, <2>2, <2>3, <3>1
  <2> QED BY <2>3, <2>4, <2>5, <2>6, <2>7
<1> QED BY <1>7, <1>9

LEMMA TwoRulesAtMost ==
  ASSUME NEW S, S \subseteq {3, 8}
  PROVE  Cardinality(S) \in Nat /\ Cardinality(S) <= 2
<1>1. IsFiniteSet({3}) /\ Cardinality({3}) = 1
  BY FS_Singleton
<1>2. IsFiniteSet({3} \cup {8}) /\ Cardinality({3} \cup {8}) = 2
  <2>1. 8 \notin {3}
    OBVIOUS
  <2> QED BY <1>1, <2>1, FS_AddElement
<1>3. S \in SUBSET ({3} \cup {8})
  OBVIOUS
<1>4. IsFiniteSet(S) /\ Cardinality(S) <= Cardinality({3} \cup {8})
  BY <1>2, <1>3, FS_Subset
<1> QED BY <1>2, <1>4, FS_CardinalityType

LEMMA MaxIsGreatest ==
  ASSUME NEW n \in Nat, NEW S, S \subseteq 0 .. n, S # {}
  PROVE  Max(S) \in S /\ \A x \in S : x <= Max(S)
<1> DEFINE T == {n - x : x \in S}
<1>1. \A x \in S : x \in Int /\ 0 <= x /\ x <= n
  OBVIOUS
<1>2. T \subseteq Nat /\ T # {}
  <2>1. \A x \in S : n - x \in Nat
    BY <1>1
  <2> QED BY <2>1
<1>3. PICK t \in T : \A u \in T : t <= u
  BY <1>2, LeastNat
<1>4. PICK x \in S : t = n - x
  BY <1>3
<1>5. \A y \in S : x >= y
  <2> TAKE y \in S
  <2>1. n - y \in T
    OBVIOUS
  <2>2. n - x <= n - y
    <3> HIDE DEF T
    <3> QED BY <1>3, <1>4, <2>1
  <2> QED BY <1>1, <2>2
<1>6. Max(S) \in S /\ \A y \in S : Max(S) >= y
  <2> HIDE DEF T
  <2>1. \E z \in S : \A y \in S : z >= y
    BY <1>4, <1>5
  <2> QED BY <2>1 DEF Max
<1> QED BY <1>1, <1>6

-----------------------------------------------------------------------------
(* The panes *)

\* What the rows of the diff take in a layout.
RowHeightIn(a, layout, row, halves) ==
  CASE ~Wraps(a, row) -> 1
    [] Wraps(a, row) /\ row.text = "code" /\ layout ->
         Max({Lines(row.left, halves[1]), Lines(row.right, halves[2])})
    [] OTHER -> Lines(Max({row.left, row.right}), DetailCols(a))
HeightsIn(a, layout) ==
  LET halves == HalfWidths(DetailCols(a), a.offset)
  IN [i \in DOMAIN Diff |-> RowHeightIn(a, layout, Diff[i], halves)] \o <<>>

LEMMA HeightsAreIn == ASSUME NEW a PROVE Heights(a) = HeightsIn(a, Split(a))
BY DEF Heights, HeightsIn, RowHeight, RowHeightIn

LEMMA LinesAreSome ==
  ASSUME NEW len \in Nat, NEW width \in Int
  PROVE  Lines(len, width) \in Nat
<1> DEFINE w == IF width < 1 THEN 1 ELSE (len + width - 1) \div width
<1>1. w \in Int
  <2>1. CASE width < 1
    BY <2>1
  <2>2. CASE ~(width < 1)
    <3>1. width \in Nat /\ width > 0 /\ len + width - 1 \in Int
      BY <2>2
    <3> QED BY <2>2, <3>1
  <2> QED BY <2>1, <2>2
<1>2. Lines(len, width) = Max({1, w})
  BY DEF Lines
<1> HIDE DEF w
<1>3. Max({1, w}) = IF 1 >= w THEN 1 ELSE w
  BY <1>1, MaxOfTwo
<1> QED BY <1>1, <1>2, <1>3

\* A screen, and dividers on it.
Measured_panes(a) ==
  /\ a.area.w \in Nat /\ a.area.h \in Nat
  /\ a.view \in Views /\ a.cols \in [Views -> Nat] /\ a.offset \in Int

LEMMA HalvesAreNumbers ==
  ASSUME NEW width \in Nat, NEW split \in Int
  PROVE  HalfWidths(width, split)[1] \in Int /\ HalfWidths(width, split)[2] \in Int
<1> DEFINE inner == Less(width, 1)
           left == SplitPoint(Most(HalfCentre(width) + split, 0), inner, MinHalf)
<1>1. inner \in Nat
  BY DEF Less, Most
<1>2. HalfCentre(width) \in Nat
  BY <1>1 DEF HalfCentre
<1>3. Most(HalfCentre(width) + split, 0) \in Nat
  BY <1>2 DEF Most
<1>4. left \in Int
  <2> DEFINE m == Most(HalfCentre(width) + split, 0)
  <2> HIDE DEF m, inner
  <2>1. m \in Nat /\ inner \in Nat
    BY <1>1, <1>3 DEF m
  <2>2. SplitPoint(m, inner, MinHalf) \in Int
    BY <2>1 DEF SplitPoint, Held, Most, Least, MinHalf
  <2> QED BY <2>2 DEF m, inner
<1>5. HalfWidths(width, split) = <<left, inner - left>>
  BY DEF HalfWidths
<1> HIDE DEF left, inner
<1> QED BY <1>1, <1>4, <1>5

LEMMA ScreenIsCounted ==
  ASSUME NEW a, Measured_panes(a)
  PROVE  /\ PaneRows(a) \in Nat /\ DetailCols(a) \in Nat
         /\ Max({PaneRows(a), Least_rows}) \in Nat \ {0}
         /\ PaneRows(a) >= Least_rows => Max({PaneRows(a), Least_rows}) = PaneRows(a)
<1>1. PaneRows(a) \in Nat
  BY DEF PaneRows, Body, Less, Most, Measured_panes
<1>2. PlanCols(a) \in Int
  <2>1. a.cols[a.view] \in Nat /\ a.area.w \in Nat
    BY DEF Measured_panes, Views
  <2> QED BY <2>1 DEF PlanCols, ClampCols, SplitPoint, Held, Most, Least, MinPane
<1>3. DetailCols(a) \in Nat
  BY <1>2 DEF DetailCols, Less, Most, Measured_panes
<1>4. Least_rows \in Nat \ {0}
  BY PanesAssumption DEF PanesAssumption
<1>5. Max({PaneRows(a), Least_rows}) = IF PaneRows(a) >= Least_rows THEN PaneRows(a) ELSE Least_rows
  BY <1>1, <1>4, MaxOfTwo
<1> QED BY <1>1, <1>3, <1>4, <1>5

LEMMA HeightsAreCounted ==
  ASSUME NEW a, Measured_panes(a), NEW layout
  PROVE  HeightsIn(a, layout) \in Seq(Nat) /\ Len(HeightsIn(a, layout)) = Len(Diff)
<1> DEFINE halves == HalfWidths(DetailCols(a), a.offset)
           h == [i \in DOMAIN Diff |-> RowHeightIn(a, layout, Diff[i], halves)]
<1>1. /\ DOMAIN Diff = 1 .. Len(Diff) /\ Len(Diff) \in Nat
      /\ \A i \in DOMAIN Diff : Diff[i].left \in Nat /\ Diff[i].right \in Nat
  <2> DEFINE R == [selectable : BOOLEAN, hunk : BOOLEAN, file : BOOLEAN,
                   text : {"prose", "code", "chrome"}, left : Nat, right : Nat]
  <2>1. Diff \in Seq(R)
    BY PanesAssumption DEF PanesAssumption
  <2>2. \A r \in R : r.left \in Nat /\ r.right \in Nat
    OBVIOUS
  <2> HIDE DEF R
  <2>3. DOMAIN Diff = 1 .. Len(Diff) /\ Len(Diff) \in Nat /\ \A i \in 1 .. Len(Diff) : Diff[i] \in R
    BY <2>1
  <2> QED BY <2>2, <2>3
<1>2. DetailCols(a) \in Nat /\ halves[1] \in Int /\ halves[2] \in Int
  BY ScreenIsCounted, HalvesAreNumbers DEF Measured_panes
<1> HIDE DEF halves
<1>3. ASSUME NEW i \in DOMAIN Diff PROVE RowHeightIn(a, layout, Diff[i], halves) \in Nat
  <2> DEFINE l == Diff[i].left
             r == Diff[i].right
             x == Lines(l, halves[1])
             y == Lines(r, halves[2])
             z == Lines(Max({l, r}), DetailCols(a))
  <2>1. l \in Nat /\ r \in Nat
    BY <1>1
  <2>2. x \in Nat /\ y \in Nat
    BY <1>2, <2>1, LinesAreSome
  <2>3. z \in Nat
    <3>1. Max({l, r}) = IF l >= r THEN l ELSE r
      BY <2>1, MaxOfTwo
    <3>2. Max({l, r}) \in Nat
      BY <2>1, <3>1
    <3> QED BY <1>2, <3>2, LinesAreSome
  <2>4. Max({x, y}) \in Nat
    <3> HIDE DEF x, y
    <3>1. Max({x, y}) = IF x >= y THEN x ELSE y
      BY <2>2, MaxOfTwo
    <3> QED BY <2>2, <3>1
  <2>5. RowHeightIn(a, layout, Diff[i], halves) \in {1, Max({x, y}), z}
    BY DEF RowHeightIn
  <2> HIDE DEF x, y, z
  <2> QED BY <2>3, <2>4, <2>5
<1>4. h \in Seq(Nat) /\ Len(h) = Len(Diff)
  <2>1. \A i \in 1 .. Len(Diff) : h[i] \in Nat
    BY <1>1, <1>3
  <2>2. h = [i \in 1 .. Len(Diff) |-> h[i]]
    BY <1>1
  <2> HIDE DEF h
  <2> QED BY <1>1, <2>1, <2>2
<1>5. HeightsIn(a, layout) = h \o <<>>
  BY DEF HeightsIn, halves
<1> HIDE DEF h
<1>6. h \o <<>> = h
  BY <1>4
<1> QED BY <1>4, <1>5, <1>6

LEMMA RowsAre ==
  /\ Len(Diff) \in Nat /\ DOMAIN Diff = 1 .. Len(Diff)
  /\ Selectable \subseteq 1 .. Len(Diff) /\ Selectable \subseteq Nat \ {0}
  /\ FirstRow \in Selectable /\ \A i \in Selectable : FirstRow <= i
  /\ Max(Selectable) \in Selectable
<1>1. Len(Diff) \in Nat /\ DOMAIN Diff = 1 .. Len(Diff)
  BY PanesAssumption DEF PanesAssumption
<1>2. Selectable \subseteq 1 .. Len(Diff) /\ Selectable # {}
  BY <1>1, PanesAssumption DEF PanesAssumption, Selectable
<1>3. Selectable \subseteq Nat /\ Selectable \subseteq Nat \ {0} /\ Selectable \subseteq 0 .. Len(Diff)
  BY <1>1, <1>2
<1> QED BY <1>1, <1>2, <1>3, MinIsLeast, MaxIsGreatest DEF FirstRow

\* Where the reader is in each pane, and what is drawn of it.
EntriesOf(view) == IF view = "groups" THEN Len(Blocks) ELSE Tree
Floor(a) == Max({PaneRows(a), Least_rows})

Laid_out(a) ==
  /\ Measured_panes(a)
  /\ a.at \in [Views -> Nat] /\ \A v \in Views : a.at[v] \in 1 .. EntriesOf(v)
  /\ a.top \in Nat \ {0} /\ a.scroll \in Nat \ {0}
PlanSeen(a) ==
  /\ a.top \in 1 .. a.at[a.view]
  /\ a.top = a.at[a.view] \/ Tall(PlanHeights(a), a.top, a.at[a.view]) <= Floor(a)
RowSeen(a) ==
  /\ a.cursor \in Selectable /\ a.scroll \in 1 .. a.cursor
  /\ \/ a.cursor = FirstRow /\ a.scroll = 1
     \/ Tall(HeightsIn(a, a.followed), Max({a.cursor - Margin, 1}), a.cursor) > Floor(a)
     \/ Tall(HeightsIn(a, a.followed), a.scroll, a.cursor) <= Floor(a)
PanesOK(a) == Laid_out(a) /\ PlanSeen(a) /\ RowSeen(a)

\* The screen, and what of the panes is measured on it.
SameScreen(a, b) ==
  b.area = a.area /\ b.view = a.view /\ b.cols = a.cols /\ b.offset = a.offset /\ b.wrap = a.wrap
LEMMA SameScreenHeights ==
  ASSUME NEW a, NEW b, SameScreen(a, b)
  PROVE  /\ \A layout : HeightsIn(b, layout) = HeightsIn(a, layout)
         /\ Floor(b) = Floor(a) /\ PlanHeights(b) = PlanHeights(a)
         /\ Measured_panes(a) => Measured_panes(b)
<1>1. PlanCols(b) = PlanCols(a) /\ PaneRows(b) = PaneRows(a)
  BY DEF SameScreen, PlanCols, PaneRows
<1>2. DetailCols(b) = DetailCols(a)
  BY <1>1 DEF SameScreen, DetailCols
<1>3. ASSUME NEW layout, NEW row, NEW halves PROVE RowHeightIn(b, layout, row, halves) = RowHeightIn(a, layout, row, halves)
  <2>1. Wraps(b, row) = Wraps(a, row)
    BY DEF SameScreen, Wraps
  <2> QED BY <1>2, <2>1, Zenon DEF RowHeightIn
<1>4. ASSUME NEW layout PROVE HeightsIn(b, layout) = HeightsIn(a, layout)
  <2>1. HalfWidths(DetailCols(b), b.offset) = HalfWidths(DetailCols(a), a.offset)
    BY <1>2 DEF SameScreen
  <2> DEFINE halves == HalfWidths(DetailCols(a), a.offset)
  <2>2. \A i \in DOMAIN Diff : RowHeightIn(b, layout, Diff[i], halves) = RowHeightIn(a, layout, Diff[i], halves)
    BY <1>3
  <2>3. HeightsIn(a, layout) = [i \in DOMAIN Diff |-> RowHeightIn(a, layout, Diff[i], halves)] \o <<>>
    BY DEF HeightsIn
  <2>4. HeightsIn(b, layout) = [i \in DOMAIN Diff |-> RowHeightIn(b, layout, Diff[i], halves)] \o <<>>
    BY <2>1 DEF HeightsIn
  <2> HIDE DEF halves
  <2>5. [i \in DOMAIN Diff |-> RowHeightIn(b, layout, Diff[i], halves)]
          = [i \in DOMAIN Diff |-> RowHeightIn(a, layout, Diff[i], halves)]
    BY <2>2
  <2> QED BY <2>3, <2>4, <2>5
<1> QED BY <1>1, <1>4 DEF SameScreen, Floor, PlanHeights, Measured_panes

LEMMA PlanHeightsAre ==
  ASSUME NEW a, a.view \in Views
  PROVE  PlanHeights(a) \in Seq(Nat) /\ Len(PlanHeights(a)) = EntriesOf(a.view)
         /\ EntriesOf(a.view) \in Nat \ {0}
<1>1. Blocks \in Seq(2 .. 3) /\ Blocks # <<>> /\ Tree \in Nat \ {0}
  BY PanesAssumption DEF PanesAssumption
<1>2. Blocks \in Seq(Nat) /\ Len(Blocks) \in Nat \ {0}
  <2>1. \A i \in 1 .. Len(Blocks) : Blocks[i] \in Nat
    <3>1. \A i \in 1 .. Len(Blocks) : Blocks[i] \in 2 .. 3
      BY <1>1
    <3> QED BY <3>1
  <2>2. Len(Blocks) \in Nat \ {0} /\ Blocks = [i \in 1 .. Len(Blocks) |-> Blocks[i]]
    BY <1>1
  <2> QED BY <2>1, <2>2
<1>3. [i \in 1 .. Tree |-> 1] \in Seq(Nat) /\ Len([i \in 1 .. Tree |-> 1]) = Tree
  BY <1>1
<1> QED BY <1>1, <1>2, <1>3 DEF PlanHeights, EntriesOf

-----------------------------------------------------------------------------
(* What follows the selection *)

LEMMA ScrolledSees ==
  ASSUME NEW heights \in Seq(Nat), Len(heights) = Len(Diff), NEW cursor \in Selectable,
         NEW scroll \in Nat \ {0}, NEW rows \in Nat \ {0}
  PROVE  LET to == Scrolled(heights, cursor, scroll, rows)
         IN  /\ to \in 1 .. cursor
             /\ \/ cursor = FirstRow /\ to = 1
                \/ Tall(heights, Max({cursor - Margin, 1}), cursor) > rows
                \/ Tall(heights, to, cursor) <= rows
<1> DEFINE to == Scrolled(heights, cursor, scroll, rows)
           N == Len(Diff)
           top == Max({cursor - Margin, 1})
<1>1. N \in Nat /\ cursor \in 1 .. N /\ FirstRow <= cursor /\ FirstRow \in 1 .. N
  BY RowsAre
<1>2. Margin \in Nat
  BY PanesAssumption DEF PanesAssumption
<1>3. top \in 1 .. cursor /\ top = IF cursor - Margin >= 1 THEN cursor - Margin ELSE 1
  <2>1. top = IF cursor - Margin >= 1 THEN cursor - Margin ELSE 1
    BY <1>1, <1>2, MaxOfTwo
  <2> HIDE DEF top
  <2> QED BY <1>1, <1>2, <2>1
<1> HIDE DEF top
<1>4. \A i \in 1 .. N + 1, j \in 0 .. N : Tall(heights, i, j) \in Int
  BY TallRises
<1>5. Tall(heights, top, cursor) \in Int
  <2>1. top \in 1 .. N + 1 /\ cursor \in 0 .. N
    BY <1>1, <1>3
  <2> QED BY <1>4, <2>1
<1>6. CASE cursor <= FirstRow
  <2>1. cursor = FirstRow /\ to = 1
    BY <1>1, <1>6 DEF Scrolled
  <2> QED BY <1>1, <2>1
<1>7. CASE cursor > FirstRow /\ cursor < scroll + Margin
  <2>1. to = top
    BY <1>1, <1>7 DEF Scrolled, top
  <2> HIDE DEF to
  <2> QED BY <1>3, <1>5, <2>1 DEF top, to
<1>8. CASE cursor > FirstRow /\ ~(cursor < scroll + Margin)
  <2> DEFINE last == Least(cursor + Margin, Len(heights))
             tops == {i \in 1 .. last : Tall(heights, i, last) <= rows}
             high == Min(tops \cup {cursor})
  <2>1. last \in cursor .. N
    BY <1>1, <1>2 DEF Least
  <2>2. HighestScroll(heights, cursor, rows) = high
    BY DEF HighestScroll
  <2> HIDE DEF last
  <2>3. tops \cup {cursor} \subseteq Nat /\ tops \cup {cursor} # {}
    BY <1>1, <2>1
  <2>4. high \in tops \cup {cursor} /\ high <= cursor /\ \A i \in tops : high <= i
    <3> HIDE DEF tops
    <3> QED BY <2>3, MinIsLeast
  <2>5. high \in 1 .. cursor
    <3>1. high >= 1
      BY <1>1, <2>4
    <3>2. high \in Int
      BY <1>1, <2>1, <2>4
    <3> HIDE DEF high
    <3> QED BY <1>1, <2>4, <3>1, <3>2
  <2>6. to = IF scroll >= high THEN scroll ELSE high
    <3>1. ~(cursor <= FirstRow)
      BY <1>1, <1>8
    <3>2. to = Max({scroll, high})
      BY <1>8, <2>2, <3>1 DEF Scrolled
    <3> HIDE DEF to, high
    <3>3. high \in Int /\ scroll \in Int
      BY <2>5
    <3> QED BY <3>2, <3>3, MaxOfTwo
  <2>7. scroll <= cursor /\ to \in 1 .. cursor /\ high <= to
    <3> HIDE DEF to, high
    <3>1. scroll <= cursor
      BY <1>1, <1>2, <1>8
    <3> QED BY <2>5, <2>6, <3>1
  <2>8. CASE high \in tops
    <3>1. Tall(heights, high, last) <= rows
      BY <2>8
    <3> HIDE DEF to, high, tops
    <3>2. high \in 1 .. N + 1 /\ to \in 1 .. N + 1 /\ last \in 0 .. N /\ cursor \in 0 .. N /\ cursor <= last
      BY <1>1, <2>1, <2>5, <2>7
    <3>3. Tall(heights, to, cursor) <= Tall(heights, high, last)
      BY <2>7, <3>2, TallRises
    <3>4. Tall(heights, to, cursor) \in Int /\ Tall(heights, high, last) \in Int
      BY <1>4, <3>2
    <3>5. Tall(heights, to, cursor) <= rows
      BY <3>1, <3>3, <3>4
    <3> QED BY <2>7, <3>5 DEF to
  <2>9. CASE high \notin tops
    <3>1. high = cursor
      BY <2>4, <2>9
    <3>2. to = cursor
      <4> HIDE DEF to, high
      <4> QED BY <2>5, <2>6, <2>7, <3>1
    <3>3. top \in 1 .. N + 1 /\ cursor \in 1 .. N + 1 /\ cursor \in 0 .. N /\ top <= cursor
      BY <1>1, <1>3
    <3>4. Tall(heights, cursor, cursor) <= Tall(heights, top, cursor) /\ Tall(heights, cursor, cursor) \in Int
      <4>1. cursor <= cursor
        BY <1>1
      <4>2. Tall(heights, cursor, cursor) <= Tall(heights, top, cursor)
        BY <3>3, <4>1, TallRises
      <4> QED BY <3>3, <4>2, <1>4
    <3>5. Tall(heights, top, cursor) > rows \/ Tall(heights, cursor, cursor) <= rows
      BY <1>5, <3>4
    <3> HIDE DEF to
    <3> QED BY <1>1, <2>7, <3>2, <3>5 DEF to, top
  <2> QED BY <2>8, <2>9
<1>9. cursor <= FirstRow \/ cursor > FirstRow
  BY <1>1
<1> QED BY <1>6, <1>7, <1>8, <1>9

\* What leaves the panes as they are.
Beside(a, b) ==
  /\ SameScreen(a, b) /\ b.at = a.at /\ b.top = a.top /\ b.cursor = a.cursor /\ b.scroll = a.scroll
  /\ b.followed = a.followed

LEMMA BesideIsOK ==
  ASSUME NEW a, NEW b, Beside(a, b)
  PROVE  /\ PanesOK(a) => PanesOK(b)
         /\ Laid_out(a) => Laid_out(b)
<1>1. HeightsIn(b, b.followed) = HeightsIn(a, b.followed) /\ Floor(b) = Floor(a)
      /\ PlanHeights(b) = PlanHeights(a) /\ (Measured_panes(a) => Measured_panes(b))
  BY SameScreenHeights DEF Beside
<1> QED BY <1>1 DEF Beside, SameScreen, PanesOK, Laid_out, PlanSeen, RowSeen

\* The diff pane after its cursor is followed, and the plan pane after its entry is.
LEMMA FollowCursorSees ==
  ASSUME NEW a, DOMAIN a = AppFields, Laid_out(a), a.cursor \in Selectable
  PROVE  Laid_out(FollowCursor(a)) /\ RowSeen(FollowCursor(a)) /\ (PlanSeen(a) => PlanSeen(FollowCursor(a)))
<1> DEFINE b == FollowCursor(a)
           to == Scrolled(Heights(a), a.cursor, a.scroll, Floor(a))
<1>1. b = [a EXCEPT !.scroll = to, !.followed = Split(a)]
  BY DEF FollowCursor, Floor, AppFields
<1> HIDE DEF b, to
<1>2. /\ SameScreen(a, b) /\ b.at = a.at /\ b.top = a.top /\ b.cursor = a.cursor
      /\ b.scroll = to /\ b.followed = Split(a)
  BY <1>1 DEF AppFields, SameScreen
<1>3. Heights(a) = HeightsIn(a, b.followed)
  BY <1>2, HeightsAreIn
<1>4. HeightsIn(a, b.followed) \in Seq(Nat) /\ Len(HeightsIn(a, b.followed)) = Len(Diff)
      /\ Floor(a) \in Nat \ {0}
  BY HeightsAreCounted, ScreenIsCounted DEF Laid_out, Floor
<1>5. /\ to \in 1 .. a.cursor
      /\ \/ a.cursor = FirstRow /\ to = 1
         \/ Tall(HeightsIn(a, b.followed), Max({a.cursor - Margin, 1}), a.cursor) > Floor(a)
         \/ Tall(HeightsIn(a, b.followed), to, a.cursor) <= Floor(a)
  BY <1>3, <1>4, ScrolledSees DEF Laid_out, to
<1>6. HeightsIn(b, b.followed) = HeightsIn(a, b.followed) /\ Floor(b) = Floor(a)
      /\ PlanHeights(b) = PlanHeights(a) /\ Measured_panes(b)
  BY <1>2, SameScreenHeights DEF Laid_out
<1>7. RowSeen(b)
  BY <1>2, <1>5, <1>6 DEF RowSeen
<1>8. to \in Nat \ {0}
  <2>1. a.cursor \in Nat
    BY RowsAre
  <2> QED BY <1>5, <2>1
<1>9. Laid_out(b)
  BY <1>2, <1>6, <1>8 DEF Laid_out
<1>10. PlanSeen(a) => PlanSeen(b)
  BY <1>2, <1>6 DEF PlanSeen, SameScreen
<1> QED BY <1>7, <1>9, <1>10 DEF b

LEMMA FollowCursorFromTop ==
  ASSUME NEW a, DOMAIN a = AppFields, Laid_out(a), a.cursor = 1
  PROVE  Laid_out(FollowCursor(a)) /\ FollowCursor(a).cursor = 1 /\ FollowCursor(a).scroll = 1
<1> DEFINE b == FollowCursor(a)
           to == Scrolled(Heights(a), a.cursor, a.scroll, Floor(a))
<1>1. b = [a EXCEPT !.scroll = to, !.followed = Split(a)]
  BY DEF FollowCursor, Floor, AppFields
<1>2. to = 1
  <2>1. FirstRow \in Nat \ {0}
    BY RowsAre
  <2> QED BY <2>1 DEF Scrolled
<1> HIDE DEF b, to
<1>3. SameScreen(a, b) /\ b.at = a.at /\ b.top = a.top /\ b.cursor = a.cursor /\ b.scroll = 1
  BY <1>1, <1>2 DEF AppFields, SameScreen
<1>4. Measured_panes(b)
  BY <1>3, SameScreenHeights DEF Laid_out
<1>5. Laid_out(b)
  BY <1>3, <1>4 DEF Laid_out
<1> QED BY <1>3, <1>5 DEF b

LEMMA FollowPlanSees ==
  ASSUME NEW a, DOMAIN a = AppFields, Laid_out(a)
  PROVE  /\ Laid_out(FollowPlan(a)) /\ PlanSeen(FollowPlan(a)) /\ (RowSeen(a) => RowSeen(FollowPlan(a)))
         /\ FollowPlan(a).cursor = a.cursor /\ FollowPlan(a).scroll = a.scroll
<1> DEFINE b == FollowPlan(a)
           to == FollowTall(PlanHeights(a), a.at[a.view], a.top, Floor(a))
<1>1. b = [a EXCEPT !.top = to]
  BY DEF FollowPlan, Floor, AppFields
<1>2. a.at[a.view] \in Nat \ {0} /\ a.view \in Views
  <2>1. a.view \in Views /\ EntriesOf(a.view) \in Nat
    BY PlanHeightsAre DEF Laid_out, Measured_panes
  <2> QED BY <2>1 DEF Laid_out
<1>3. /\ to \in 1 .. a.at[a.view]
      /\ to = a.at[a.view] \/ Tall(PlanHeights(a), to, a.at[a.view]) <= Floor(a)
  BY <1>2, FollowTallKeeps DEF Laid_out
<1> HIDE DEF b, to
<1>4. /\ SameScreen(a, b) /\ b.at = a.at /\ b.top = to /\ b.cursor = a.cursor /\ b.scroll = a.scroll
      /\ b.followed = a.followed
  BY <1>1 DEF AppFields, SameScreen
<1>5. HeightsIn(b, b.followed) = HeightsIn(a, b.followed) /\ Floor(b) = Floor(a)
      /\ PlanHeights(b) = PlanHeights(a) /\ Measured_panes(b)
  BY <1>4, SameScreenHeights DEF Laid_out
<1>6. to \in Nat \ {0}
  BY <1>2, <1>3
<1>7. Laid_out(b)
  BY <1>4, <1>5, <1>6 DEF Laid_out
<1>8. PlanSeen(b)
  BY <1>3, <1>4, <1>5 DEF PlanSeen, SameScreen
<1>9. RowSeen(a) => RowSeen(b)
  BY <1>4, <1>5 DEF RowSeen
<1> QED BY <1>4, <1>7, <1>8, <1>9 DEF b

LEMMA RemeasureSees ==
  ASSUME NEW a, DOMAIN a = AppFields, Laid_out(a), a.cursor \in Selectable
  PROVE  PanesOK(Remeasure(a))
<1>1. Laid_out(FollowCursor(a)) /\ RowSeen(FollowCursor(a)) /\ DOMAIN FollowCursor(a) = AppFields
  BY FollowCursorSees, FollowCursorStays DEF Stays, SameButMode
<1> QED BY <1>1, FollowPlanSees DEF Remeasure, PanesOK

\* The rows are built again: the cursor is where it was, or on the first row under the top.
LEMMA RebuildSees ==
  ASSUME NEW a, DOMAIN a = AppFields, PanesOK(a)
  PROVE  PanesOK(Rebuild(a))
<1>1. a.cursor \in Selectable
  BY DEF PanesOK, RowSeen
<1>2. Beside(a, Rebuild(a))
  BY <1>1 DEF Rebuild, Selectable, AppFields, Beside, SameScreen
<1> QED BY <1>2, BesideIsOK

LEMMA RebuildFromTop ==
  ASSUME NEW a, DOMAIN a = AppFields, Laid_out(a), PlanSeen(a), a.cursor = 1, a.scroll = 1
  PROVE  PanesOK(Rebuild(a))
<1> DEFINE b == Rebuild(a)
<1>1. b = [a EXCEPT !.cursor = FirstRow]
  <2>1. Selectable \subseteq 1 .. Len(Diff) /\ DOMAIN Diff = 1 .. Len(Diff) /\ Len(Diff) \in Nat
        /\ FirstRow \in Selectable /\ \A i \in Selectable : FirstRow <= i
    BY RowsAre
  <2>2. 1 \in DOMAIN Diff
    BY <2>1
  <2>3. CASE Diff[1].selectable
    <3>1. 1 \in Selectable
      BY <2>2, <2>3 DEF Selectable
    <3>2. FirstRow = 1
      BY <2>1, <3>1
    <3>3. b = [a EXCEPT !.cursor = 1]
      BY <2>3 DEF Rebuild, AppFields
    <3> QED BY <3>2, <3>3
  <2>4. CASE ~Diff[1].selectable
    BY <2>4 DEF Rebuild, AppFields
  <2> QED BY <2>3, <2>4
<1> HIDE DEF b
<1>2. /\ SameScreen(a, b) /\ b.at = a.at /\ b.top = a.top /\ b.cursor = FirstRow /\ b.scroll = 1
  BY <1>1 DEF AppFields, SameScreen
<1>3. Floor(b) = Floor(a) /\ PlanHeights(b) = PlanHeights(a) /\ Measured_panes(b)
  BY <1>2, SameScreenHeights DEF Laid_out
<1>4. Laid_out(b) /\ PlanSeen(b)
  BY <1>2, <1>3 DEF Laid_out, PlanSeen, SameScreen
<1>5. FirstRow \in Selectable /\ 1 \in 1 .. FirstRow
  BY RowsAre
<1> QED BY <1>2, <1>4, <1>5 DEF PanesOK, RowSeen, b

-----------------------------------------------------------------------------
(* What moves in the panes keeps the selection of each in view *)

LEMMA NextSelectableIs ==
  ASSUME NEW from \in Int, NEW down \in BOOLEAN
  PROVE  LET next == NextSelectable(from, down)
         IN  /\ next \in Selectable \cup {NoEntry}
             /\ next = NoEntry => \A i \in Selectable : ~(IF down THEN i >= from ELSE i <= from)
<1> DEFINE there == {i \in Selectable : IF down THEN i >= from ELSE i <= from}
<1>1. there \subseteq Selectable /\ there \subseteq Nat /\ there \subseteq 0 .. Len(Diff) /\ Len(Diff) \in Nat
  <2>1. there \subseteq Selectable
    OBVIOUS
  <2> HIDE DEF there
  <2>2. Selectable \subseteq Nat /\ Selectable \subseteq 0 .. Len(Diff) /\ Len(Diff) \in Nat
    <3>1. Len(Diff) \in Nat /\ Selectable \subseteq 1 .. Len(Diff)
      BY RowsAre
    <3>2. 1 .. Len(Diff) \subseteq Nat /\ 1 .. Len(Diff) \subseteq 0 .. Len(Diff)
      BY <3>1
    <3> QED BY <3>1, <3>2
  <2> QED BY <2>1, <2>2
<1>2. CASE there = {}
  <2>1. NextSelectable(from, down) = NoEntry
    BY <1>2 DEF NextSelectable
  <2> QED BY <1>2, <2>1
<1>3. CASE there # {}
  <2>1. NextSelectable(from, down) = IF down THEN Min(there) ELSE Max(there)
    BY <1>3 DEF NextSelectable
  <2> HIDE DEF there
  <2>2. Min(there) \in there /\ Max(there) \in there
    BY <1>1, <1>3, MinIsLeast, MaxIsGreatest
  <2>3. NextSelectable(from, down) \in Selectable
    BY <1>1, <2>1, <2>2
  <2>4. NoEntry \notin Selectable
    BY RowsAre DEF NoEntry
  <2> QED BY <2>3, <2>4
<1> QED BY <1>2, <1>3

LEMMA OntoSees ==
  ASSUME NEW a, DOMAIN a = AppFields, PanesOK(a), NEW row \in Selectable
  PROVE  PanesOK(Onto(a, row))
<1> DEFINE b == [a EXCEPT !.cursor = row]
<1>1. /\ DOMAIN b = AppFields /\ SameScreen(a, b) /\ b.at = a.at /\ b.top = a.top /\ b.cursor = row
      /\ b.scroll = a.scroll
  BY DEF AppFields, SameScreen
<1>2. Onto(a, row) = FollowCursor(b)
  BY DEF Onto
<1> HIDE DEF b
<1>3. Measured_panes(b) /\ PlanHeights(b) = PlanHeights(a) /\ Floor(b) = Floor(a)
  BY <1>1, SameScreenHeights DEF PanesOK, Laid_out
<1>4. Laid_out(b) /\ PlanSeen(b)
  BY <1>1, <1>3 DEF PanesOK, Laid_out, PlanSeen, SameScreen
<1> QED BY <1>1, <1>2, <1>4, FollowCursorSees DEF PanesOK

LEMMA FocusSees ==
  ASSUME NEW a, DOMAIN a = AppFields, PanesOK(a), NEW to
  PROVE  PanesOK([a EXCEPT !.focus = to]) /\ DOMAIN [a EXCEPT !.focus = to] = AppFields
<1>1. Beside(a, [a EXCEPT !.focus = to]) /\ DOMAIN [a EXCEPT !.focus = to] = AppFields
  BY DEF Beside, SameScreen, AppFields
<1> QED BY <1>1, BesideIsOK

LEMMA OntoInDiffSees ==
  ASSUME NEW a, DOMAIN a = AppFields, PanesOK(a), NEW row \in Selectable
  PROVE  PanesOK([Onto(a, row) EXCEPT !.focus = "detail"])
<1> DEFINE b == Onto(a, row)
<1>1. PanesOK(b) /\ DOMAIN b = AppFields
  BY OntoSees, OntoStays DEF Stays, SameButMode
<1> HIDE DEF b
<1>2. PanesOK([b EXCEPT !.focus = "detail"])
  BY <1>1, FocusSees
<1> QED BY <1>2 DEF b

LEMMA SelectEntrySees ==
  ASSUME NEW a, DOMAIN a = AppFields, PanesOK(a), NEW to \in Int
  PROVE  PanesOK(SelectEntry(a, to))
<1> DEFINE n == EntriesOf(a.view)
           place == Held(to, 1, Len(PlanHeights(a)))
           b == [a EXCEPT !.at = [a.at EXCEPT ![a.view] = place], !.cursor = 1, !.scroll = 1]
<1>1. n \in Nat \ {0} /\ Len(PlanHeights(a)) = n /\ a.view \in Views
  BY PlanHeightsAre DEF PanesOK, Laid_out, Measured_panes
<1>2. place \in 1 .. n
  <2> HIDE DEF n
  <2>1. n \in Nat /\ n >= 1 /\ place = Held(to, 1, n)
    BY <1>1
  <2> HIDE DEF place
  <2> QED BY <2>1, HeldIsThere
<1> HIDE DEF place
<1>3. /\ DOMAIN b = AppFields /\ SameScreen(a, b) /\ b.at = [a.at EXCEPT ![a.view] = place]
      /\ b.top = a.top /\ b.cursor = 1 /\ b.scroll = 1
  BY DEF AppFields, SameScreen
<1>4. SelectEntry(a, to) = Rebuild(FollowPlan(b))
  BY DEF SelectEntry, AppFields, place
<1> HIDE DEF b, n
<1>5. Measured_panes(b)
  BY <1>3, SameScreenHeights DEF PanesOK, Laid_out
<1>6. b.at \in [Views -> Nat] /\ \A v \in Views : b.at[v] \in 1 .. EntriesOf(v)
  <2>1. a.at \in [Views -> Nat] /\ \A v \in Views : a.at[v] \in 1 .. EntriesOf(v)
    BY DEF PanesOK, Laid_out
  <2>2. place \in Nat /\ place \in 1 .. EntriesOf(a.view)
    BY <1>1, <1>2 DEF n
  <2> QED BY <1>1, <1>3, <2>1, <2>2
<1>7. Laid_out(b)
  BY <1>3, <1>5, <1>6 DEF PanesOK, Laid_out
<1>8. /\ Laid_out(FollowPlan(b)) /\ PlanSeen(FollowPlan(b)) /\ FollowPlan(b).cursor = 1 /\ FollowPlan(b).scroll = 1
      /\ DOMAIN FollowPlan(b) = AppFields
  BY <1>3, <1>7, FollowPlanSees, FollowPlanStays DEF Stays, SameButMode
<1> QED BY <1>4, <1>8, RebuildFromTop

LEMMA MoveCursorSees ==
  ASSUME NEW a, DOMAIN a = AppFields, PanesOK(a), NEW down \in BOOLEAN
  PROVE  PanesOK(MoveCursor(a, down))
<1> DEFINE from == Max({a.cursor + (IF down THEN 1 ELSE -1), 1})
           next == NextSelectable(from, down)
           row == IF next = NoEntry THEN a.cursor ELSE next
<1>1. a.cursor \in Selectable /\ a.cursor \in Int
  <2>1. a.cursor \in Selectable
    BY DEF PanesOK, RowSeen
  <2>2. Selectable \subseteq Nat \ {0}
    BY RowsAre
  <2>3. a.cursor \in Nat
    BY <2>1, <2>2
  <2> QED BY <2>1, <2>3
<1>2. from \in Int
  <2> DEFINE t == a.cursor + (IF down THEN 1 ELSE -1)
  <2>1. t \in Int
    BY <1>1
  <2> HIDE DEF t
  <2>2. Max({t, 1}) = IF t >= 1 THEN t ELSE 1
    BY <2>1, MaxOfTwo
  <2> QED BY <2>1, <2>2 DEF t
<1>3. MoveCursor(a, down) = Onto(a, row)
  BY DEF MoveCursor
<1> HIDE DEF from
<1>4. next \in Selectable \cup {NoEntry}
  BY <1>2, NextSelectableIs
<1> HIDE DEF next
<1>5. row \in Selectable
  BY <1>1, <1>4
<1> QED BY <1>3, <1>5, OntoSees

LEMMA HalfPageSees ==
  ASSUME NEW a, DOMAIN a = AppFields, PanesOK(a), NEW down \in BOOLEAN
  PROVE  PanesOK(HalfPage(a, down))
<1> DEFINE h == Heights(a)
           budget == Max({PaneRows(a), Least_rows}) \div 2
           spent(i) == IF down THEN Tall(h, a.cursor + 1, i) ELSE Tall(h, i, a.cursor - 1)
           reach == {i \in IF down THEN a.cursor .. Len(h) ELSE 1 .. a.cursor : spent(i) >= budget}
           to == IF reach = {} THEN IF down THEN Len(h) ELSE 1 ELSE IF down THEN Min(reach) ELSE Max(reach)
           next == NextSelectable(to, ~down)
           row == IF next = NoEntry THEN to ELSE next
<1>1. HalfPage(a, down) = Onto(a, row)
  BY DEF HalfPage
<1>2. Len(h) = Len(Diff) /\ Len(Diff) \in Nat
  BY HeightsAreIn, HeightsAreCounted, RowsAre DEF PanesOK, Laid_out
<1>3. a.cursor \in Selectable /\ a.cursor \in 1 .. Len(Diff)
  BY RowsAre DEF PanesOK, RowSeen
<1> HIDE DEF spent, budget, h
<1>4. reach \subseteq IF down THEN a.cursor .. Len(Diff) ELSE 1 .. a.cursor
  BY <1>2
<1> HIDE DEF reach
<1>5. to \in Int /\ IF down THEN a.cursor <= to ELSE to <= a.cursor
  <2>1. CASE reach = {}
    BY <1>2, <1>3, <2>1
  <2>2. CASE reach # {}
    <3>1. reach \subseteq Nat /\ reach \subseteq 0 .. Len(Diff)
      BY <1>2, <1>3, <1>4
    <3>2. Min(reach) \in reach /\ Max(reach) \in reach
      BY <1>2, <2>2, <3>1, MinIsLeast, MaxIsGreatest
    <3>3. to \in reach
      BY <2>2, <3>2
    <3> HIDE DEF to
    <3>4. CASE down
      BY <1>3, <1>4, <3>1, <3>3, <3>4
    <3>5. CASE ~down
      BY <1>3, <1>4, <3>1, <3>3, <3>5
    <3> QED BY <3>4, <3>5
  <2> QED BY <2>1, <2>2
<1> HIDE DEF to
<1>6. next \in Selectable
  <2>1. (~down) \in BOOLEAN
    BY Zenon
  <2>2. /\ next \in Selectable \cup {NoEntry}
        /\ next = NoEntry => \A i \in Selectable : ~(IF ~down THEN i >= to ELSE i <= to)
    BY <1>5, <2>1, NextSelectableIs
  <2> HIDE DEF next
  <2>3. IF ~down THEN a.cursor >= to ELSE a.cursor <= to
    BY <1>3, <1>5
  <2> QED BY <1>3, <2>2, <2>3
<1>7. row = next
  BY <1>6, RowsAre DEF NoEntry
<1> HIDE DEF row, next
<1> QED BY <1>1, <1>6, <1>7, OntoSees

LEMMA JumpHunkSees ==
  ASSUME NEW a, DOMAIN a = AppFields, PanesOK(a), NEW down \in BOOLEAN
  PROVE  PanesOK(JumpHunk(a, down))
<1> DEFINE there == {i \in DOMAIN Diff : Diff[i].hunk /\ IF down THEN i > a.cursor ELSE i < a.cursor}
           row == IF down THEN Min(there) ELSE Max(there)
<1>1. JumpHunk(a, down) = IF there = {} THEN a ELSE [Onto(a, row) EXCEPT !.focus = "detail"]
  BY DEF JumpHunk
<1>2. \A i \in DOMAIN Diff : Diff[i].hunk => i \in Selectable
  BY PanesAssumption DEF PanesAssumption, Selectable
<1>3. there \subseteq Selectable
  BY <1>2
<1> HIDE DEF there
<1>4. CASE there = {}
  BY <1>1, <1>4
<1>5. CASE there # {}
  <2>1. there \subseteq Nat /\ there \subseteq 0 .. Len(Diff) /\ Len(Diff) \in Nat
    <3>1. Len(Diff) \in Nat /\ Selectable \subseteq 1 .. Len(Diff)
      BY RowsAre
    <3>2. 1 .. Len(Diff) \subseteq Nat /\ 1 .. Len(Diff) \subseteq 0 .. Len(Diff)
      BY <3>1
    <3> QED BY <1>3, <3>1, <3>2
  <2>2. Min(there) \in there /\ Max(there) \in there
    BY <1>5, <2>1, MinIsLeast, MaxIsGreatest
  <2>3. row \in Selectable
    BY <1>3, <2>2
  <2> HIDE DEF row
  <2>4. PanesOK([Onto(a, row) EXCEPT !.focus = "detail"])
    BY <2>3, OntoInDiffSees
  <2> QED BY <1>1, <1>5, <2>4
<1> QED BY <1>4, <1>5

\* A jump lands on a row the cursor may stand on, or above one.
Landings == {i \in DOMAIN Diff : \E j \in Selectable : i <= j}
LEMMA LandSees ==
  ASSUME NEW a, DOMAIN a = AppFields, PanesOK(a), NEW row \in Landings
  PROVE  PanesOK(Land(a, row))
<1> DEFINE next == NextSelectable(row, TRUE)
           to == IF next = NoEntry THEN row ELSE next
<1>1. Land(a, row) = [Onto(a, to) EXCEPT !.focus = "detail"]
  BY DEF Land
<1>2. row \in Int /\ \E j \in Selectable : row <= j /\ j \in Int
  <2>1. row \in 1 .. Len(Diff) /\ Len(Diff) \in Nat /\ Selectable \subseteq 1 .. Len(Diff)
    BY RowsAre DEF Landings
  <2>2. \E j \in Selectable : row <= j
    BY DEF Landings
  <2> QED BY <2>1, <2>2
<1>3. next \in Selectable \cup {NoEntry} /\ (next = NoEntry => \A i \in Selectable : ~(i >= row))
  <2>1. TRUE \in BOOLEAN
    OBVIOUS
  <2> QED BY <1>2, <2>1, NextSelectableIs
<1> HIDE DEF next
<1>4. next \in Selectable /\ next # NoEntry
  <2>1. next # NoEntry
    BY <1>2, <1>3
  <2> QED BY <1>3, <2>1
<1>5. to \in Selectable
  BY <1>4
<1> HIDE DEF to
<1> QED BY <1>1, <1>5, OntoInDiffSees

LEMMA ToggleSplitSees ==
  ASSUME NEW a, DOMAIN a = AppFields, PanesOK(a)
  PROVE  PanesOK(ToggleSplit(a))
<1> DEFINE b == [a EXCEPT !.recorded = ~Split(a)]
           laid == Rebuild(b)
           row == HunkOf(a.cursor)
           there == {i \in DOMAIN Diff : i <= a.cursor /\ Diff[i].hunk} \cup {0}
<1>1. DOMAIN b = AppFields /\ Beside(a, b)
  BY DEF Beside, SameScreen, AppFields
<1>2. ToggleSplit(a) = IF row = 0 THEN laid ELSE Onto(laid, row)
  BY DEF ToggleSplit
<1> HIDE DEF b
<1>3. PanesOK(b)
  BY <1>1, BesideIsOK
<1>4. PanesOK(laid) /\ DOMAIN laid = AppFields
  BY <1>1, <1>3, RebuildSees, RebuildStays DEF Stays, SameButMode
<1> HIDE DEF laid
<1>5. row = Max(there)
  BY DEF HunkOf
<1>6. there \subseteq 0 .. Len(Diff) /\ there # {} /\ Len(Diff) \in Nat
  BY RowsAre
<1>7. \A i \in there : i # 0 => i \in Selectable
  BY PanesAssumption DEF PanesAssumption, Selectable
<1> HIDE DEF there
<1>8. row \in there
  BY <1>5, <1>6, MaxIsGreatest
<1> HIDE DEF row
<1> QED BY <1>2, <1>4, <1>7, <1>8, OntoSees

LEMMA ToggleWrapSees ==
  ASSUME NEW a, DOMAIN a = AppFields, PanesOK(a)
  PROVE  PanesOK(ToggleWrap(a))
<1> DEFINE b == [a EXCEPT !.wrap = ~a.wrap]
<1>1. /\ DOMAIN b = AppFields /\ b.area = a.area /\ b.view = a.view /\ b.cols = a.cols /\ b.offset = a.offset
      /\ b.at = a.at /\ b.top = a.top /\ b.cursor = a.cursor /\ b.scroll = a.scroll
  BY DEF AppFields
<1>2. ToggleWrap(a) = FollowCursor(b)
  BY DEF ToggleWrap, AppFields
<1> HIDE DEF b
<1>3. Laid_out(b) /\ PlanSeen(b)
  BY <1>1 DEF PanesOK, Laid_out, Measured_panes, PlanSeen, PlanHeights, Floor, PaneRows
<1> QED BY <1>1, <1>2, <1>3, FollowCursorSees DEF PanesOK, RowSeen

\* What is measured again, whatever was measured.
LEMMA RemeasuredSees ==
  ASSUME NEW a, PanesOK(a), NEW b, DOMAIN b = AppFields, Measured_panes(b), b.view = a.view,
         b.at = a.at, b.top = a.top, b.cursor = a.cursor, b.scroll = a.scroll
  PROVE  PanesOK(Remeasure(b))
<1>1. Laid_out(b) /\ b.cursor \in Selectable
  BY DEF PanesOK, Laid_out, RowSeen
<1> QED BY <1>1, RemeasureSees

LEMMA ToggleFileViewSees ==
  ASSUME NEW a, DOMAIN a = AppFields, PanesOK(a)
  PROVE  /\ PanesOK(ToggleFileView(a))
         /\ ToggleFileView(a).mode = a.mode /\ ToggleFileView(a).area = a.area
         /\ ToggleFileView(a).entries = a.entries /\ ToggleFileView(a).last = a.last
<1> DEFINE view == IF a.view = "groups" THEN "files" ELSE "groups"
           b == [a EXCEPT !.view = view, !.cursor = 1, !.scroll = 1]
           c == FollowCursor(b)
           d == FollowPlan(c)
           e == FollowPlan(d)
<1>1. view \in Views
  BY DEF Views
<1> HIDE DEF view
<1>2. /\ DOMAIN b = AppFields /\ b.view = view /\ b.area = a.area /\ b.cols = a.cols /\ b.offset = a.offset
      /\ b.at = a.at /\ b.top = a.top /\ b.cursor = 1 /\ b.scroll = 1
      /\ b.mode = a.mode /\ b.entries = a.entries /\ b.last = a.last
  BY DEF AppFields
<1>3. ToggleFileView(a) = Rebuild(e)
  BY DEF ToggleFileView, Remeasure, AppFields, view
<1> HIDE DEF b
<1>4. Laid_out(b)
  BY <1>1, <1>2 DEF PanesOK, Laid_out, Measured_panes
<1>5. Laid_out(c) /\ c.cursor = 1 /\ c.scroll = 1 /\ Stays(b, c)
  BY <1>2, <1>4, FollowCursorFromTop, FollowCursorStays
<1> HIDE DEF c
<1>6. Laid_out(d) /\ d.cursor = 1 /\ d.scroll = 1 /\ Stays(c, d)
  BY <1>5, FollowPlanSees, FollowPlanStays DEF Stays, SameButMode
<1> HIDE DEF d
<1>7. Laid_out(e) /\ PlanSeen(e) /\ e.cursor = 1 /\ e.scroll = 1 /\ Stays(d, e)
  BY <1>6, FollowPlanSees, FollowPlanStays DEF Stays, SameButMode
<1> HIDE DEF e
<1>8. PanesOK(Rebuild(e)) /\ Stays(e, Rebuild(e))
  BY <1>7, RebuildFromTop, RebuildStays DEF Stays, SameButMode
<1> QED BY <1>2, <1>3, <1>5, <1>6, <1>7, <1>8 DEF Stays, SameButMode

-----------------------------------------------------------------------------
(* The dividers, the mouse and the screen keep it in view *)

\* What is open over the panes, and what it lists, is as it was.
SameOver(a, b) ==
  /\ DOMAIN b = AppFields
  /\ b.mode = a.mode /\ b.area = a.area /\ b.entries = a.entries /\ b.last = a.last
Sees(a, b) == SameOver(a, b) /\ PanesOK(b)

LEMMA StaysSees == ASSUME NEW a, NEW b, Stays(a, b), PanesOK(b) PROVE Sees(a, b)
BY DEF Stays, SameButMode, Sees, SameOver

LEMMA SeesTwice == ASSUME NEW a, NEW b, NEW c, Sees(a, b), Sees(b, c) PROVE Sees(a, c)
BY DEF Sees, SameOver

LEMMA MeasuredAgainSees ==
  ASSUME NEW a, PanesOK(a), NEW b, SameOver(a, b), Measured_panes(b), b.view = a.view,
         b.at = a.at, b.top = a.top, b.cursor = a.cursor, b.scroll = a.scroll
  PROVE  Sees(a, Remeasure(b))
<1>1. PanesOK(Remeasure(b))
  BY RemeasuredSees DEF SameOver
<1>2. Stays(b, Remeasure(b))
  BY RemeasureStays DEF SameOver
<1> QED BY <1>1, <1>2 DEF Stays, SameButMode, Sees, SameOver

LEMMA SetPlanColsSees ==
  ASSUME NEW a, DOMAIN a = AppFields, PanesOK(a), NEW want \in Int
  PROVE  Sees(a, SetPlanCols(a, want))
<1> DEFINE to == ClampCols(want, a.area.w)
           b == [a EXCEPT !.cols[a.view] = to]
<1>1. Measured_panes(a)
  BY DEF PanesOK, Laid_out
<1>2. to \in Nat
  BY <1>1, ClampColsIs DEF Measured_panes
<1> HIDE DEF to
<1>3. CASE to = PlanCols(a)
  <2>1. SetPlanCols(a, want) = a
    BY <1>3 DEF SetPlanCols, to
  <2> QED BY <2>1 DEF Sees, SameOver
<1>4. CASE to # PlanCols(a)
  <2>1. SetPlanCols(a, want) = Remeasure(b)
    BY <1>4 DEF SetPlanCols, to
  <2>2. /\ SameOver(a, b) /\ b.cols = [a.cols EXCEPT ![a.view] = to] /\ b.offset = a.offset
        /\ b.view = a.view /\ b.at = a.at /\ b.top = a.top /\ b.cursor = a.cursor /\ b.scroll = a.scroll
    BY DEF AppFields, SameOver
  <2> HIDE DEF b
  <2>3. Measured_panes(b)
    BY <1>1, <1>2, <2>2 DEF Measured_panes, SameOver
  <2> QED BY <2>1, <2>2, <2>3, MeasuredAgainSees
<1> QED BY <1>3, <1>4

LEMMA PlanColsIsCounted ==
  ASSUME NEW a, PanesOK(a)
  PROVE  PlanCols(a) \in Nat /\ DetailCols(a) \in Nat
<1>1. Measured_panes(a) /\ a.cols[a.view] \in Int /\ a.area.w \in Nat
  BY DEF PanesOK, Laid_out, Measured_panes
<1> QED BY <1>1, ClampColsIs, ScreenIsCounted DEF PlanCols

LEMMA ResizeDiffSees ==
  ASSUME NEW a, DOMAIN a = AppFields, PanesOK(a), NEW by \in {ResizeStep, -ResizeStep}
  PROVE  Sees(a, ResizeDiff(a, by))
<1> DEFINE p == PlanCols(a) - by
           q == 0
<1>1. p \in Int /\ q \in Int
  BY PlanColsIsCounted, DeskAssumption DEF DeskAssumption
<1>2. ResizeDiff(a, by) = SetPlanCols(a, Max({p, q}))
  BY DEF ResizeDiff
<1> HIDE DEF p, q
<1>3. Max({p, q}) \in Int
  BY <1>1, MaxOfTwo
<1> QED BY <1>2, <1>3, SetPlanColsSees

LEMMA DragToSees ==
  ASSUME NEW a, AppOK(a), PanesOK(a), NEW x \in Nat, a.grab # <<>>
  PROVE  Sees(a, DragTo(a, x))
<1>0. DOMAIN a = AppFields /\ a.grab \in Grips
  BY DEF AppOK, Divided
<1>1. CASE a.grab \in {<<"panes", 0>>, <<"panes", -1>>}
  <2> DEFINE p == x - a.grab[2]
             q == 0
  <2>1. p \in Int /\ q \in Int
    BY <1>1
  <2>2. DragTo(a, x) = SetPlanCols(a, Max({p, q}))
    BY <1>1 DEF DragTo, DragPanesTo
  <2> HIDE DEF p, q
  <2>3. Max({p, q}) \in Int
    BY <2>1, MaxOfTwo
  <2> QED BY <1>0, <2>2, <2>3, SetPlanColsSees
<1>2. CASE a.grab = <<"split">>
  <2> DEFINE to == x - (PlanCols(a) + 1) - HalfCentre(DetailCols(a))
             b == [a EXCEPT !.offset = to]
  <2>1. to \in Int
    <3>1. PlanCols(a) \in Nat /\ DetailCols(a) \in Nat
      BY PlanColsIsCounted
    <3>2. HalfCentre(DetailCols(a)) \in Int
      BY <3>1 DEF HalfCentre, Less, Most
    <3> QED BY <3>1, <3>2
  <2>2. DragTo(a, x) = Remeasure(b)
    BY <1>2 DEF DragTo, DragSplitTo
  <2> HIDE DEF to
  <2>3. /\ SameOver(a, b) /\ b.cols = a.cols /\ b.offset = to
        /\ b.view = a.view /\ b.at = a.at /\ b.top = a.top /\ b.cursor = a.cursor /\ b.scroll = a.scroll
    BY <1>0 DEF AppFields, SameOver
  <2> HIDE DEF b
  <2>4. Measured_panes(b)
    BY <2>1, <2>3 DEF PanesOK, Laid_out, Measured_panes, SameOver
  <2> QED BY <2>2, <2>3, <2>4, MeasuredAgainSees
<1> QED BY <1>0, <1>1, <1>2 DEF Grips

\* What is beside the panes, and what is open over them, is all that changes.
LEMMA BesideSees ==
  ASSUME NEW a, PanesOK(a), NEW b, Beside(a, b), SameOver(a, b)
  PROVE  Sees(a, b)
BY BesideIsOK DEF Sees

LEMMA GrabSees ==
  ASSUME NEW a, DOMAIN a = AppFields, PanesOK(a), NEW grip
  PROVE  Sees(a, [a EXCEPT !.grab = grip])
<1>1. Beside(a, [a EXCEPT !.grab = grip]) /\ SameOver(a, [a EXCEPT !.grab = grip])
  BY DEF Beside, SameScreen, SameOver, AppFields
<1> QED BY <1>1, BesideSees

\* A click on an entry of several lines hits one of the entries there are, or none.
LEMMA HitIsThere ==
  ASSUME NEW heights \in Seq(Nat), NEW scroll \in Nat \ {0}, NEW line
  PROVE  EntryAtLine(heights, scroll, line) \in 0 .. Len(heights)
<1> DEFINE reach == {i \in scroll .. Len(heights) : line < Tall(heights, scroll, i)}
<1>0. Len(heights) \in Nat
  OBVIOUS
<1>1. EntryAtLine(heights, scroll, line) = IF reach = {} THEN NoEntry ELSE Min(reach)
  BY DEF EntryAtLine
<1>2. reach \subseteq Nat /\ reach \subseteq 0 .. Len(heights)
  BY <1>0
<1> HIDE DEF reach
<1>3. CASE reach = {}
  BY <1>0, <1>1, <1>3 DEF NoEntry
<1>4. CASE reach # {}
  <2>1. Min(reach) \in reach
    BY <1>2, <1>4, MinIsLeast
  <2>2. Min(reach) \in 0 .. Len(heights)
    BY <1>2, <2>1
  <2> QED BY <1>1, <1>4, <2>2
<1> QED BY <1>3, <1>4

LEMMA ClickPaneSees ==
  ASSUME NEW a, DOMAIN a = AppFields, PanesOK(a), NEW pane, NEW line
  PROVE  Sees(a, ClickPane(a, pane, line))
<1> DEFINE free == [a EXCEPT !.grab = <<>>]
<1>1. Sees(a, free) /\ DOMAIN free = AppFields /\ PanesOK(free)
  BY GrabSees DEF Sees, SameOver
<1>2. ClickPane(a, pane, line) = IF pane = "plan" THEN ClickPlan(free, line) ELSE ClickDetail(free, line)
  BY DEF ClickPane
<1> HIDE DEF free
<1>3. \A to : Sees(free, [free EXCEPT !.focus = to])
  BY <1>1, FocusSees, FocusStays, StaysSees
<1>4. Sees(free, ClickPlan(free, line))
  <2> DEFINE here == [free EXCEPT !.focus = "groups"]
             hit == EntryAtLine(PlanHeights(here), here.top, line)
  <2>1. Sees(free, here) /\ DOMAIN here = AppFields /\ PanesOK(here)
    BY <1>3 DEF Sees, SameOver
  <2>2. PlanHeights(here) = PlanHeights(free) /\ here.top = free.top
    BY <1>1 DEF PlanHeights, AppFields
  <2>3. \/ ClickPlan(free, line) = here \/ ClickPlan(free, line) = EnterPlanEntry(here)
        \/ ClickPlan(free, line) = SelectEntry(here, hit)
    BY <2>2 DEF ClickPlan
  <2> HIDE DEF here
  <2>4. hit \in Int
    <3>1. PlanHeights(here) \in Seq(Nat) /\ here.top \in Nat \ {0}
      BY <2>1, PlanHeightsAre DEF PanesOK, Laid_out, Measured_panes
    <3>2. hit \in 0 .. Len(PlanHeights(here))
      BY <3>1, HitIsThere
    <3> QED BY <3>2
  <2> HIDE DEF hit
  <2>5. Sees(here, SelectEntry(here, hit))
    BY <2>1, <2>4, SelectEntrySees, SelectEntryStays, StaysSees
  <2>6. Sees(here, EnterPlanEntry(here))
    BY <2>1, FocusSees, FocusStays, StaysSees DEF EnterPlanEntry
  <2> QED BY <2>1, <2>3, <2>5, <2>6, SeesTwice
<1>5. Sees(free, ClickDetail(free, line))
  <2> DEFINE here == [free EXCEPT !.focus = "detail"]
  <2>1. Sees(free, here) /\ DOMAIN here = AppFields /\ PanesOK(here)
    BY <1>3 DEF Sees, SameOver
  <2>2. ClickDetail(free, line) = here \/ \E hit \in Selectable : ClickDetail(free, line) = Onto(here, hit)
    BY DEF ClickDetail
  <2> HIDE DEF here
  <2>3. \A hit \in Selectable : Sees(here, Onto(here, hit))
    BY <2>1, OntoSees, OntoStays, StaysSees
  <2> QED BY <2>1, <2>2, <2>3, SeesTwice
<1> QED BY <1>1, <1>2, <1>4, <1>5, SeesTwice

LEMMA WheelPaneSees ==
  ASSUME NEW a, DOMAIN a = AppFields, PanesOK(a), NEW pane, NEW down \in BOOLEAN
  PROVE  Sees(a, WheelPane(a, pane, down))
<1>1. ASSUME NEW to PROVE Sees(a, [a EXCEPT !.focus = to])
  BY FocusSees, FocusStays, StaysSees
<1>2. CASE pane = "plan"
  <2> DEFINE here == [a EXCEPT !.focus = "groups"]
             to == a.at[a.view] + IF down THEN 1 ELSE -1
  <2>1. WheelPane(a, pane, down) = SelectEntry(here, to)
    BY <1>2 DEF WheelPane, WheelPlan
  <2>2. to \in Int
    <3>1. a.at[a.view] \in Nat
      BY DEF PanesOK, Laid_out, Measured_panes
    <3> QED BY <3>1
  <2>3. Sees(a, here) /\ DOMAIN here = AppFields /\ PanesOK(here)
    BY <1>1 DEF Sees, SameOver
  <2> HIDE DEF here, to
  <2>4. Sees(here, SelectEntry(here, to))
    BY <2>2, <2>3, SelectEntrySees, SelectEntryStays, StaysSees
  <2> QED BY <2>1, <2>3, <2>4, SeesTwice
<1>3. CASE pane # "plan"
  <2> DEFINE here == [a EXCEPT !.focus = "detail"]
  <2>1. WheelPane(a, pane, down) = MoveCursor(here, down)
    BY <1>3 DEF WheelPane, WheelDetail
  <2>2. Sees(a, here) /\ DOMAIN here = AppFields /\ PanesOK(here)
    BY <1>1 DEF Sees, SameOver
  <2> HIDE DEF here
  <2>3. Sees(here, MoveCursor(here, down))
    BY <2>2, MoveCursorSees, MoveCursorStays, StaysSees
  <2> QED BY <2>1, <2>2, <2>3, SeesTwice
<1> QED BY <1>2, <1>3

\* A resize measures the panes again.
LEMMA SetAreaSees ==
  ASSUME NEW a, DOMAIN a = AppFields, PanesOK(a), NEW box, box.w \in Nat, box.h \in Nat
  PROVE  LET b == SetArea(a, box)
         IN  PanesOK(b) /\ DOMAIN b = AppFields /\ b.mode = a.mode /\ b.entries = a.entries /\ b.last = a.last
<1> DEFINE c == [a EXCEPT !.area = box]
<1>1. /\ DOMAIN c = AppFields /\ c.area = box /\ c.cols = a.cols /\ c.offset = a.offset
      /\ c.view = a.view /\ c.at = a.at /\ c.top = a.top /\ c.cursor = a.cursor /\ c.scroll = a.scroll
      /\ c.mode = a.mode /\ c.entries = a.entries /\ c.last = a.last
  BY DEF AppFields
<1>2. SetArea(a, box) = Remeasure(c)
  BY DEF SetArea
<1> HIDE DEF c
<1>3. Measured_panes(c)
  BY <1>1 DEF PanesOK, Laid_out, Measured_panes
<1>4. PanesOK(Remeasure(c))
  BY <1>1, <1>3, RemeasuredSees
<1>5. Stays(c, Remeasure(c))
  BY <1>1, RemeasureStays
<1> QED BY <1>1, <1>2, <1>4, <1>5 DEF Stays, SameButMode

\* The panes a reviewer opens on.
LEMMA OpenedSees ==
  ASSUME NEW file, NEW disk, NEW box, box.w \in Nat, box.h \in Nat, NEW view \in Views, NEW recorded, NEW wrap
  PROVE  LET b == Opened(file, disk, box, view, recorded, wrap)
         IN  PanesOK(b) /\ DOMAIN b = AppFields /\ b.mode = Normal /\ b.entries = Entries
             /\ b.last = [query |-> "", hit |-> 1]
<1> DEFINE c == [area |-> box, mode |-> Normal, user |-> file, shown |-> Worn(file), bound |-> KeysOf(file),
                 pending |-> <<>>, file |-> file, disk |-> disk,
                 view |-> view, focus |-> "groups", cols |-> [v \in {"groups", "files"} |-> Default_cols],
                 offset |-> 0, grab |-> <<>>, at |-> [v \in {"groups", "files"} |-> 1], top |-> 1,
                 cursor |-> FirstRow, scroll |-> 1, recorded |-> recorded, wrap |-> wrap, followed |-> FALSE,
                 entries |-> Entries, last |-> [query |-> "", hit |-> 1], calling |-> FALSE]
           b == Opened(file, disk, box, view, recorded, wrap)
<1>1. b = Remeasure(c)
  BY Zenon DEF Opened, Remeasure
<1>2. DOMAIN c = AppFields /\ c.mode = Normal /\ c.entries = Entries /\ c.last = [query |-> "", hit |-> 1]
  BY DEF AppFields
<1>8. /\ c.area = box /\ c.view = view /\ c.cols = [v \in Views |-> Default_cols] /\ c.offset = 0
      /\ c.at = [v \in Views |-> 1] /\ c.top = 1 /\ c.cursor = FirstRow /\ c.scroll = 1
  BY DEF Views
<1> HIDE DEF b, c
<1>3. Measured_panes(c)
  <2>1. [v \in Views |-> Default_cols] \in [Views -> Nat]
    BY DeskAssumption DEF DeskAssumption
  <2> QED BY <1>8, <2>1 DEF Measured_panes
<1>4. Laid_out(c)
  <2>1. \A v \in Views : 1 \in 1 .. EntriesOf(v)
    <3>1. Len(Blocks) \in Nat /\ Len(Blocks) >= 1 /\ Tree \in Nat /\ Tree >= 1
      BY PanesAssumption DEF PanesAssumption
    <3> QED BY <3>1 DEF EntriesOf
  <2> DEFINE ones == [v \in Views |-> 1]
  <2>2. ones \in [Views -> Nat] /\ \A v \in Views : ones[v] = 1
    OBVIOUS
  <2>3. c.at = ones
    BY <1>8
  <2> HIDE DEF ones
  <2>4. c.top \in Nat \ {0} /\ c.scroll \in Nat \ {0}
    BY <1>8
  <2> QED BY <1>3, <2>1, <2>2, <2>3, <2>4 DEF Laid_out
<1>5. c.cursor \in Selectable
  BY <1>8, RowsAre
<1>6. PanesOK(Remeasure(c))
  BY <1>2, <1>4, <1>5, RemeasureSees
<1>7. Stays(c, b)
  BY <1>1, <1>2, RemeasureStays
<1> QED BY <1>1, <1>2, <1>6, <1>7 DEF Stays, SameButMode, b

-----------------------------------------------------------------------------
(* What is open over the panes, with its selection in view *)

LEMMA FaultsAreCounted == ASSUME NEW t \in KeyTables PROVE Faults[t] \in Nat
<1>1. IsFiniteSet(Clashes(Bound(t)))
  BY BoundIsKeys, ClashesAreFinite
<1>2. IsFiniteSet(Problems(t))
  BY <1>1, RefusedIsFinite, FS_Union DEF Problems
<1>3. Faults[t] = Cardinality(Problems(t))
  BY DEF Faults
<1> QED BY <1>2, <1>3, FS_CardinalityType

\* The rows each list has.
LEMMA WrappedIsCounted ==
  ASSUME NEW width \in Nat, NEW box, box.w \in Nat
  PROVE  Wrapped(width, box) \in Nat
<1> DEFINE p == Less(Min({box.w, 72}), 3)
           q == 10
           room == Max({p, q})
<1>1. p \in Int /\ q \in Int
  <2>1. Min({box.w, 72}) \in Int
    BY MinOfTwo
  <2> QED BY <2>1 DEF Less, Most
<1>2. Wrapped(width, box) = 1 + (Less(width, room - 1) + room - 4) \div (room - 3)
  BY DEF Wrapped
<1> HIDE DEF p
<1>3. room \in Int /\ room >= 10
  BY <1>1, MaxOfTwo
<1> HIDE DEF room
<1>4. Less(width, room - 1) + room - 4 \in Nat /\ room - 3 \in Nat \ {0}
  BY <1>3 DEF Less, Most
<1> DEFINE x == Less(width, room - 1) + room - 4
           y == room - 3
<1>5. x \in Nat /\ y \in Nat \ {0}
  BY <1>4
<1> HIDE DEF x, y
<1>6. x \div y \in Nat
  BY <1>5
<1> QED BY <1>2, <1>6 DEF x, y

LEMMA ConfigIsCounted ==
  ASSUME NEW m, m.problems \in Nat, NEW box, box.w \in Nat, box.h \in Nat
  PROVE  /\ ConfigTop(box) \in Nat /\ ConfigNotes(m, box) \in Nat /\ EditRows(m, box) \in Nat
         /\ Body(box) \in Nat
<1>1. Wrapped(PathWidth, box) \in Nat /\ Wrapped(NoteWidth, box) \in Nat
  BY WrappedIsCounted, SettingsAssumption
<1>2. ConfigTop(box) \in Nat
  BY <1>1 DEF ConfigTop
<1>3. ConfigNotes(m, box) \in Nat
  <2> DEFINE x == m.problems + IF m.error THEN 1 ELSE 0
             y == Wrapped(NoteWidth, box)
  <2>1. x \in Nat /\ y \in Nat
    BY <1>1
  <2> HIDE DEF x, y
  <2>2. x * y \in Nat
    BY <2>1
  <2> QED BY <2>2 DEF ConfigNotes, x, y
<1>4. Body(box) \in Nat
  BY DEF Body, Less, Most
<1>5. EditRows(m, box) \in Nat
  BY <1>2, <1>3, <1>4 DEF EditRows, ConfigRows, ConfigListRows, Less, Most
<1> QED BY <1>2, <1>3, <1>4, <1>5

Entry == [section : Nat, thread : BOOLEAN]
LEMMA FilesAreCounted == FileEntries \in Nat
<1> DEFINE S == {i \in DOMAIN Diff : Diff[i].file}
<1>1. S \in SUBSET (1 .. Len(Diff)) /\ Len(Diff) \in Nat
  BY RowsAre
<1>2. IsFiniteSet(S)
  BY <1>1, FinitePlaces
<1> QED BY <1>2, FS_CardinalityType DEF FileEntries

LEMMA RulesAreThere ==
  ASSUME NEW entries \in Seq(Entry)
  PROVE  Rules(entries) \subseteq 1 .. Len(entries) /\ Cardinality(Rules(entries)) \in Nat
<1>1. Rules(entries) \in SUBSET (1 .. Len(entries)) /\ Len(entries) \in Nat
  BY DEF Rules
<1>2. IsFiniteSet(Rules(entries))
  BY <1>1, FinitePlaces
<1> QED BY <1>1, <1>2, FS_CardinalityType

LEMMA RowsAreCounted ==
  ASSUME NEW a, a.area.w \in Nat, a.area.h \in Nat, a.entries \in Seq(Entry)
  PROVE  FilesShown(a) \in Nat /\ SearchShown(a) \in Nat /\ FindingsShown(a) \in Nat
<1>1. Body(a.area) \in Nat
  BY DEF Body, Less, Most
<1>2. FilesShown(a) \in Nat
  BY <1>1, FilesAreCounted DEF FilesShown, FileListRows, Less, Most, Least
<1>3. SearchShown(a) \in Nat
  <2>1. SearchInner(Body(a.area)) \in Nat
    BY <1>1 DEF SearchInner, SearchBoxRows, Less, Most, Least
  <2>2. SearchInner(Body(a.area)) \div 3 \in Int
    BY <2>1
  <2> QED BY <2>2 DEF SearchShown, SearchListRows, Held, Most, Least
<1>4. FindingsShown(a) \in Nat
  <2>1. Cardinality(Rules(a.entries)) \in Nat /\ Len(a.entries) \in Nat
    BY RulesAreThere
  <2> QED BY <1>1, <2>1 DEF FindingsShown, FindingsRows, Less, Most, Least
<1> QED BY <1>2, <1>3, <1>4

\* What is open, and where it is in what it lists.
Reads(a) == a.entries \in Seq(Entry) /\ a.last.query \in DOMAIN Hits /\ a.last.hit \in Nat \ {0}
ListOK(m, entries) ==
  /\ m.kind = "files" =>
       DOMAIN m = {"kind", "selected", "scroll"} /\ m.selected \in 1 .. FileEntries /\ m.scroll \in Nat \ {0}
  /\ m.kind = "findings" =>
       /\ DOMAIN m = {"kind", "selected", "scroll", "confirming"}
       /\ m.selected \in 1 .. Len(entries) /\ m.scroll \in Nat \ {0}
  /\ m.kind = "search" =>
       /\ DOMAIN m = {"kind", "query", "selected", "scroll"} /\ m.query \in DOMAIN Hits
       /\ m.selected \in 1 .. Most(Hits[m.query], 1) /\ m.scroll \in Nat \ {0}
  /\ m.kind = "config" => m.scroll \in Nat \ {0}

\* Its selection is in the rows it has.
Within(m, rows) == m.scroll <= m.selected /\ m.selected < m.scroll + Most(rows, 1)
Windowed(a, m) ==
  /\ m.kind = "files" => Within(m, FilesShown(a))
  /\ m.kind = "findings" =>
       /\ m.scroll <= m.selected
       /\ \/ m.scroll = m.selected
          \/ m.selected + 1 - m.scroll + Cardinality({r \in Rules(a.entries) : m.scroll < r /\ r <= m.selected})
               <= Most(FindingsShown(a), 1)
  /\ m.kind = "search" => Within(m, SearchShown(a))
  /\ m.kind = "config" => Within(m, EditRows(m, a.area))
InWindow(a) == Windowed(a, Under(a.mode))

Settled(a) == DOMAIN a = AppFields /\ PanesOK(a) /\ Reads(a) /\ ListOK(Under(a.mode), a.entries)

\* A step leaves it in order, and in view if it was or if it opens another list.
Handles(a, b) == Settled(b) /\ (InWindow(a) \/ ~SameOpen(a, b) => InWindow(b))

LEMMA HandlesTwice == ASSUME NEW a, NEW b, NEW c, Handles(a, b), Handles(b, c) PROVE Handles(a, c)
BY DEF Handles, SameOpen

LEMMA HandlesItself == ASSUME NEW a, Settled(a) PROVE Handles(a, a)
BY DEF Handles, SameOpen

\* What is over the panes is as it was: a step in the panes.
LEMMA SeesHandles == ASSUME NEW a, Settled(a), NEW b, Sees(a, b) PROVE Handles(a, b)
<1>1. Settled(b)
  BY DEF Sees, SameOver, Settled, Reads
<1>2. InWindow(a) => InWindow(b)
  BY DEF Sees, SameOver, InWindow, Windowed, FilesShown, FindingsShown, SearchShown
<1>3. SameOpen(a, b)
  BY DEF Sees, SameOver, SameOpen
<1> QED BY <1>1, <1>2, <1>3 DEF Handles

\* The panes are as they were: a step over them.
Apart(a, b) == DOMAIN b = AppFields /\ Beside(a, b) /\ b.entries = a.entries /\ b.last = a.last

LEMMA ApartTwice == ASSUME NEW a, NEW b, NEW c, Apart(a, b), Apart(b, c) PROVE Apart(a, c)
BY DEF Apart, Beside, SameScreen

LEMMA ApartHandles ==
  ASSUME NEW a, Settled(a), NEW b, Apart(a, b), ListOK(Under(b.mode), a.entries),
         InWindow(a) \/ Under(a.mode).kind # Under(b.mode).kind => Windowed(a, Under(b.mode))
  PROVE  Handles(a, b)
<1>1. PanesOK(b)
  BY BesideIsOK DEF Apart, Settled
<1>2. Settled(b)
  BY <1>1 DEF Apart, Settled, Reads
<1>3. Windowed(a, Under(b.mode)) => InWindow(b)
  BY DEF Apart, Beside, SameScreen, InWindow, Windowed, FilesShown, FindingsShown, SearchShown
<1> QED BY <1>2, <1>3 DEF Handles, SameOpen

LEMMA OpensApart ==
  ASSUME NEW a, DOMAIN a = AppFields, NEW m
  PROVE  Apart(a, [a EXCEPT !.mode = m]) /\ [a EXCEPT !.mode = m].mode = m
BY DEF Apart, Beside, SameScreen, AppFields

\* Something that is no list opens.
Lists_open == {"files", "findings", "search", "config"}
LEMMA PlainHandles ==
  ASSUME NEW a, Settled(a), NEW m, m.kind \notin Lists_open \cup {"help"}
  PROVE  Handles(a, [a EXCEPT !.mode = m]) /\ [a EXCEPT !.mode = m].mode = m
<1> DEFINE b == [a EXCEPT !.mode = m]
<1>1. Apart(a, b) /\ b.mode = m
  BY OpensApart DEF Settled
<1> HIDE DEF b
<1>2. Under(b.mode) = m
  BY <1>1 DEF Under
<1>3. ListOK(m, a.entries) /\ Windowed(a, m)
  BY DEF ListOK, Windowed, Lists_open
<1> QED BY <1>1, <1>2, <1>3, ApartHandles DEF b

\* A list opens, or is where it was moved to.
LEMMA ListHandles ==
  ASSUME NEW a, Settled(a), NEW m, m.kind # "help", ListOK(m, a.entries),
         InWindow(a) \/ Under(a.mode).kind # m.kind => Windowed(a, m)
  PROVE  Handles(a, [a EXCEPT !.mode = m]) /\ [a EXCEPT !.mode = m].mode = m
<1> DEFINE b == [a EXCEPT !.mode = m]
<1>1. Apart(a, b) /\ b.mode = m
  BY OpensApart DEF Settled
<1> HIDE DEF b
<1>2. Under(b.mode) = m
  BY <1>1 DEF Under
<1> QED BY <1>1, <1>2, ApartHandles DEF b

LEMMA BackHandles == ASSUME NEW a, Settled(a) PROVE Handles(a, BackToReview(a)) /\ BackToReview(a).mode = Normal
<1>1. Normal.kind \notin Lists_open \cup {"help"}
  BY DEF Normal, Lists_open
<1> QED BY <1>1, PlainHandles DEF BackToReview

\* The rows of what is open, counted.
LEMMA SettledIsCounted ==
  ASSUME NEW a, Settled(a)
  PROVE  /\ a.area.w \in Nat /\ a.area.h \in Nat
         /\ FilesShown(a) \in Nat /\ SearchShown(a) \in Nat /\ FindingsShown(a) \in Nat
<1>1. a.area.w \in Nat /\ a.area.h \in Nat /\ a.entries \in Seq(Entry)
  BY DEF Settled, Reads, PanesOK, Laid_out, Measured_panes
<1> QED BY <1>1, RowsAreCounted

-----------------------------------------------------------------------------
(* The file list, and a step in any list *)

LEMMA OpenFileListHandles ==
  ASSUME NEW a, Settled(a)
  PROVE  Handles(a, OpenFileList(a))
<1> DEFINE m == [kind |-> "files", selected |-> 1, scroll |-> 1]
<1>1. CASE FileEntries = 0
  BY <1>1, HandlesItself DEF OpenFileList
<1>2. CASE FileEntries # 0
  <2>1. 1 \in 1 .. FileEntries
    BY <1>2, FilesAreCounted
  <2>2. ListOK(m, a.entries)
    BY <2>1 DEF ListOK
  <2>3. Windowed(a, m)
    BY SettledIsCounted DEF Windowed, Within, Most
  <2>4. OpenFileList(a) = [a EXCEPT !.mode = m] /\ m.kind # "help"
    BY <1>2 DEF OpenFileList
  <2> HIDE DEF m
  <2> QED BY <2>2, <2>3, <2>4, ListHandles
<1> QED BY <1>1, <1>2

\* One step of a list of entries of one line each.
LEMMA StepIsWithin ==
  ASSUME NEW m, m.kind \in {"files", "search"}, NEW len \in Nat, NEW rows \in Nat, NEW down,
         {"kind", "selected", "scroll"} \subseteq DOMAIN m,
         m.selected \in 1 .. Most(len, 1), m.scroll \in Nat \ {0}
  PROVE  LET to == Step(m, len, rows, down)
         IN  /\ DOMAIN to = DOMAIN m /\ to.kind = m.kind /\ ("query" \in DOMAIN m => to.query = m.query)
             /\ to.selected \in 1 .. Most(len, 1) /\ to.scroll \in Nat \ {0} /\ Within(to, rows)
<1> DEFINE spot == Stepped(m.selected, len, down)
           from == Follow(spot, m.scroll, rows)
           to == Step(m, len, rows, down)
<1>1. spot \in 1 .. Most(len, 1)
  BY SteppedIsThere
<1>2. spot \in Nat \ {0}
  BY <1>1 DEF Most
<1> HIDE DEF spot
<1>3. from \in 1 .. spot /\ spot < from + Most(rows, 1)
  BY <1>2, FollowKeeps
<1>4. to = [m EXCEPT !.selected = spot, !.scroll = from]
  BY DEF Step, spot, from
<1> HIDE DEF from, to
<1>5. DOMAIN to = DOMAIN m /\ to.selected = spot /\ to.scroll = from /\ to.kind = m.kind
      /\ ("query" \in DOMAIN m => to.query = m.query)
  BY <1>4
<1>6. from \in Nat \ {0} /\ from <= spot
  BY <1>2, <1>3
<1> QED BY <1>1, <1>3, <1>5, <1>6 DEF Within, to

LEMMA FilesStepHandles ==
  ASSUME NEW a, Settled(a), a.mode.kind = "files", NEW down
  PROVE  Handles(a, [a EXCEPT !.mode = Step(a.mode, FileEntries, FilesShown(a), down)])
<1> DEFINE m == a.mode
           to == Step(m, FileEntries, FilesShown(a), down)
<1>1. DOMAIN m = {"kind", "selected", "scroll"} /\ m.selected \in 1 .. FileEntries /\ m.scroll \in Nat \ {0}
  BY DEF Settled, ListOK, Under
<1>2. FileEntries \in Nat /\ FilesShown(a) \in Nat /\ Most(FileEntries, 1) = FileEntries
  BY <1>1, FilesAreCounted, SettledIsCounted DEF Most
<1>3. DOMAIN to = DOMAIN m /\ to.kind = "files" /\ to.selected \in 1 .. FileEntries /\ to.scroll \in Nat \ {0}
      /\ Within(to, FilesShown(a))
  BY <1>1, <1>2, StepIsWithin
<1> HIDE DEF to
<1>4. ListOK(to, a.entries) /\ Windowed(a, to)
  BY <1>1, <1>3 DEF ListOK, Windowed
<1>5. Handles(a, [a EXCEPT !.mode = to])
  BY <1>3, <1>4, ListHandles
<1> QED BY <1>5 DEF to

\* A jump: what was open closes, and the panes move to a row.
LEMMA LandsHandles ==
  ASSUME NEW a, Settled(a), NEW row \in Landings
  PROVE  Handles(a, Land(BackToReview(a), row))
<1> DEFINE back == BackToReview(a)
<1>1. Handles(a, back) /\ Settled(back)
  BY BackHandles DEF Handles
<1> HIDE DEF back
<1>2. Sees(back, Land(back, row))
  BY <1>1, LandSees, LandStays, StaysSees DEF Settled
<1>3. Handles(back, Land(back, row))
  BY <1>1, <1>2, SeesHandles
<1> QED BY <1>1, <1>3, HandlesTwice DEF back

LEMMA LandingIsThere == Landing \in Landings
<1>1. PICK i \in DOMAIN Diff : Landing <= i /\ Diff[i].selectable
  BY ModalsAssumption DEF ModalsAssumption
<1>2. i \in Selectable /\ Landing \in DOMAIN Diff
  BY <1>1, ModalsAssumption DEF ModalsAssumption, Selectable
<1> QED BY <1>1, <1>2 DEF Landings

LEMMA JumpedHandles == ASSUME NEW a, Settled(a) PROVE Handles(a, Jumped(a))
BY LandsHandles, LandingIsThere DEF Jumped

\* Under every file's header there is a row of it.
LEMMA FileRowsLand ==
  ASSUME NEW i \in 1 .. FileEntries
  PROVE  InOrder({k \in DOMAIN Diff : Diff[k].file})[i] \in Landings
<1> DEFINE S == {k \in DOMAIN Diff : Diff[k].file}
           spot == InOrder(S)
<1>1. S \in SUBSET (1 .. Len(Diff)) /\ Len(Diff) \in Nat
  BY RowsAre
<1>2. IsFiniteSet(S) /\ S \subseteq Nat
  BY <1>1, FinitePlaces
<1>3. \A k \in S : k \in Landings
  <2> SUFFICES ASSUME NEW k \in S PROVE k \in Landings
    OBVIOUS
  <2>1. PICK j \in DOMAIN Diff : k < j /\ Diff[j].selectable
    BY PanesAssumption DEF PanesAssumption
  <2>2. j \in Selectable /\ k \in DOMAIN Diff /\ k <= j
    <3>1. j \in Int /\ k \in Int
      BY RowsAre
    <3> QED BY <2>1, <3>1 DEF Selectable
  <2> QED BY <2>2 DEF Landings
<1>4. FileEntries = Cardinality(S)
  BY DEF FileEntries
<1> HIDE DEF S
<1>5. Rises(spot, S)
  BY <1>2, InOrderRises
<1>6. spot[i] \in S
  BY <1>4, <1>5 DEF Rises
<1> QED BY <1>3, <1>6 DEF S

LEMMA GoToFileHandles ==
  ASSUME NEW a, Settled(a), a.mode.kind = "files"
  PROVE  Handles(a, GoToFile(a))
<1>1. a.mode.selected \in 1 .. FileEntries
  BY DEF Settled, ListOK, Under
<1> QED BY <1>1, FileRowsLand, LandsHandles DEF GoToFile

LEMMA ClickFilesHandles ==
  ASSUME NEW a, Settled(a), a.mode.kind = "files", NEW line \in Nat, line < FilesShown(a)
  PROVE  Handles(a, ClickFiles(a, line))
<1> DEFINE m == a.mode
           hit == m.scroll + line
           to == [m EXCEPT !.selected = hit]
<1>1. DOMAIN m = {"kind", "selected", "scroll"} /\ m.selected \in 1 .. FileEntries /\ m.scroll \in Nat \ {0}
  BY DEF Settled, ListOK, Under
<1>2. FileEntries \in Nat /\ FilesShown(a) \in Nat /\ hit \in Nat \ {0}
  BY <1>1, FilesAreCounted, SettledIsCounted
<1>3. CASE hit > FileEntries
  <2>1. ~(hit <= FileEntries)
    BY <1>2, <1>3
  <2>2. ClickFiles(a, line) = a
    BY <1>3, <2>1 DEF ClickFiles, FileHit
  <2> QED BY <2>2, HandlesItself
<1>4. CASE hit <= FileEntries /\ hit = m.selected
  <2>1. ~(hit > FileEntries)
    BY <1>2, <1>4
  <2>2. ClickFiles(a, line) = GoToFile(a)
    BY <1>4, <2>1 DEF ClickFiles, FileHit
  <2> QED BY <2>2, GoToFileHandles
<1>5. CASE hit <= FileEntries /\ hit # m.selected
  <2>1. ~(hit > FileEntries)
    BY <1>2, <1>5
  <2>2. ClickFiles(a, line) = [a EXCEPT !.mode = to]
    BY <1>5, <2>1 DEF ClickFiles, FileHit, Settled, AppFields
  <2>3. DOMAIN to = DOMAIN m /\ to.kind = "files" /\ to.selected = hit /\ to.scroll = m.scroll
    BY <1>1
  <2>4. hit \in 1 .. FileEntries /\ Within(to, FilesShown(a))
    BY <1>1, <1>2, <1>5, <2>3 DEF Within, Most
  <2> HIDE DEF to, hit
  <2>5. ListOK(to, a.entries) /\ Windowed(a, to)
    BY <1>1, <2>3, <2>4 DEF ListOK, Windowed
  <2>6. Handles(a, [a EXCEPT !.mode = to])
    BY <2>3, <2>5, ListHandles
  <2> QED BY <2>2, <2>6, Zenon
<1> QED BY <1>2, <1>3, <1>4, <1>5

-----------------------------------------------------------------------------
(* The findings *)

FindingsMode == [kind |-> "findings", selected |-> 1, scroll |-> 1, confirming |-> FALSE]
LEMMA OpenFindingsHandles ==
  ASSUME NEW a, Settled(a)
  PROVE  /\ Handles(a, OpenFindings(a))
         /\ a.entries # <<>> => OpenFindings(a).mode = FindingsMode
         /\ a.entries = <<>> => OpenFindings(a) = a
         /\ OpenFindings(a).entries = a.entries /\ OpenFindings(a).area = a.area
<1> DEFINE m == FindingsMode
<1>1. CASE a.entries = <<>>
  BY <1>1, HandlesItself DEF OpenFindings
<1>2. CASE a.entries # <<>>
  <2>1. 1 \in 1 .. Len(a.entries)
    <3>1. a.entries \in Seq(Entry)
      BY DEF Settled, Reads
    <3> QED BY <1>2, <3>1
  <2>2. ListOK(m, a.entries) /\ m.kind # "help"
    BY <2>1 DEF ListOK, FindingsMode
  <2>3. Windowed(a, m)
    BY DEF Windowed, FindingsMode
  <2>4. OpenFindings(a) = [a EXCEPT !.mode = m]
    BY <1>2 DEF OpenFindings, FindingsMode
  <2> HIDE DEF m
  <2>5. Handles(a, [a EXCEPT !.mode = m])
    BY <2>2, <2>3, ListHandles
  <2>6. OpenFindings(a).mode = m /\ OpenFindings(a).entries = a.entries /\ OpenFindings(a).area = a.area
    BY <2>4 DEF Settled, AppFields
  <2> QED BY <1>2, <2>4, <2>5, <2>6 DEF m
<1> QED BY <1>1, <1>2

\* The selection and the scroll of a list that is open.
LEMMA FindingsAt ==
  ASSUME NEW a, Settled(a), a.mode.kind = "findings", NEW spot \in 1 .. Len(a.entries), NEW from,
         from \in 1 .. spot,
         from = spot \/ spot + 1 - from + Cardinality({r \in Rules(a.entries) : from < r /\ r <= spot})
                        <= Most(FindingsShown(a), 1)
  PROVE  LET b == [a EXCEPT !.mode.selected = spot, !.mode.scroll = from]
         IN  Handles(a, b) /\ InWindow(b)
<1> DEFINE m == a.mode
           to == [m EXCEPT !.selected = spot, !.scroll = from]
           b == [a EXCEPT !.mode.selected = spot, !.mode.scroll = from]
<1>1. DOMAIN m = {"kind", "selected", "scroll", "confirming"} /\ a.entries \in Seq(Entry)
  BY DEF Settled, ListOK, Under, Reads
<1>2. b = [a EXCEPT !.mode = to]
  BY DEF Settled, AppFields
<1>3. DOMAIN to = DOMAIN m /\ to.kind = "findings" /\ to.selected = spot /\ to.scroll = from
  BY <1>1
<1>4. spot \in Nat /\ from \in Nat \ {0} /\ from <= spot
  BY <1>1
<1> HIDE DEF to
<1>5. ListOK(to, a.entries) /\ Windowed(a, to)
  BY <1>1, <1>3, <1>4 DEF ListOK, Windowed
<1>6. Handles(a, [a EXCEPT !.mode = to]) /\ [a EXCEPT !.mode = to].mode = to
  BY <1>3, <1>5, ListHandles
<1> HIDE DEF b
<1>7. Handles(a, b) /\ b.mode = to
  BY <1>2, <1>6, Zenon
<1>8. Under(b.mode) = to
  BY <1>3, <1>7 DEF Under
<1>9. Apart(a, [a EXCEPT !.mode = to])
  BY OpensApart DEF Settled
<1>10. Windowed(b, to)
  BY <1>2, <1>5, <1>9 DEF Windowed, Apart, Beside, SameScreen, FilesShown, FindingsShown, SearchShown
<1> QED BY <1>7, <1>8, <1>10 DEF InWindow, b

\* The list built again, whatever it now holds.
LEMMA ReopenFindingsHandles ==
  ASSUME NEW a, DOMAIN a = AppFields, PanesOK(a), Reads(a), NEW mode,
         mode.selected \in Nat \ {0}, mode.scroll \in Nat \ {0}
  PROVE  Settled(ReopenFindings(a, mode)) /\ InWindow(ReopenFindings(a, mode))
<1> DEFINE back == BackToReview(a)
           opened == OpenFindings(back)
           b == ReopenFindings(a, mode)
<1>1. Apart(a, back) /\ back.mode = Normal
  BY OpensApart DEF BackToReview
<1>2. PanesOK(back)
  BY <1>1, BesideIsOK DEF Apart
<1>3. Settled(back)
  BY <1>1, <1>2 DEF Settled, Apart, Reads, ListOK, Under, Normal
<1>4. InWindow(back)
  BY <1>1 DEF InWindow, Windowed, Under, Normal
<1>5. back.entries = a.entries /\ back.area = a.area
  BY <1>1 DEF Apart, Beside, SameScreen
<1> HIDE DEF back
<1>6. /\ Handles(back, opened) /\ (a.entries # <<>> => opened.mode = FindingsMode)
      /\ opened.entries = a.entries /\ opened.area = a.area
  BY <1>3, <1>5, OpenFindingsHandles
<1>7. Settled(opened) /\ InWindow(opened)
  BY <1>4, <1>6 DEF Handles
<1> HIDE DEF opened
<1>8. CASE a.entries = <<>>
  <2>1. b = opened
    BY <1>8 DEF ReopenFindings, opened, back
  <2> QED BY <1>7, <2>1
<1>9. CASE a.entries # <<>>
  <2> DEFINE n == Len(a.entries)
             spot == Min({mode.selected, n})
             from == FindingsFollow(spot, mode.scroll, FindingsShown(a), Rules(a.entries))
  <2>1. n \in Nat \ {0}
    BY <1>9 DEF Reads
  <2>2. spot \in 1 .. n /\ spot \in Nat \ {0}
    <3> HIDE DEF n
    <3> QED BY <2>1, MinOfTwo
  <2>3. b = [opened EXCEPT !.mode.selected = spot, !.mode.scroll = from]
    BY <1>9 DEF ReopenFindings, opened, back
  <2> HIDE DEF spot, n
  <2>4. /\ from \in 1 .. spot
        /\ \/ from = spot
           \/ spot + 1 - from + Cardinality({r \in Rules(a.entries) : from < r /\ r <= spot}) <= Most(FindingsShown(a), 1)
    BY <2>2, FindingsFollowKeeps
  <2>5. FindingsShown(opened) = FindingsShown(a)
    BY <1>6 DEF FindingsShown
  <2>6. opened.mode.kind = "findings"
    BY <1>6, <1>9 DEF FindingsMode
  <2> HIDE DEF from
  <2>7. spot \in 1 .. Len(opened.entries)
    BY <1>6, <2>2 DEF n
  <2>8. from = spot \/ spot + 1 - from + Cardinality({r \in Rules(opened.entries) : from < r /\ r <= spot})
                        <= Most(FindingsShown(opened), 1)
    BY <1>6, <2>4, <2>5
  <2> DEFINE c == [opened EXCEPT !.mode.selected = spot, !.mode.scroll = from]
  <2>9. Handles(opened, c) /\ InWindow(c)
    BY <1>7, <2>4, <2>6, <2>7, <2>8, FindingsAt
  <2> HIDE DEF c, b
  <2>10. b = c
    BY <2>3 DEF c
  <2> QED BY <2>9, <2>10 DEF Handles, b
<1> QED BY <1>8, <1>9

LEMMA FindingsAreThere ==
  ASSUME NEW a, Settled(a), a.mode.kind = "findings"
  PROVE  /\ DOMAIN a.mode = {"kind", "selected", "scroll", "confirming"}
         /\ a.mode.selected \in 1 .. Len(a.entries) /\ a.mode.scroll \in Nat \ {0}
         /\ a.mode.selected \in Nat \ {0} /\ Len(a.entries) \in Nat \ {0} /\ a.entries \in Seq(Entry)
<1>1. a.entries \in Seq(Entry) /\ a.mode.selected \in 1 .. Len(a.entries)
  BY DEF Settled, ListOK, Under, Reads
<1>2. Len(a.entries) \in Nat
  BY <1>1
<1> QED BY <1>1, <1>2 DEF Settled, ListOK, Under

LEMMA FindingsStepHandles ==
  ASSUME NEW a, Settled(a), a.mode.kind = "findings", NEW down
  PROVE  Handles(a, FindingsStep(a, down))
<1> DEFINE n == Len(a.entries)
           spot == Stepped(a.mode.selected, n, down)
           from == FindingsFollow(spot, a.mode.scroll, FindingsShown(a), Rules(a.entries))
<1>1. a.mode.selected \in 1 .. n /\ a.mode.scroll \in Nat \ {0} /\ n \in Nat \ {0}
  BY FindingsAreThere
<1>2. FindingsStep(a, down) = [a EXCEPT !.mode.selected = spot, !.mode.scroll = from]
  BY DEF FindingsStep, Settled, AppFields
<1> HIDE DEF n
<1>3. Most(n, 1) = n
  BY <1>1 DEF Most
<1>4. spot \in 1 .. n /\ spot \in Nat \ {0}
  BY <1>1, <1>3, SteppedIsThere
<1> HIDE DEF spot
<1>5. /\ from \in 1 .. spot
      /\ \/ from = spot
         \/ spot + 1 - from + Cardinality({r \in Rules(a.entries) : from < r /\ r <= spot}) <= Most(FindingsShown(a), 1)
  BY <1>1, <1>4, FindingsFollowKeeps
<1> HIDE DEF from
<1> DEFINE c == [a EXCEPT !.mode.selected = spot, !.mode.scroll = from]
<1>6. spot \in 1 .. Len(a.entries)
  BY <1>4 DEF n
<1>7. Handles(a, c)
  BY <1>5, <1>6, FindingsAt
<1> HIDE DEF c
<1>8. FindingsStep(a, down) = c
  BY <1>2 DEF c
<1> QED BY <1>7, <1>8

\* A note goes, and all of them.
LEMMA AfterEntriesHandles ==
  ASSUME NEW a, Settled(a), a.mode.kind = "findings", NEW entries \in Seq(Entry)
  PROVE  Handles(a, ReopenFindings(Rebuild([a EXCEPT !.entries = entries]), a.mode))
<1> DEFINE b == [a EXCEPT !.entries = entries]
           c == Rebuild(b)
<1>1. DOMAIN b = AppFields /\ Beside(a, b) /\ b.entries = entries /\ b.last = a.last
  BY DEF Settled, Beside, SameScreen, AppFields
<1> HIDE DEF b
<1>2. PanesOK(b)
  BY <1>1, BesideIsOK DEF Settled
<1>3. PanesOK(c) /\ Stays(b, c)
  BY <1>1, <1>2, RebuildSees, RebuildStays
<1> HIDE DEF c
<1>4. DOMAIN c = AppFields /\ Reads(c)
  BY <1>1, <1>3 DEF Stays, SameButMode, Reads, Settled
<1>5. Settled(ReopenFindings(c, a.mode)) /\ InWindow(ReopenFindings(c, a.mode))
  BY <1>3, <1>4, FindingsAreThere, ReopenFindingsHandles
<1> QED BY <1>5 DEF Handles, c, b

LEMMA QuestionHandles == ASSUME NEW a, Settled(a) PROVE Handles(a, [a EXCEPT !.mode = Question])
<1>1. Question.kind \notin Lists_open \cup {"help"}
  BY DEF Question, Lists_open
<1> QED BY <1>1, PlainHandles

LEMMA DeleteFindingHandles ==
  ASSUME NEW a, Settled(a), a.mode.kind = "findings"
  PROVE  Handles(a, DeleteFinding(a))
<1> DEFINE left == RemoveAt(a.entries, a.mode.selected)
           b == ReopenFindings(Rebuild([a EXCEPT !.entries = left]), a.mode)
           c == [a EXCEPT !.mode = Question]
<1>1. left \in Seq(Entry)
  <2> DEFINE s == a.entries
             i == a.mode.selected
  <2>1. s \in Seq(Entry) /\ i \in 1 .. Len(s) /\ Len(s) \in Nat
    BY FindingsAreThere
  <2> HIDE DEF s, i
  <2>2. SubSeq(s, 1, i - 1) \in Seq(Entry) /\ SubSeq(s, i + 1, Len(s)) \in Seq(Entry)
    <3> DEFINE E == Entry
    <3> HIDE DEF E
    <3>1. s \in Seq(E)
      BY <2>1 DEF E
    <3>2. SubSeq(s, 1, i - 1) \in Seq(E)
      BY <2>1, <3>1
    <3>3. SubSeq(s, i + 1, Len(s)) \in Seq(E)
      BY <2>1, <3>1
    <3> QED BY <3>2, <3>3 DEF E
  <2>3. SubSeq(s, 1, i - 1) \o SubSeq(s, i + 1, Len(s)) \in Seq(Entry)
    BY <2>2
  <2> QED BY <2>3 DEF RemoveAt, s, i
<1>2. DeleteFinding(a) = b \/ DeleteFinding(a) = c
  BY DEF DeleteFinding, Settled, AppFields
<1> HIDE DEF left
<1>3. Handles(a, b)
  BY <1>1, AfterEntriesHandles
<1>4. Handles(a, c)
  BY QuestionHandles
<1> HIDE DEF b, c
<1> QED BY <1>2, <1>3, <1>4

LEMMA ClearFindingsHandles ==
  ASSUME NEW a, Settled(a), a.mode.kind = "findings"
  PROVE  Handles(a, ClearFindings(a))
<1> DEFINE places == {i \in DOMAIN a.entries : ~Local(a.entries[i])}
           left == Taken(a.entries, places)
<1>1. a.entries \in Seq(Entry)
  BY FindingsAreThere
<1>2. places \in SUBSET (1 .. Len(a.entries)) /\ Len(a.entries) \in Nat
  BY <1>1
<1>3. \A i \in places : a.entries[i] \in Entry
  BY <1>1
<1>4. ClearFindings(a) = ReopenFindings(Rebuild([a EXCEPT !.entries = left]), a.mode)
  BY DEF ClearFindings
<1> HIDE DEF places
<1>5. IsFiniteSet(places) /\ places \subseteq Nat
  BY <1>2, FinitePlaces
<1>6. left \in Seq(Entry)
  BY <1>3, <1>5, TakenSelects
<1> HIDE DEF left
<1> QED BY <1>4, <1>6, AfterEntriesHandles

\* The question is asked, or not any more.
LEMMA ConfirmsHandles ==
  ASSUME NEW a, Settled(a), a.mode.kind = "findings", NEW x
  PROVE  /\ Handles(a, [a EXCEPT !.mode.confirming = x])
         /\ [a EXCEPT !.mode.confirming = x].mode.kind = "findings"
<1> DEFINE m == a.mode
           to == [m EXCEPT !.confirming = x]
<1>1. /\ DOMAIN m = {"kind", "selected", "scroll", "confirming"}
      /\ m.selected \in 1 .. Len(a.entries) /\ m.scroll \in Nat \ {0}
  BY FindingsAreThere
<1>2. DOMAIN to = DOMAIN m /\ to.kind = "findings" /\ to.selected = m.selected /\ to.scroll = m.scroll
  BY <1>1
<1>3. [a EXCEPT !.mode.confirming = x] = [a EXCEPT !.mode = to]
  BY DEF Settled, AppFields
<1> HIDE DEF to
<1>4. ListOK(to, a.entries)
  BY <1>1, <1>2 DEF ListOK
<1>5. InWindow(a) => Windowed(a, to)
  BY <1>2 DEF InWindow, Under, Windowed
<1>6. Under(a.mode).kind = to.kind
  BY <1>2 DEF Under
<1>7. Handles(a, [a EXCEPT !.mode = to]) /\ [a EXCEPT !.mode = to].mode = to
  BY <1>2, <1>4, <1>5, <1>6, ListHandles
<1> QED BY <1>2, <1>3, <1>7, Zenon

LEMMA AskToClearHandles == ASSUME NEW a, Settled(a), a.mode.kind = "findings" PROVE Handles(a, AskToClear(a))
BY ConfirmsHandles DEF AskToClear

LEMMA ConfirmedHandles ==
  ASSUME NEW a, Settled(a), a.mode.kind = "findings", NEW key
  PROVE  Handles(a, Confirmed(a, key))
<1> DEFINE b == [a EXCEPT !.mode.confirming = FALSE]
<1>1. Handles(a, b) /\ b.mode.kind = "findings"
  BY ConfirmsHandles
<1>2. Confirmed(a, key) = ClearFindings(b) \/ Confirmed(a, key) = b
  BY DEF Confirmed
<1> HIDE DEF b
<1>3. Handles(b, ClearFindings(b))
  BY <1>1, ClearFindingsHandles DEF Handles
<1> QED BY <1>1, <1>2, <1>3, HandlesTwice

LEMMA GoToFindingHandles == ASSUME NEW a, Settled(a) PROVE Handles(a, GoToFinding(a))
BY BackHandles, JumpedHandles DEF GoToFinding

\* A click where a list draws an entry keeps what is in view so.
Clicks(a, b, blank) == Settled(b) /\ ((InWindow(a) /\ ~blank) \/ ~SameOpen(a, b) => InWindow(b))

LEMMA HandlesClicks == ASSUME NEW a, NEW b, Handles(a, b), NEW blank PROVE Clicks(a, b, blank)
BY DEF Handles, Clicks

LEMMA FindingHitIsThere ==
  ASSUME NEW a, Settled(a), a.mode.kind = "findings", NEW line \in Nat, FindingHit(a, line) # NoEntry
  PROVE  LET hit == FindingHit(a, line)
         IN  /\ hit \in 1 .. Len(a.entries)
             /\ hit + Cardinality({r \in Rules(a.entries) : r <= hit})
                  = a.mode.scroll + Cardinality({r \in Rules(a.entries) : r <= a.mode.scroll}) + line
<1> DEFINE n == Len(a.entries)
           rules == Rules(a.entries)
           from == a.mode.scroll
           up(i) == Cardinality({r \in rules : r <= i})
           spot == FindingsSkip(from, rules) + line
           there == {i \in 1 .. n : i - 1 + up(i) = spot}
           hit == FindingHit(a, line)
<1>1. a.mode.scroll \in Nat \ {0} /\ n \in Nat /\ rules \subseteq 1 .. n
  BY FindingsAreThere, RulesAreThere
<1>2. hit = IF there = {} THEN NoEntry ELSE CHOOSE i \in there : TRUE
  BY DEF FindingHit, FindingsEntryAtLine
<1>3. hit \in there
  BY <1>2
<1>4. hit \in 1 .. n /\ hit - 1 + up(hit) = from - 1 + up(from) + line
  BY <1>3 DEF FindingsSkip
<1>5. \A i \in Nat : up(i) \in Nat
  <2> SUFFICES ASSUME NEW i \in Nat PROVE up(i) \in Nat
    OBVIOUS
  <2>1. {r \in rules : r <= i} \in SUBSET (1 .. n)
    BY <1>1
  <2>2. IsFiniteSet({r \in rules : r <= i})
    BY <1>1, <2>1, FinitePlaces
  <2> QED BY <2>2, FS_CardinalityType
<1> HIDE DEF hit, up, rules, n
<1>6. hit \in Nat /\ up(hit) \in Nat /\ up(from) \in Nat
  BY <1>1, <1>4, <1>5
<1>7. hit + up(hit) = from + up(from) + line
  BY <1>1, <1>4, <1>6
<1> QED BY <1>4, <1>7 DEF hit, up, rules, n

LEMMA ClickFindingsClicks ==
  ASSUME NEW a, Settled(a), a.mode.kind = "findings", NEW line \in Nat
  PROVE  Clicks(a, ClickFindings(a, line), line >= FindingsShown(a))
<1> DEFINE hit == FindingHit(a, line)
           m == a.mode
           n == Len(a.entries)
           rules == Rules(a.entries)
           to == [m EXCEPT !.selected = hit]
           b == [a EXCEPT !.mode = to]
<1>1. DOMAIN m = {"kind", "selected", "scroll", "confirming"} /\ m.selected \in 1 .. n /\ m.scroll \in Nat \ {0}
      /\ n \in Nat \ {0} /\ rules \subseteq 1 .. n /\ FindingsShown(a) \in Nat
  BY FindingsAreThere, RulesAreThere, SettledIsCounted
<1>2. CASE hit = NoEntry
  <2>1. ClickFindings(a, line) = a
    BY <1>2 DEF ClickFindings
  <2> QED BY <2>1, HandlesItself, HandlesClicks
<1>3. CASE hit # NoEntry /\ hit = m.selected
  <2>1. ClickFindings(a, line) = GoToFinding(a)
    BY <1>3 DEF ClickFindings
  <2> QED BY <2>1, GoToFindingHandles, HandlesClicks
<1>4. CASE hit # NoEntry /\ hit # m.selected
  <2>1. ClickFindings(a, line) = b
    BY <1>4 DEF ClickFindings, Settled, AppFields
  <2>2. hit \in 1 .. n /\ Place(rules, hit) = Place(rules, m.scroll) + line
    BY <1>4, FindingHitIsThere DEF Place
  <2>3. DOMAIN to = DOMAIN m /\ to.kind = "findings" /\ to.selected = hit /\ to.scroll = m.scroll
    BY <1>1
  <2> HIDE DEF to, hit
  <2>4. ListOK(to, a.entries)
    BY <1>1, <2>2, <2>3 DEF ListOK
  <2>5. Under(m) = m /\ Under(to) = to
    BY <2>3 DEF Under
  <2>6. Apart(a, b) /\ b.mode = to
    BY OpensApart DEF Settled
  <2>7. Settled(b)
    BY <2>4, <2>5, <2>6, BesideIsOK DEF Settled, Apart, Reads
  <2>8. SameOpen(a, b)
    BY <2>3, <2>5, <2>6 DEF SameOpen
  <2>9. ASSUME InWindow(a), line < FindingsShown(a) PROVE InWindow(b)
    <3>1. m.scroll <= m.selected
      BY <2>5, <2>9 DEF InWindow, Windowed
    <3>2. m.scroll \in 1 .. n /\ m.scroll \in 0 .. n /\ hit \in 0 .. n
      BY <1>1, <2>2, <3>1
    <3>3. Place(rules, hit) \in Nat /\ Place(rules, m.scroll) \in Nat
      <4>1. \A i \in 0 .. n : Place(rules, i) \in Nat
        <5> HIDE DEF n, rules
        <5>1. n \in Nat
          BY <1>1
        <5> QED BY <1>1, <5>1, RulesAreCounted
      <4> HIDE DEF n, rules
      <4> QED BY <3>2, <4>1
    <3>4. m.scroll <= hit
      <4>1. hit <= m.scroll => Place(rules, m.scroll) - Place(rules, hit) >= m.scroll - hit
        BY <1>1, <3>2, RulesAreCounted
      <4> QED BY <2>2, <3>2, <3>3, <4>1
    <3>5. Place(rules, hit) - Place(rules, m.scroll)
            = hit - m.scroll + Cardinality({r \in rules : m.scroll < r /\ r <= hit})
      <4>1. \A i, j \in 0 .. n : i <= j =>
               Place(rules, j) - Place(rules, i) = j - i + Cardinality({r \in rules : i < r /\ r <= j})
        <5> HIDE DEF n, rules
        <5>1. n \in Nat
          BY <1>1
        <5> QED BY <1>1, <5>1, RulesAreBetween DEF RulesIn
      <4> HIDE DEF n, rules
      <4> QED BY <3>2, <3>4, <4>1
    <3> DEFINE c == Cardinality({r \in rules : m.scroll < r /\ r <= hit})
    <3>6. c \in Nat
      <4>1. {r \in rules : m.scroll < r /\ r <= hit} \in SUBSET (1 .. n)
        BY <1>1
      <4>2. IsFiniteSet({r \in rules : m.scroll < r /\ r <= hit})
        BY <1>1, <4>1, FinitePlaces
      <4> QED BY <4>2, FS_CardinalityType
    <3> HIDE DEF c
    <3>7. hit - m.scroll + c = line
      BY <2>2, <3>2, <3>3, <3>5, <3>6 DEF c
    <3>8. hit + 1 - m.scroll + c <= Most(FindingsShown(a), 1)
      BY <1>1, <2>9, <3>2, <3>6, <3>7 DEF Most
    <3>9. Windowed(a, to)
      BY <2>3, <3>4, <3>8 DEF Windowed, c
    <3>10. FindingsShown(b) = FindingsShown(a) /\ b.entries = a.entries
      BY <2>6 DEF Apart, Beside, SameScreen, FindingsShown
    <3>11. Windowed(b, to)
      BY <2>3, <3>9, <3>10 DEF Windowed
    <3> QED BY <2>5, <2>6, <3>11 DEF InWindow
  <2> HIDE DEF b
  <2>10. ~(line >= FindingsShown(a)) => line < FindingsShown(a)
    BY <1>1
  <2> QED BY <2>1, <2>7, <2>8, <2>9, <2>10 DEF Clicks
<1> QED BY <1>2, <1>3, <1>4

-----------------------------------------------------------------------------
(* The search *)

LEMMA SearchIsThere ==
  ASSUME NEW a, Settled(a), a.mode.kind = "search"
  PROVE  /\ DOMAIN a.mode = {"kind", "query", "selected", "scroll"} /\ a.mode.query \in DOMAIN Hits
         /\ Hits[a.mode.query] \in Nat /\ SearchShown(a) \in Nat
         /\ a.mode.selected \in 1 .. Most(Hits[a.mode.query], 1) /\ a.mode.selected \in Nat \ {0}
         /\ a.mode.scroll \in Nat \ {0}
<1>1. DOMAIN a.mode = {"kind", "query", "selected", "scroll"} /\ a.mode.query \in DOMAIN Hits
      /\ a.mode.selected \in 1 .. Most(Hits[a.mode.query], 1) /\ a.mode.scroll \in Nat \ {0}
  BY DEF Settled, ListOK, Under
<1>2. Hits[a.mode.query] \in Nat
  BY <1>1, ModalsAssumption DEF ModalsAssumption
<1>3. a.mode.selected \in Nat \ {0}
  BY <1>1, <1>2 DEF Most
<1> QED BY <1>1, <1>2, <1>3, SettledIsCounted

\* A search on one of its hits, the list scrolled to it.
LEMMA SearchedHandles ==
  ASSUME NEW a, Settled(a), NEW m, DOMAIN m = {"kind", "query", "selected", "scroll"}, m.kind = "search",
         m.query \in DOMAIN Hits, m.selected \in 1 .. Most(Hits[m.query], 1), m.scroll \in Nat \ {0},
         Within(m, SearchShown(a))
  PROVE  Handles(a, [a EXCEPT !.mode = m])
<1>1. ListOK(m, a.entries) /\ Windowed(a, m)
  BY DEF ListOK, Windowed
<1> QED BY <1>1, ListHandles

LEMMA OpenSearchHandles == ASSUME NEW a, Settled(a) PROVE Handles(a, OpenSearch(a))
<1> DEFINE q == a.last.query
           hit == Max({Min({a.last.hit, Hits[q]}), 1})
           from == Follow(hit, 1, SearchShown(a))
           m == [Searched(q) EXCEPT !.selected = hit, !.scroll = from]
<1>1. q \in DOMAIN Hits /\ a.last.hit \in Nat \ {0}
  BY DEF Settled, Reads
<1>2. Hits[q] \in Nat /\ SearchShown(a) \in Nat
  BY <1>1, ModalsAssumption, SettledIsCounted DEF ModalsAssumption
<1>3. hit \in 1 .. Most(Hits[q], 1) /\ hit \in Nat \ {0}
  <2> DEFINE low == Min({a.last.hit, Hits[q]})
  <2>1. low = IF a.last.hit <= Hits[q] THEN a.last.hit ELSE Hits[q]
    BY <1>1, <1>2, MinOfTwo
  <2>2. low \in Nat /\ low <= Hits[q]
    BY <1>1, <1>2, <2>1
  <2> HIDE DEF low
  <2>3. Max({low, 1}) = IF low >= 1 THEN low ELSE 1
    BY <2>2, MaxOfTwo
  <2>4. Max({low, 1}) \in 1 .. Most(Hits[q], 1)
    BY <1>2, <2>2, <2>3 DEF Most
  <2>5. Max({low, 1}) \in Nat \ {0}
    BY <2>2, <2>3
  <2> QED BY <2>4, <2>5 DEF low
<1> HIDE DEF hit
<1>4. from \in 1 .. hit /\ hit < from + Most(SearchShown(a), 1)
  BY <1>2, <1>3, FollowKeeps
<1> HIDE DEF from
<1>5. m.kind = "search" /\ DOMAIN m = {"kind", "query", "selected", "scroll"} /\ m.query = q
      /\ m.selected = hit /\ m.scroll = from
  BY DEF Searched
<1>6. OpenSearch(a) = [a EXCEPT !.mode = m]
  BY DEF OpenSearch, hit, from
<1> HIDE DEF m
<1>7. from \in Nat \ {0} /\ from <= hit
  BY <1>3, <1>4
<1>8. Within(m, SearchShown(a))
  BY <1>4, <1>5, <1>7 DEF Within
<1>9. Handles(a, [a EXCEPT !.mode = m])
  BY <1>1, <1>3, <1>5, <1>7, <1>8, SearchedHandles
<1> QED BY <1>6, <1>9

\* It closes on the query and the hit it comes back to.
LEMMA CloseSearchHandles ==
  ASSUME NEW a, Settled(a), a.mode.kind = "search"
  PROVE  Handles(a, CloseSearch(a)) /\ CloseSearch(a).mode = Normal
<1> DEFINE b == CloseSearch(a)
<1>1. DOMAIN a = AppFields
  BY DEF Settled
<1>2. DOMAIN b = AppFields /\ b.mode = Normal /\ Beside(a, b) /\ b.entries = a.entries
      /\ b.last = [query |-> a.mode.query, hit |-> a.mode.selected]
  BY <1>1 DEF AppFields, CloseSearch, BackToReview, Beside, SameScreen
<1> HIDE DEF b
<1>3. b.last.query \in DOMAIN Hits /\ b.last.hit \in Nat \ {0}
  BY <1>2, SearchIsThere
<1>4. Under(b.mode) = Normal
  BY <1>2 DEF Under, Normal
<1>5. ListOK(Normal, b.entries) /\ Windowed(b, Normal)
  BY DEF ListOK, Windowed, Normal
<1>6. PanesOK(b)
  BY <1>2, BesideIsOK DEF Settled
<1>7. Settled(b)
  BY <1>2, <1>3, <1>4, <1>5, <1>6 DEF Settled, Reads
<1>8. InWindow(b)
  BY <1>4, <1>5 DEF InWindow
<1> QED BY <1>2, <1>7, <1>8 DEF Handles, b

LEMMA SearchJumpHandles ==
  ASSUME NEW a, Settled(a), a.mode.kind = "search"
  PROVE  Handles(a, SearchJump(a))
<1> DEFINE b == CloseSearch(a)
<1>1. CASE Hits[a.mode.query] = 0
  BY <1>1, HandlesItself DEF SearchJump
<1>2. CASE Hits[a.mode.query] # 0
  <2>1. Handles(a, b) /\ Settled(b)
    BY CloseSearchHandles DEF Handles
  <2>2. SearchJump(a) = Land(b, Landing)
    BY <1>2 DEF SearchJump
  <2> HIDE DEF b
  <2>3. Sees(b, Land(b, Landing))
    BY <2>1, LandingIsThere, LandSees, LandStays, StaysSees DEF Settled
  <2>4. Handles(b, Land(b, Landing))
    BY <2>1, <2>3, SeesHandles
  <2> QED BY <2>1, <2>2, <2>4, HandlesTwice
<1> QED BY <1>1, <1>2

LEMMA SearchStepHandles ==
  ASSUME NEW a, Settled(a), a.mode.kind = "search", NEW down
  PROVE  Handles(a, SearchStep(a, down))
<1> DEFINE m == a.mode
           n == Hits[m.query]
           to == Step(m, n, SearchShown(a), down)
<1>1. DOMAIN m = {"kind", "query", "selected", "scroll"} /\ m.query \in DOMAIN Hits /\ n \in Nat
      /\ SearchShown(a) \in Nat /\ m.selected \in 1 .. Most(n, 1) /\ m.scroll \in Nat \ {0}
  BY SearchIsThere
<1>2. DOMAIN to = DOMAIN m /\ to.kind = "search" /\ to.query = m.query /\ to.selected \in 1 .. Most(n, 1)
      /\ to.scroll \in Nat \ {0} /\ Within(to, SearchShown(a))
  BY <1>1, StepIsWithin
<1>3. SearchStep(a, down) = [a EXCEPT !.mode = to]
  BY DEF SearchStep, Settled, AppFields
<1> HIDE DEF to
<1>4. Handles(a, [a EXCEPT !.mode = to])
  BY <1>1, <1>2, SearchedHandles
<1> QED BY <1>3, <1>4

LEMMA SearchTypesHandles ==
  ASSUME NEW a, Settled(a), NEW query \in DOMAIN Hits
  PROVE  Handles(a, SearchTypes(a, query))
<1> DEFINE m == Searched(query)
<1>1. DOMAIN m = {"kind", "query", "selected", "scroll"} /\ m.kind = "search" /\ m.query = query
      /\ m.selected = 1 /\ m.scroll = 1
  BY DEF Searched
<1> HIDE DEF m
<1>2. SearchShown(a) \in Nat /\ Hits[query] \in Nat
  BY SettledIsCounted, ModalsAssumption DEF ModalsAssumption
<1>3. 1 \in 1 .. Most(Hits[query], 1) /\ Within(m, SearchShown(a))
  BY <1>1, <1>2 DEF Within, Most
<1>4. Handles(a, [a EXCEPT !.mode = m])
  BY <1>1, <1>3, SearchedHandles
<1> QED BY <1>4 DEF SearchTypes, m

LEMMA SearchKeyHandles ==
  ASSUME NEW a, Settled(a), a.mode.kind = "search", NEW key
  PROVE  Handles(a, SearchKey(a, key))
<1>1. SearchKey(a, key) \in {CloseSearch(a), SearchJump(a), SearchStep(a, TRUE), SearchStep(a, FALSE), a}
  BY DEF SearchKey
<1> QED BY <1>1, CloseSearchHandles, SearchJumpHandles, SearchStepHandles, HandlesItself

LEMMA ClickSearchHandles ==
  ASSUME NEW a, Settled(a), a.mode.kind = "search", NEW line \in Int
  PROVE  Handles(a, ClickSearch(a, line))
<1> DEFINE m == a.mode
           n == Hits[m.query]
           hit == SearchHit(a, line)
           from == Follow(hit, m.scroll, SearchShown(a))
           to == [m EXCEPT !.selected = hit, !.scroll = from]
<1>1. DOMAIN m = {"kind", "query", "selected", "scroll"} /\ m.query \in DOMAIN Hits /\ n \in Nat
      /\ SearchShown(a) \in Nat /\ m.scroll \in Nat \ {0}
  BY SearchIsThere
<1>2. CASE hit = NoEntry
  <2>1. ClickSearch(a, line) = a
    BY <1>2 DEF ClickSearch
  <2> QED BY <2>1, HandlesItself
<1>3. CASE hit # NoEntry /\ hit = m.selected
  <2>1. ClickSearch(a, line) = SearchJump(a)
    BY <1>3 DEF ClickSearch
  <2> QED BY <2>1, SearchJumpHandles
<1>4. CASE hit # NoEntry /\ hit # m.selected
  <2>1. hit \in Nat \ {0} /\ hit <= n
    BY <1>1, <1>4 DEF SearchHit, NoEntry
  <2>2. ClickSearch(a, line) = [a EXCEPT !.mode = to]
    BY <1>4 DEF ClickSearch, Settled, AppFields
  <2>3. DOMAIN to = DOMAIN m /\ to.kind = "search" /\ to.query = m.query /\ to.selected = hit /\ to.scroll = from
    BY <1>1
  <2> HIDE DEF to, hit
  <2>4. from \in 1 .. hit /\ hit < from + Most(SearchShown(a), 1)
    BY <1>1, <2>1, FollowKeeps
  <2> HIDE DEF from
  <2>5. from \in Nat \ {0} /\ from <= hit
    BY <2>1, <2>4
  <2>6. hit \in 1 .. Most(n, 1) /\ Within(to, SearchShown(a))
    BY <1>1, <2>1, <2>3, <2>4, <2>5 DEF Within, Most
  <2>7. Handles(a, [a EXCEPT !.mode = to])
    BY <1>1, <2>3, <2>5, <2>6, SearchedHandles
  <2> QED BY <2>2, <2>7
<1> QED BY <1>2, <1>3, <1>4

-----------------------------------------------------------------------------
(* The command line, help, a question *)

LEMMA KindStays ==
  ASSUME NEW a, Settled(a), NEW m, m.kind = a.mode.kind, m.kind \notin Lists_open \cup {"help"}
  PROVE  Handles(a, [a EXCEPT !.mode = m])
BY PlainHandles

LEMMA CommandTypesHandles ==
  ASSUME NEW a, Settled(a), "kind" \in DOMAIN a.mode, a.mode.kind = "command", NEW text
  PROVE  Handles(a, CommandTypes(a, text))
<1> DEFINE m == [a.mode EXCEPT !.typed = text, !.line = text, !.pick = 0]
<1>1. m.kind = "command"
  OBVIOUS
<1>2. CommandTypes(a, text) = [a EXCEPT !.mode = m]
  BY DEF CommandTypes, Settled, AppFields
<1> HIDE DEF m
<1> QED BY <1>1, <1>2, KindStays DEF Lists_open

LEMMA WalkHandles ==
  ASSUME NEW a, Settled(a), "kind" \in DOMAIN a.mode, a.mode.kind = "command", NEW by
  PROVE  Handles(a, Walk(a, by))
<1> DEFINE found == Completes[a.mode.typed]
           next == IF a.mode.pick = 0 THEN IF by > 0 THEN 1 ELSE Len(found)
                   ELSE ((a.mode.pick - 1 + by) % Len(found)) + 1
           m == [a.mode EXCEPT !.pick = next, !.line = found[next]]
<1>1. CASE found = <<>>
  <2>1. Walk(a, by) = a
    BY <1>1 DEF Walk
  <2> QED BY <2>1, HandlesItself
<1>2. CASE found # <<>>
  <2>1. Walk(a, by) = [a EXCEPT !.mode.pick = next, !.mode.line = found[next]]
    BY <1>2 DEF Walk
  <2> HIDE DEF next, found
  <2>2. Walk(a, by) = [a EXCEPT !.mode = m]
    BY <2>1 DEF Settled, AppFields
  <2>3. m.kind = "command"
    OBVIOUS
  <2> HIDE DEF m
  <2> QED BY <2>2, <2>3, KindStays DEF Lists_open
<1> QED BY <1>1, <1>2

LEMMA OpenCommandHandles == ASSUME NEW a, Settled(a) PROVE Handles(a, OpenCommand(a))
<1> DEFINE m == [kind |-> "command", typed |-> "", line |-> "", pick |-> 0]
<1>1. m.kind \notin Lists_open \cup {"help"}
  BY DEF Lists_open
<1> QED BY <1>1, PlainHandles DEF OpenCommand

LEMMA ToQuitHandles == ASSUME NEW a, Settled(a) PROVE Handles(a, ToQuit(a))
<1>1. [kind |-> "quit"].kind \notin Lists_open \cup {"help"}
  BY DEF Lists_open
<1> QED BY <1>1, PlainHandles DEF ToQuit

LEMMA ComposerHandles == ASSUME NEW a, Settled(a) PROVE Handles(a, [a EXCEPT !.mode = Composer])
<1>1. Composer.kind \notin Lists_open \cup {"help"}
  BY DEF Lists_open, Composer
<1> QED BY <1>1, PlainHandles

LEMMA OfferPublishHandles == ASSUME NEW a, Settled(a) PROVE Handles(a, OfferPublish(a))
BY QuestionHandles, HandlesItself DEF OfferPublish

LEMMA StartFetchHandles == ASSUME NEW a, Settled(a) PROVE Handles(a, StartFetch(a))
<1> DEFINE b == StartFetch(a)
<1>1. SameOver(a, b) /\ Beside(a, b)
  BY DEF Settled, AppFields, StartFetch, SameOver, Beside, SameScreen
<1> HIDE DEF b
<1>2. Sees(a, b)
  BY <1>1, BesideSees DEF Settled
<1> QED BY <1>2, SeesHandles DEF b

\* Help is over what it was opened over, which waits as it was.
LEMMA OpenHelpHandles ==
  ASSUME NEW a, Settled(a), a.mode.kind \in Screened
  PROVE  Handles(a, OpenHelp(a))
<1> DEFINE m == [kind |-> "help", from |-> a.mode]
           b == [a EXCEPT !.mode = m]
<1>1. Apart(a, b) /\ b.mode = m
  BY OpensApart DEF Settled
<1>2. Under(a.mode) = a.mode /\ Under(m) = a.mode
  BY DEF Under, Screened
<1> HIDE DEF b
<1>3. Under(b.mode) = Under(a.mode)
  BY <1>1, <1>2
<1>4. ListOK(Under(b.mode), a.entries)
  BY <1>3 DEF Settled
<1>5. InWindow(a) => Windowed(a, Under(b.mode))
  BY <1>3 DEF InWindow
<1>6. Handles(a, b)
  BY <1>1, <1>3, <1>4, <1>5, ApartHandles
<1> QED BY <1>6 DEF OpenHelp, b

LEMMA LeaveHelpHandles ==
  ASSUME NEW a, Settled(a), a.mode.kind = "help", a.mode.from.kind \in Screened
  PROVE  Handles(a, [a EXCEPT !.mode = a.mode.from])
<1> DEFINE m == a.mode.from
           b == [a EXCEPT !.mode = m]
<1>1. Apart(a, b) /\ b.mode = m
  BY OpensApart DEF Settled
<1>2. Under(a.mode) = m /\ Under(m) = m
  BY DEF Under, Screened
<1> HIDE DEF b
<1>3. Under(b.mode) = Under(a.mode)
  BY <1>1, <1>2
<1>4. ListOK(Under(b.mode), a.entries)
  BY <1>3 DEF Settled
<1>5. InWindow(a) => Windowed(a, Under(b.mode))
  BY <1>3 DEF InWindow
<1>6. Handles(a, b)
  BY <1>1, <1>3, <1>4, <1>5, ApartHandles
<1> QED BY <1>6 DEF b

-----------------------------------------------------------------------------
(* `:config`, its selection in the rows its notes leave *)

LEMMA EditIsCounted ==
  ASSUME NEW user, NEW e, EditOK(e, user), NEW box, box.w \in Nat, box.h \in Nat
  PROVE  /\ e.problems \in Nat /\ EditRows(e, box) \in Nat
         /\ e.selected \in 1 .. Len(Fields) /\ e.selected \in Nat \ {0} /\ DOMAIN e = EditFields
<1>1. e.problems \in Nat
  BY KeysAreATable, FaultsAreCounted DEF EditOK, DraftOK
<1>2. e.selected \in 1 .. Len(Fields) /\ DOMAIN e = EditFields
  BY DEF EditOK, DraftOK
<1> QED BY <1>1, <1>2, ConfigIsCounted, FieldsAre

\* Every row that is selected is brought into the rows there are.
LEMMA SelectedIsSeen ==
  ASSUME NEW e, DOMAIN e = EditFields, e.kind = "config", e.scroll \in Nat \ {0}, NEW to \in Int, NEW rows \in Nat
  PROVE  LET s == Selected(e, to, rows)
         IN  /\ DOMAIN s = EditFields /\ s.kind = "config" /\ s.scroll \in Nat \ {0} /\ Within(s, rows)
             /\ s.problems = e.problems /\ s.error = e.error
<1> DEFINE spot == Held(to, 1, Len(Fields))
           from == Follow(spot, e.scroll, rows)
           s == [e EXCEPT !.selected = spot, !.scroll = from]
<1>1. spot \in 1 .. Len(Fields)
  BY FieldsAre, HeldIsThere
<1> HIDE DEF spot
<1>a. spot \in Nat \ {0}
  BY <1>1, FieldsAre
<1>2. from \in 1 .. spot /\ spot < from + Most(rows, 1)
  BY <1>a, FollowKeeps
<1>3. from \in Nat \ {0} /\ from <= spot
  BY <1>a, <1>2
<1> HIDE DEF from
<1>4. DOMAIN s = EditFields /\ s.kind = "config" /\ s.scroll = from /\ s.selected = spot
      /\ s.problems = e.problems /\ s.error = e.error
  BY DEF EditFields
<1>5. Selected(e, to, rows) = s
  BY DEF Selected, spot, from
<1> HIDE DEF s
<1>6. Within(s, rows)
  BY <1>2, <1>3, <1>4 DEF Within
<1> QED BY <1>3, <1>4, <1>5, <1>6

\* The rows hang on the notes alone.
LEMMA SameRows ==
  ASSUME NEW e, NEW s, s.problems = e.problems, s.error = e.error, NEW box
  PROVE  EditRows(s, box) = EditRows(e, box) /\ ConfigNotes(s, box) = ConfigNotes(e, box)
<1>1. ConfigNotes(s, box) = ConfigNotes(e, box)
  BY Zenon DEF ConfigNotes
<1> QED BY <1>1 DEF EditRows

\* What a key of the modal leaves: it, with its scroll on a row, or the review.
Edits(a, b) ==
  /\ Apart(a, b) /\ b.mode.kind \in {"config", "normal"}
  /\ b.mode.kind = "config" => b.mode.scroll \in Nat \ {0}

LEMMA EditsItself ==
  ASSUME NEW a, Settled(a), a.mode.kind = "config"
  PROVE  Edits(a, a) /\ a.mode.scroll \in Nat \ {0}
<1>1. a.mode.scroll \in Nat \ {0}
  BY DEF Settled, ListOK, Under
<1>2. Apart(a, a)
  BY DEF Settled, Apart, Beside, SameScreen
<1> QED BY <1>1, <1>2 DEF Edits

LEMMA PreviewedEdits ==
  ASSUME NEW a, Settled(a), NEW e, e.kind = "config", e.scroll \in Nat \ {0}
  PROVE  Edits(a, Previewed(a, e))
<1> DEFINE b == Previewed(a, e)
<1>1. Apart(a, b) /\ b.mode = e
  BY DEF Settled, AppFields, Previewed, Shows, Apart, Beside, SameScreen
<1> HIDE DEF b
<1> QED BY <1>1 DEF Edits, b

LEMMA ClosesEdits ==
  ASSUME NEW a, Settled(a), a.mode.kind = "config"
  PROVE  Edits(a, DiscardConfig(a)) /\ Edits(a, SaveConfig(a))
<1>1. Edits(a, DiscardConfig(a))
  <2> DEFINE b == DiscardConfig(a)
  <2>1. Apart(a, b) /\ b.mode = [kind |-> "normal"]
    BY DEF Settled, AppFields, DiscardConfig, Shows, Apart, Beside, SameScreen
  <2> HIDE DEF b
  <2> QED BY <2>1 DEF Edits, b
<1>2. Edits(a, Saved(a, a.mode.draft))
  <2> DEFINE b == Saved(a, a.mode.draft)
  <2>1. Apart(a, b) /\ b.mode = [kind |-> "normal"]
    BY DEF Settled, AppFields, Saved, Shows, Apart, Beside, SameScreen
  <2> HIDE DEF b
  <2> QED BY <2>1 DEF Edits, b
<1> QED BY <1>1, <1>2, EditsItself DEF SaveConfig

LEMMA ListKeyEdits ==
  ASSUME NEW a, AppOK(a), Settled(a), NEW e, e = a.mode, e.kind = "config", NEW key
  PROVE  Edits(a, ListKey(a, e, key))
<1>1. DOMAIN e = EditFields /\ e.scroll \in Nat \ {0}
  BY EditsItself DEF AppOK, ModeOK, EditOK, DraftOK
<1>2. ASSUME NEW i PROVE Edits(a, Previewed(a, Choosing(e, i)))
  <2> DEFINE to == Choosing(e, i)
  <2>1. to.kind = "config" /\ to.scroll = e.scroll
    BY <1>1 DEF Choosing, EditFields
  <2> HIDE DEF to
  <2> QED BY <1>1, <2>1, PreviewedEdits DEF to
<1>3. Edits(a, Previewed(a, Chose(e)))
  <2> DEFINE to == Chose(e)
  <2>1. to.kind = "config" /\ to.scroll = e.scroll
    BY <1>1 DEF Chose, EditFields
  <2> HIDE DEF to
  <2> QED BY <1>1, <2>1, PreviewedEdits DEF to
<1>4. Edits(a, Previewed(a, PutBack(e)))
  <2> DEFINE to == PutBack(e)
  <2>1. to.kind = "config" /\ to.scroll = e.scroll
    BY <1>1 DEF PutBack, EditFields
  <2> HIDE DEF to
  <2> QED BY <1>1, <2>1, PreviewedEdits DEF to
<1>5. \/ \E i : ListKey(a, e, key) = Previewed(a, Choosing(e, i))
      \/ ListKey(a, e, key) = Previewed(a, Chose(e))
      \/ ListKey(a, e, key) = Previewed(a, PutBack(e))
      \/ ListKey(a, e, key) = a
  BY Zenon DEF ListKey
<1> QED BY <1>2, <1>3, <1>4, <1>5, EditsItself

LEMMA TypingKeyEdits ==
  ASSUME NEW a, AppOK(a), Settled(a), NEW e, e = a.mode, e.kind = "config", NEW key
  PROVE  Edits(a, TypingKey(a, e, key))
<1>1. DOMAIN e = EditFields /\ e.scroll \in Nat \ {0}
  BY EditsItself DEF AppOK, ModeOK, EditOK, DraftOK
<1>2. ASSUME NEW b, NEW to, b = [a EXCEPT !.mode = to], to.kind = "config", to.scroll = e.scroll PROVE Edits(a, b)
  <2>1. Apart(a, b) /\ b.mode = to
    BY <1>2, OpensApart DEF Settled
  <2> QED BY <1>1, <1>2, <2>1 DEF Edits
<1>3. CASE key = "esc"
  <2> DEFINE to == [e EXCEPT !.typing = <<>>, !.error = FALSE]
  <2>1. TypingKey(a, e, key) = [a EXCEPT !.mode = to]
    BY <1>3 DEF TypingKey, Settled, AppFields
  <2>2. to.kind = "config" /\ to.scroll = e.scroll
    BY <1>1 DEF EditFields
  <2> HIDE DEF to
  <2> QED BY <1>2, <2>1, <2>2
<1>4. CASE key = "enter" /\ Slips(FieldOf(e), e.typing[1])
  <2> DEFINE to == [e EXCEPT !.error = TRUE]
  <2>1. TypingKey(a, e, key) = [a EXCEPT !.mode = to]
    BY <1>4 DEF TypingKey, Settled, AppFields
  <2>2. to.kind = "config" /\ to.scroll = e.scroll
    BY <1>1 DEF EditFields
  <2> HIDE DEF to
  <2> QED BY <1>2, <2>1, <2>2
<1>5. CASE key = "enter" /\ ~Slips(FieldOf(e), e.typing[1])
  <2> DEFINE to == Entered(e, e.typing[1])
  <2>1. TypingKey(a, e, key) = Previewed(a, to)
    BY <1>5, Zenon DEF TypingKey
  <2>2. to.kind = "config" /\ to.scroll = e.scroll
    BY <1>1 DEF Entered, Validated, EditFields
  <2> HIDE DEF to
  <2> QED BY <1>1, <2>1, <2>2, PreviewedEdits
<1>6. CASE key \notin {"esc", "enter"}
  <2>1. TypingKey(a, e, key) = a
    BY <1>6 DEF TypingKey
  <2> QED BY <2>1, EditsItself
<1> QED BY <1>3, <1>4, <1>5, <1>6, Zenon

LEMMA MovingEdits ==
  ASSUME NEW e, DOMAIN e = EditFields, e.kind = "config", e.scroll \in Nat \ {0}, e.selected \in Int,
         NEW key \in MovingKeys, NEW rows \in Nat
  PROVE  LET to == Moving(e, key, rows)
         IN  DOMAIN to = EditFields /\ to.kind = "config" /\ to.scroll \in Nat \ {0}
<1> DEFINE Good(to) == DOMAIN to = EditFields /\ to.kind = "config" /\ to.scroll \in Nat \ {0}
<1>1. ASSUME NEW spot \in Int PROVE Good(Selected(e, spot, rows))
  BY SelectedIsSeen
<1>2. ASSUME NEW d PROVE Good([e EXCEPT !.draft = d])
  BY DEF EditFields
<1>3. Good(Begun(e))
  BY DEF Begun, EditFields
<1>4. e.selected + 1 \in Int /\ e.selected - 1 \in Int /\ 1 \in Int /\ Len(Fields) \in Int
  BY FieldsAre
<1>5. CASE key \in {"j", "down"}
  BY <1>1, <1>4, <1>5 DEF Moving
<1>6. CASE key \in {"k", "up"}
  BY <1>1, <1>4, <1>6 DEF Moving
<1>7. CASE key = "g"
  BY <1>1, <1>4, <1>7 DEF Moving
<1>8. CASE key = "G"
  BY <1>1, <1>4, <1>8 DEF Moving
<1>9. CASE key \in {"l", "right", "h", "left"}
  <2>1. \E d : Moving(e, key, rows) = [e EXCEPT !.draft = d]
    BY <1>9 DEF Moving
  <2> QED BY <1>2, <2>1
<1>10. CASE key \in {"enter", "space"}
  <2>1. Moving(e, key, rows) = Begun(e)
    BY <1>10 DEF Moving
  <2> QED BY <1>3, <2>1
<1>11. CASE key = "r"
  <2>1. Moving(e, key, rows) = [e EXCEPT !.draft = [e.draft EXCEPT ![FieldOf(e)] = Default[FieldOf(e)]]]
    BY <1>11 DEF Moving
  <2> QED BY <1>2, <2>1
<1> QED BY <1>5, <1>6, <1>7, <1>8, <1>9, <1>10, <1>11 DEF MovingKeys

LEMMA RowKeyEdits ==
  ASSUME NEW a, AppOK(a), Settled(a), NEW e, e = a.mode, e.kind = "config", NEW key
  PROVE  Edits(a, RowKey(a, e, key))
<1>1. EditOK(e, a.user) /\ a.area.w \in Nat /\ a.area.h \in Nat
  BY SettledIsCounted DEF AppOK, ModeOK
<1>2. DOMAIN e = EditFields /\ e.scroll \in Nat \ {0} /\ EditRows(e, a.area) \in Nat /\ e.selected \in Int
  BY <1>1, EditIsCounted, EditsItself
<1>3. CASE key \in MovingKeys
  <2> DEFINE to == Moving(e, key, EditRows(e, a.area))
  <2>1. DOMAIN to = EditFields /\ to.kind = "config" /\ to.scroll \in Nat \ {0}
    BY <1>2, <1>3, MovingEdits
  <2>2. key # "ctrl-s" /\ key \notin {"esc", "q"}
    BY <1>3 DEF MovingKeys
  <2>3. RowKey(a, e, key) = Previewed(a, Validated(to))
    BY <1>3, <2>2, Zenon DEF RowKey
  <2> HIDE DEF to
  <2>4. Validated(to).kind = "config" /\ Validated(to).scroll = to.scroll
    BY <2>1 DEF Validated, EditFields
  <2> QED BY <2>1, <2>3, <2>4, PreviewedEdits
<1>4. CASE key \notin MovingKeys
  <2>1. RowKey(a, e, key) \in {SaveConfig(a), DiscardConfig(a), a}
    BY <1>4 DEF RowKey
  <2> QED BY <2>1, ClosesEdits, EditsItself
<1> QED BY <1>3, <1>4

LEMMA KeyInsideEdits ==
  ASSUME NEW a, AppOK(a), Settled(a), a.mode.kind = "config", NEW key
  PROVE  Edits(a, KeyInside(a, a.mode, key)) /\ AppOK(KeyInside(a, a.mode, key))
<1> DEFINE e == a.mode
<1>1. CASE e.list # <<>>
  <2>1. KeyInside(a, e, key) = ListKey(a, e, key)
    BY <1>1, Zenon DEF KeyInside
  <2> QED BY <1>1, <2>1, ListKeyEdits, ListKeyIdle DEF Idle, Kept
<1>2. CASE e.list = <<>> /\ e.typing # <<>>
  <2>1. KeyInside(a, e, key) = TypingKey(a, e, key)
    BY <1>2, Zenon DEF KeyInside
  <2> QED BY <1>2, <2>1, TypingKeyEdits, TypingKeyIdle DEF Idle, Kept
<1>3. CASE e.list = <<>> /\ e.typing = <<>>
  <2>1. KeyInside(a, e, key) = RowKey(a, e, key)
    BY <1>3, Zenon DEF KeyInside
  <2> QED BY <1>3, <2>1, RowKeyEdits, RowKeyIdle DEF Idle, Kept
<1> QED BY <1>1, <1>2, <1>3

\* The modal, on a row of those its notes leave it.
LEMMA EditHandles ==
  ASSUME NEW a, Settled(a), NEW b, Apart(a, b), b.mode.kind = "config", b.mode.scroll \in Nat \ {0},
         InWindow(a) \/ Under(a.mode).kind # "config" => Within(b.mode, EditRows(b.mode, a.area))
  PROVE  Handles(a, b)
<1>1. Under(b.mode) = b.mode
  BY DEF Under
<1>2. ListOK(b.mode, a.entries)
  BY DEF ListOK
<1>3. InWindow(a) \/ Under(a.mode).kind # "config" => Windowed(a, b.mode)
  BY DEF Windowed
<1> QED BY <1>1, <1>2, <1>3, ApartHandles

LEMMA ClosedHandles ==
  ASSUME NEW a, Settled(a), NEW b, Apart(a, b), b.mode.kind = "normal"
  PROVE  Handles(a, b)
<1>1. Under(b.mode) = b.mode
  BY DEF Under
<1>2. ListOK(b.mode, a.entries) /\ Windowed(a, b.mode)
  BY DEF ListOK, Windowed
<1> QED BY <1>1, <1>2, ApartHandles

LEMMA ConfigKeyHandles ==
  ASSUME NEW a, AppOK(a), Settled(a), a.mode.kind = "config", NEW key
  PROVE  Handles(a, ConfigKey(a, key))
<1> DEFINE b == KeyInside(a, a.mode, key)
           m == b.mode
           rows == EditRows(m, b.area)
           to == Selected(m, m.selected, rows)
           c == [b EXCEPT !.mode = to]
<1>1. Edits(a, b) /\ AppOK(b)
  BY KeyInsideEdits
<1> HIDE DEF b
<1>2. CASE m.kind = "normal"
  <2>1. ConfigKey(a, key) = b
    BY <1>2 DEF ConfigKey, KeptInView, b
  <2> QED BY <1>1, <1>2, <2>1, ClosedHandles DEF Edits
<1>3. CASE m.kind = "config"
  <2>1. EditOK(m, b.user) /\ b.area = a.area /\ a.area.w \in Nat /\ a.area.h \in Nat /\ m.scroll \in Nat \ {0}
    BY <1>1, <1>3, SettledIsCounted DEF AppOK, ModeOK, Edits, Apart, Beside, SameScreen
  <2>2. DOMAIN m = EditFields /\ rows \in Nat /\ m.selected \in Int
    BY <2>1, EditIsCounted
  <2>3. ConfigKey(a, key) = c
    BY <1>1, <1>3 DEF ConfigKey, KeptInView, b, AppOK, AppFields
  <2>4. DOMAIN to = EditFields /\ to.kind = "config" /\ to.scroll \in Nat \ {0} /\ Within(to, rows)
        /\ to.problems = m.problems /\ to.error = m.error
    BY <1>3, <2>1, <2>2, SelectedIsSeen
  <2>5. EditRows(to, a.area) = rows
    BY <2>1, <2>4, SameRows
  <2> HIDE DEF to, rows
  <2>6. Apart(b, c) /\ c.mode = to
    BY <1>1, OpensApart DEF AppOK
  <2> HIDE DEF c
  <2>7. Apart(a, c)
    BY <1>1, <2>6, ApartTwice DEF Edits
  <2>8. c.mode.kind = "config" /\ c.mode.scroll \in Nat \ {0} /\ Within(c.mode, EditRows(c.mode, a.area))
    BY <2>4, <2>5, <2>6
  <2>9. Handles(a, c)
    BY <2>7, <2>8, EditHandles
  <2> QED BY <2>3, <2>9
<1> QED BY <1>1, <1>2, <1>3 DEF Edits

\* The selection put on a row, by the wheel or a click.
LEMMA SelectedHandles ==
  ASSUME NEW a, AppOK(a), Settled(a), a.mode.kind = "config", NEW to \in Int
  PROVE  Handles(a, [a EXCEPT !.mode = Selected(a.mode, to, EditRows(a.mode, a.area))])
<1> DEFINE m == a.mode
           rows == EditRows(m, a.area)
           s == Selected(m, to, rows)
           b == [a EXCEPT !.mode = s]
<1>1. EditOK(m, a.user) /\ a.area.w \in Nat /\ a.area.h \in Nat /\ m.scroll \in Nat \ {0}
  BY SettledIsCounted, EditsItself DEF AppOK, ModeOK
<1>2. DOMAIN m = EditFields /\ rows \in Nat
  BY <1>1, EditIsCounted
<1>3. DOMAIN s = EditFields /\ s.kind = "config" /\ s.scroll \in Nat \ {0} /\ Within(s, rows)
      /\ s.problems = m.problems /\ s.error = m.error
  BY <1>1, <1>2, SelectedIsSeen
<1>4. EditRows(s, a.area) = rows
  BY <1>3, SameRows
<1> HIDE DEF s, rows
<1>5. Apart(a, b) /\ b.mode = s
  BY OpensApart DEF Settled
<1> HIDE DEF b
<1>6. Handles(a, b)
  BY <1>3, <1>4, <1>5, EditHandles
<1> QED BY <1>6 DEF b, s, rows

LEMMA ConfigTypesHandles ==
  ASSUME NEW a, AppOK(a), Settled(a), a.mode.kind = "config", NEW text
  PROVE  Handles(a, ConfigTypes(a, text))
<1> DEFINE m == a.mode
           s == [m EXCEPT !.typing = <<text>>]
           b == [a EXCEPT !.mode = s]
<1>1. DOMAIN m = EditFields /\ m.scroll \in Nat \ {0}
  BY EditsItself DEF AppOK, ModeOK, EditOK, DraftOK
<1>2. s.kind = "config" /\ s.scroll = m.scroll /\ s.selected = m.selected /\ s.problems = m.problems
      /\ s.error = m.error
  BY <1>1 DEF EditFields
<1>3. ConfigTypes(a, text) = b
  BY DEF ConfigTypes, Settled, AppFields
<1> HIDE DEF s
<1>4. EditRows(s, a.area) = EditRows(m, a.area)
  BY <1>2, SameRows
<1>5. Apart(a, b) /\ b.mode = s
  BY OpensApart DEF Settled
<1> HIDE DEF b
<1>6. Under(m) = m
  BY DEF Under
<1>7. InWindow(a) => Within(m, EditRows(m, a.area))
  BY <1>6 DEF InWindow, Windowed
<1>8. InWindow(a) => Within(s, EditRows(s, a.area))
  BY <1>2, <1>4, <1>7 DEF Within
<1>9. Handles(a, b)
  BY <1>1, <1>2, <1>5, <1>6, <1>8, EditHandles
<1> QED BY <1>3, <1>9

LEMMA WheelConfigHandles ==
  ASSUME NEW a, AppOK(a), Settled(a), a.mode.kind = "config", NEW down \in BOOLEAN
  PROVE  Handles(a, WheelConfig(a, a.mode, down))
<1> DEFINE m == a.mode
           to == m.selected + IF down THEN 1 ELSE -1
<1>1. CASE m.typing # <<>>
  <2>1. WheelConfig(a, m, down) = a
    BY <1>1 DEF WheelConfig
  <2> QED BY <2>1, HandlesItself
<1>2. CASE m.typing = <<>> /\ m.list # <<>>
  <2>1. WheelConfig(a, m, down) = ConfigKey(a, IF down THEN "down" ELSE "up")
    BY <1>2, Zenon DEF WheelConfig
  <2> QED BY <2>1, ConfigKeyHandles
<1>3. CASE m.typing = <<>> /\ m.list = <<>>
  <2>1. m.selected \in Int
    BY FieldsAre DEF AppOK, ModeOK, EditOK, DraftOK
  <2>2. to \in Int
    BY <2>1
  <2>3. WheelConfig(a, m, down) = [a EXCEPT !.mode = Selected(m, to, EditRows(m, a.area))]
    BY <1>3 DEF WheelConfig
  <2> HIDE DEF to
  <2> QED BY <2>2, <2>3, SelectedHandles
<1> QED BY <1>1, <1>2, <1>3

LEMMA ConfigRowIsThere ==
  ASSUME NEW from \in Nat, NEW line, NEW top
  PROVE  ConfigRowAt(Sections, from, line, top) \in Int
<1> DEFINE starts == Starts(Sections)
           before(i) == i - from + Cardinality({r \in starts : from < r /\ r <= i})
           there == {i \in from .. Len(Sections) : top + 1 + before(i) = line}
<1>1. there \subseteq Int
  BY SectionsAre, FieldsAre
<1>2. ConfigRowAt(Sections, from, line, top) = IF there = {} THEN NoEntry ELSE CHOOSE i \in there : TRUE
  BY DEF ConfigRowAt
<1> HIDE DEF there
<1>3. there # {} => (CHOOSE i \in there : TRUE) \in there
  BY Zenon
<1>4. (CHOOSE i \in there : TRUE) \in there => (CHOOSE i \in there : TRUE) \in Int
  BY <1>1, Zenon
<1>5. NoEntry \in Int
  BY DEF NoEntry
<1>6. CASE there = {}
  BY <1>2, <1>5, <1>6, Zenon
<1>7. CASE there # {}
  BY <1>2, <1>3, <1>4, <1>7, Zenon
<1> QED BY <1>6, <1>7

LEMMA ClickConfigHandles ==
  ASSUME NEW a, AppOK(a), Settled(a), a.mode.kind = "config", NEW line
  PROVE  Handles(a, ClickConfig(a, a.mode, line))
<1> DEFINE m == a.mode
           hit == ConfigRowAt(Sections, m.scroll, line, ConfigTop(a.area))
<1>1. CASE m.typing # <<>>
  <2>1. ClickConfig(a, m, line) = a
    BY <1>1 DEF ClickConfig
  <2> QED BY <2>1, HandlesItself
<1>2. CASE m.typing = <<>> /\ m.list # <<>>
  <2>1. ClickConfig(a, m, line) = ConfigKey(a, "enter")
    BY <1>2, Zenon DEF ClickConfig
  <2> QED BY <2>1, ConfigKeyHandles
<1>3. CASE m.typing = <<>> /\ m.list = <<>>
  <2>1. ClickConfig(a, m, line) = ClickRow(a, m, hit)
    BY <1>3, Zenon DEF ClickConfig
  <2>2. hit \in Int
    BY EditsItself, ConfigRowIsThere
  <2> HIDE DEF hit
  <2>3. \/ ClickRow(a, m, hit) = a
        \/ ClickRow(a, m, hit) = ConfigKey(a, "enter")
        \/ ClickRow(a, m, hit) = [a EXCEPT !.mode = Selected(m, hit, EditRows(m, a.area))]
    <3>1. CASE hit = NoEntry
      <4>1. m.selected \in 1 .. Len(Fields)
        BY DEF AppOK, ModeOK, EditOK, DraftOK
      <4>2. hit # m.selected
        BY <3>1, <4>1, FieldsAre DEF NoEntry
      <4> QED BY <3>1, <4>2, Zenon DEF ClickRow
    <3>2. CASE hit # NoEntry /\ hit = m.selected
      BY <3>2, Zenon DEF ClickRow
    <3>3. CASE hit # NoEntry /\ hit # m.selected
      BY <3>3, Zenon DEF ClickRow
    <3> QED BY <3>1, <3>2, <3>3
  <2> QED BY <2>1, <2>2, <2>3, HandlesItself, ConfigKeyHandles, SelectedHandles
<1> QED BY <1>1, <1>2, <1>3

LEMMA OpenConfigHandles ==
  ASSUME NEW a, AppOK(a), Settled(a)
  PROVE  Handles(a, OpenConfig(a))
<1> DEFINE m == ConfigEdit(a.user)
           b == [a EXCEPT !.mode = m]
<1>1. ConfigOK(a.user) /\ EditorOK(a.user)
  BY DEF AppOK, ConfigRuns, Opens, EditorOK
<1>2. EditOK(m, a.user)
  BY <1>1, ConfigEditOK
<1>3. m.kind = "config" /\ m.selected = 1 /\ m.scroll = 1
  BY DEF ConfigEdit
<1>4. EditRows(m, a.area) \in Nat
  BY <1>2, EditIsCounted, SettledIsCounted
<1> HIDE DEF m
<1>5. Within(m, EditRows(m, a.area))
  BY <1>3, <1>4 DEF Within, Most
<1>6. Apart(a, b) /\ b.mode = m
  BY OpensApart DEF Settled
<1> HIDE DEF b
<1>7. Handles(a, b)
  BY <1>3, <1>5, <1>6, EditHandles
<1> QED BY <1>7 DEF OpenConfig, b, m

\* A command runs in the review it goes back to.
LEMMA RunCommandHandles ==
  ASSUME NEW a, AppOK(a), Settled(a), a.mode = Normal, NEW name
  PROVE  Handles(a, RunCommand(a, name))
<1>1. a.mode.kind \in Screened
  BY DEF Normal, Screened
<1>2. RunCommand(a, name) \in {OpenConfig(a), OpenHelp(a), OpenFindings(a), OpenSearch(a), OpenFileList(a),
                               OfferPublish(a), StartFetch(a), ToQuit(a), a}
  BY Zenon DEF RunCommand
<1> QED BY <1>1, <1>2, OpenConfigHandles, OpenHelpHandles, OpenFindingsHandles, OpenSearchHandles,
           OpenFileListHandles, OfferPublishHandles, StartFetchHandles, ToQuitHandles, HandlesItself

LEMMA CommandKeyHandles ==
  ASSUME NEW a, AppOK(a), Settled(a), a.mode.kind = "command", NEW key
  PROVE  Handles(a, CommandKey(a, key))
<1> DEFINE back == BackToReview(a)
<1>1. Handles(a, back) /\ Settled(back) /\ back.mode = Normal
  BY BackHandles DEF Handles
<1>2. AppOK(back)
  <2>1. Turns(a, back)
    BY AppIsCalm, BackTurns
  <2> QED BY <2>1, TurnsIsIdle DEF Idle, Kept
<1>3. "kind" \in DOMAIN a.mode
  BY DEF AppOK, ModeOK
<1> HIDE DEF back
<1>4. \/ CommandKey(a, key) = back
      \/ CommandKey(a, key) = RunCommand(back, a.mode.line)
      \/ CommandKey(a, key) = Walk(a, 1) \/ CommandKey(a, key) = Walk(a, -1)
      \/ CommandKey(a, key) = CommandTypes(a, Completes[a.mode.line][1])
      \/ CommandKey(a, key) = a
  BY Zenon DEF CommandKey, back
<1>5. Handles(back, RunCommand(back, a.mode.line))
  BY <1>1, <1>2, RunCommandHandles
<1>6. Handles(a, RunCommand(back, a.mode.line))
  BY <1>1, <1>5, HandlesTwice
<1> QED BY <1>1, <1>3, <1>4, <1>6, WalkHandles, CommandTypesHandles, HandlesItself

-----------------------------------------------------------------------------
(* A key, whatever is open *)

LEMMA NormalActionHandles ==
  ASSUME NEW a, AppOK(a), Settled(a), a.mode.kind = "normal", NEW action
  PROVE  Handles(a, NormalAction(a, action))
<1> DEFINE focused == [a EXCEPT !.focus = IF a.focus = "detail" THEN "groups" ELSE "detail"]
           composing == [a EXCEPT !.mode = Composer]
           here == a.at[a.view]
           b == NormalAction(a, action)
<1>1. DOMAIN a = AppFields /\ PanesOK(a)
  BY DEF Settled
<1>2. ASSUME NEW x, Stays(a, x), PanesOK(x) PROVE Handles(a, x)
  BY <1>2, StaysSees, SeesHandles
<1>3. here + 1 \in Int /\ here - 1 \in Int
  BY <1>1 DEF PanesOK, Laid_out, Measured_panes
<1>4. (action = "down") \in BOOLEAN /\ (action = "half-page-down") \in BOOLEAN /\ (action = "next-hunk") \in BOOLEAN
  OBVIOUS
<1>5. \/ b = a \/ b = focused \/ b = EnterPlanEntry(a) \/ b = MoveCursor(a, action = "down")
      \/ b = SelectEntry(a, here + 1) \/ b = SelectEntry(a, here - 1)
      \/ b = HalfPage(a, action = "half-page-down") \/ b = Onto(a, FirstRow) \/ b = Onto(a, Max(Selectable))
      \/ b = JumpHunk(a, action = "next-hunk") \/ b = ToggleSplit(a) \/ b = ToggleWrap(a)
      \/ b = ResizeDiff(a, ResizeStep) \/ b = ResizeDiff(a, -ResizeStep)
      \/ b = OpenFindings(a) \/ b = OpenSearch(a) \/ b = OpenFileList(a) \/ b = ToggleFileView(a)
      \/ b = composing \/ b = StartFetch(a) \/ b = OfferPublish(a)
  BY ZenonT(40) DEF NormalAction, Half
<1>6. Handles(a, focused) /\ Handles(a, EnterPlanEntry(a))
  BY <1>1, <1>2, FocusStays, FocusSees DEF EnterPlanEntry
<1>7. Handles(a, MoveCursor(a, action = "down"))
  BY <1>1, <1>2, <1>4, MoveCursorStays, MoveCursorSees
<1>8. Handles(a, SelectEntry(a, here + 1)) /\ Handles(a, SelectEntry(a, here - 1))
  <2> HIDE DEF here
  <2> QED BY <1>1, <1>2, <1>3, SelectEntryStays, SelectEntrySees
<1>9. Handles(a, HalfPage(a, action = "half-page-down"))
  BY <1>1, <1>2, <1>4, HalfPageStays, HalfPageSees
<1>10. Handles(a, Onto(a, FirstRow)) /\ Handles(a, Onto(a, Max(Selectable)))
  BY <1>1, <1>2, RowsAre, OntoStays, OntoSees
<1>11. Handles(a, JumpHunk(a, action = "next-hunk"))
  BY <1>1, <1>2, <1>4, JumpHunkStays, JumpHunkSees
<1>12. Handles(a, ToggleSplit(a)) /\ Handles(a, ToggleWrap(a))
  BY <1>1, <1>2, ToggleSplitStays, ToggleSplitSees, ToggleWrapStays, ToggleWrapSees
<1>13. Handles(a, ResizeDiff(a, ResizeStep)) /\ Handles(a, ResizeDiff(a, -ResizeStep))
  BY <1>1, ResizeDiffSees, SeesHandles
<1>14. Handles(a, ToggleFileView(a))
  <2>1. DOMAIN ToggleFileView(a) = AppFields
    BY ToggleFileViewIdle DEF Idle, Kept, AppOK
  <2>2. Sees(a, ToggleFileView(a))
    BY <1>1, <2>1, ToggleFileViewSees DEF Sees, SameOver
  <2> QED BY <2>2, SeesHandles
<1>15. Handles(a, a) /\ Handles(a, OpenFindings(a)) /\ Handles(a, OpenSearch(a)) /\ Handles(a, OpenFileList(a))
       /\ Handles(a, composing) /\ Handles(a, StartFetch(a)) /\ Handles(a, OfferPublish(a))
  BY HandlesItself, OpenFindingsHandles, OpenSearchHandles, OpenFileListHandles, ComposerHandles, StartFetchHandles,
     OfferPublishHandles
<1> HIDE DEF b, focused, composing, here
<1>16. Handles(a, b)
  BY <1>5, <1>6, <1>7, <1>8, <1>9, <1>10, <1>11, <1>12, <1>13, <1>14, <1>15, Zenon
<1> QED BY <1>16 DEF b

LEMMA FileListActionHandles ==
  ASSUME NEW a, Settled(a), a.mode.kind = "files", NEW action
  PROVE  Handles(a, FileListAction(a, action))
<1> DEFINE stepped == [a EXCEPT !.mode = Step(a.mode, FileEntries, FilesShown(a), action = "down")]
           b == FileListAction(a, action)
<1>1. b = stepped \/ b = GoToFile(a) \/ b = OpenSearch(a) \/ b = BackToReview(a) \/ b = a
  BY DEF FileListAction, Settled, AppFields
<1>2. Handles(a, stepped)
  BY FilesStepHandles
<1> HIDE DEF b, stepped
<1>3. Handles(a, b)
  BY <1>1, <1>2, GoToFileHandles, OpenSearchHandles, BackHandles, HandlesItself
<1> QED BY <1>3 DEF b

LEMMA FindingsActionHandles ==
  ASSUME NEW a, Settled(a), a.mode.kind = "findings", NEW action
  PROVE  Handles(a, FindingsAction(a, action))
<1> DEFINE b == FindingsAction(a, action)
           back == BackToReview(a)
<1>1. \/ (\E d : b = FindingsStep(a, d)) \/ b = AskToClear(a) \/ b = DeleteFinding(a)
      \/ b = OfferPublish(back) \/ b = GoToFinding(a) \/ b = OpenSearch(a) \/ b = back \/ b = a
  BY DEF FindingsAction
<1>2. Handles(a, back) /\ Handles(back, OfferPublish(back))
  <2>1. Handles(a, back) /\ Settled(back)
    BY BackHandles DEF Handles
  <2> HIDE DEF back
  <2> QED BY <2>1, OfferPublishHandles
<1>3. Handles(a, OfferPublish(back))
  BY <1>2, HandlesTwice
<1> HIDE DEF b, back
<1>4. Handles(a, b)
  BY <1>1, <1>2, <1>3, FindingsStepHandles, AskToClearHandles, DeleteFindingHandles, GoToFindingHandles,
     OpenSearchHandles, HandlesItself
<1> QED BY <1>4 DEF b

LEMMA ScreenKeyHandles ==
  ASSUME NEW a, AppOK(a), Settled(a), NEW screen, screen = ScreenOf(a.mode), screen # NoScreen, NEW pending, NEW key
  PROVE  Handles(a, ScreenKey(a, screen, pending, key))
<1> DEFINE found == Looks[a.bound][screen][pending][key]
           b == ScreenKey(a, screen, pending, key)
           waits == [a EXCEPT !.pending = found.presses]
<1>1. /\ screen \in {"review", "files", "findings"} /\ a.mode.kind \in Screened
      /\ (screen = "review" => a.mode.kind = "normal") /\ (screen = "files" => a.mode.kind = "files")
      /\ (screen = "findings" => a.mode.kind = "findings")
  BY ScreenKinds DEF Screened
<1>2. \/ b = ToQuit(a) \/ b = BackToReview(a) \/ b = OpenHelp(a) \/ b = OpenCommand(a)
      \/ b = Looked(a, screen, found)
  BY DEF ScreenKey
<1>3. Looked(a, screen, found) = a \/ Looked(a, screen, found) = waits
      \/ Looked(a, screen, found) = Acts(a, screen, found.action)
  BY DEF Looked
<1>4. \/ Acts(a, screen, found.action) = NormalAction(a, found.action) /\ a.mode.kind = "normal"
      \/ Acts(a, screen, found.action) = FileListAction(a, found.action) /\ a.mode.kind = "files"
      \/ Acts(a, screen, found.action) = FindingsAction(a, found.action) /\ a.mode.kind = "findings"
  BY <1>1 DEF Acts
<1>5. Handles(a, waits)
  <2>1. SameOver(a, waits) /\ Beside(a, waits)
    BY DEF Settled, AppFields, SameOver, Beside, SameScreen
  <2> HIDE DEF waits
  <2> QED BY <2>1, BesideSees, SeesHandles DEF Settled
<1>6. Handles(a, Acts(a, screen, found.action))
  <2> HIDE DEF found
  <2> QED BY <1>4, NormalActionHandles, FileListActionHandles, FindingsActionHandles
<1>7. Handles(a, ToQuit(a)) /\ Handles(a, BackToReview(a)) /\ Handles(a, OpenHelp(a)) /\ Handles(a, OpenCommand(a))
      /\ Handles(a, a)
  BY <1>1, ToQuitHandles, BackHandles, OpenHelpHandles, OpenCommandHandles, HandlesItself
<1> HIDE DEF b, waits, found
<1>8. Handles(a, b)
  BY <1>2, <1>3, <1>5, <1>6, <1>7
<1> QED BY <1>8 DEF b

LEMMA FixedKeyHandles ==
  ASSUME NEW a, AppOK(a), Settled(a), ScreenOf(a.mode) = NoScreen, NEW key
  PROVE  Handles(a, FixedKey(a, key))
<1> DEFINE back == BackToReview(a)
           left == [a EXCEPT !.mode = a.mode.from]
           b == FixedKey(a, key)
<1>1. Handles(a, back) /\ Handles(a, a)
  BY BackHandles, HandlesItself
<1>2. Handles(a, StartFetch(back))
  <2>1. Settled(back)
    BY <1>1 DEF Handles
  <2> HIDE DEF back
  <2> QED BY <1>1, <2>1, StartFetchHandles, HandlesTwice
<1>3. a.mode.kind = "help" => Handles(a, left)
  <2>1. a.mode.kind = "help" => a.mode.from.kind \in Screened
    BY DEF AppOK, ModeOK
  <2> QED BY <2>1, LeaveHelpHandles
<1>4. /\ a.mode.kind = "findings" => Handles(a, Confirmed(a, key))
      /\ a.mode.kind = "search" => Handles(a, SearchKey(a, key))
      /\ a.mode.kind = "command" => Handles(a, CommandKey(a, key))
      /\ a.mode.kind = "config" => Handles(a, ConfigKey(a, key))
  BY ConfirmedHandles, SearchKeyHandles, CommandKeyHandles, ConfigKeyHandles
<1>5. \/ b = left /\ a.mode.kind = "help"
      \/ b = back \/ b = StartFetch(back) \/ b = a
      \/ b = Confirmed(a, key) /\ a.mode.kind = "findings"
      \/ b = SearchKey(a, key) /\ a.mode.kind = "search"
      \/ b = CommandKey(a, key) /\ a.mode.kind = "command"
      \/ b = ConfigKey(a, key) /\ a.mode.kind = "config"
  <2> DEFINE Fixed == {"help", "notice", "findings", "question", "composer", "search", "command", "config"}
  <2>1. CASE a.mode.kind \notin Fixed
    BY <2>1 DEF FixedKey
  <2>2. CASE a.mode.kind \in Fixed
    BY <2>2 DEF FixedKey
  <2> QED BY <2>1, <2>2
<1> HIDE DEF b, left, back
<1>6. Handles(a, b)
  BY <1>1, <1>2, <1>3, <1>4, <1>5
<1> QED BY <1>6 DEF b

LEMMA OnKeyHandles ==
  ASSUME NEW a, AppOK(a), Settled(a), NEW key
  PROVE  Handles(a, OnKey(a, key))
<1> DEFINE taken == [a EXCEPT !.pending = <<>>, !.grab = <<>>]
           b == OnKey(a, key)
<1>1. /\ DOMAIN taken = AppFields /\ taken.grab = <<>> /\ taken.mode = a.mode
      /\ taken.user = a.user /\ taken.bound = a.bound /\ taken.file = a.file
      /\ taken.area = a.area /\ taken.view = a.view /\ taken.cols = a.cols /\ taken.offset = a.offset
      /\ SameOver(a, taken) /\ Beside(a, taken)
  BY DEF AppOK, AppFields, SameOver, Beside, SameScreen
<1>2. \/ b = ToQuit(a)
      \/ ScreenOf(a.mode) # NoScreen /\ b = ScreenKey(taken, ScreenOf(a.mode), a.pending, key)
      \/ ScreenOf(a.mode) = NoScreen /\ b = FixedKey(taken, key)
  BY DEF OnKey
<1> HIDE DEF taken, b
<1>3. AppOK(taken)
  BY <1>1 DEF AppOK, ConfigRuns, Divided, Grips
<1>4. Handles(a, taken) /\ Settled(taken)
  BY <1>1, BesideSees, SeesHandles DEF Settled, Handles
<1>5. CASE b = ToQuit(a)
  BY <1>5, ToQuitHandles DEF b
<1>6. CASE ScreenOf(a.mode) # NoScreen /\ b = ScreenKey(taken, ScreenOf(a.mode), a.pending, key)
  <2>1. Handles(taken, b)
    BY <1>1, <1>3, <1>4, <1>6, ScreenKeyHandles
  <2> QED BY <1>4, <2>1, HandlesTwice DEF b
<1>7. CASE ScreenOf(a.mode) = NoScreen /\ b = FixedKey(taken, key)
  <2>1. Handles(taken, b)
    BY <1>1, <1>3, <1>4, <1>7, FixedKeyHandles
  <2> QED BY <1>4, <2>1, HandlesTwice DEF b
<1> QED BY <1>2, <1>5, <1>6, <1>7

LEMMA PressEachHandles ==
  ASSUME NEW a, AppOK(a), Settled(a), NEW keys, Len(keys) \in Nat
  PROVE  Handles(a, PressEach(a, keys))
<1> DEFINE N == Len(keys)
<1>1. PICK f : PressesOf(f, a, keys, N) /\ PressEach(a, keys) = f[N]
  BY PressEachIs
<1> DEFINE T == {n \in 0 .. N : AppOK(f[n]) /\ Handles(a, f[n])}
<1>2. f[0] = a /\ \A m \in 1 .. N : f[m] = OnKey(f[m - 1], keys[m])
  BY <1>1 DEF PressesOf
<1>3. 0 \in T
  BY <1>2, HandlesItself
<1>4. ASSUME NEW n \in 0 .. (N - 1), n \in T PROVE n + 1 \in T
  <2>1. n + 1 \in 1 .. N /\ n + 1 \in 0 .. N /\ (n + 1) - 1 = n
    OBVIOUS
  <2>2. f[n + 1] = OnKey(f[n], keys[n + 1]) /\ AppOK(f[n]) /\ Handles(a, f[n]) /\ Settled(f[n])
    BY <1>2, <1>4, <2>1 DEF Handles
  <2>3. Handles(f[n], f[n + 1])
    BY <2>2, OnKeyHandles
  <2>4. AppOK(f[n + 1])
    BY <2>2, OnKeyPressed DEF Pressed, Idle, Kept
  <2>5. Handles(a, f[n + 1])
    BY <2>2, <2>3, HandlesTwice
  <2> QED BY <2>1, <2>4, <2>5
<1>5. N \in Nat /\ N \in 0 .. N
  OBVIOUS
<1>6. N \in T
  <2> HIDE DEF T, N
  <2>2. \A n \in 0 .. N : n \in T
    BY <1>3, <1>4, <1>5, ByInduction
  <2> QED BY <1>5, <2>2
<1> QED BY <1>1, <1>6

-----------------------------------------------------------------------------
(* The mouse over what is open, and text in its box *)

LEMMA ClickOpenClicks ==
  ASSUME NEW a, AppOK(a), Settled(a), NEW line \in Int, line >= Off,
         a.mode.kind = "files" => line < FilesShown(a)
  PROVE  Clicks(a, ClickOpen(a, line), a.mode.kind = "findings" /\ line >= FindingsShown(a))
<1> DEFINE b == ClickOpen(a, line)
           blank == a.mode.kind = "findings" /\ line >= FindingsShown(a)
           back == BackToReview(a)
<1>1. line = Off \/ line \in Nat
  BY DEF Off
<1>2. Handles(a, back) /\ Handles(a, a)
  BY BackHandles, HandlesItself
<1>3. CASE a.mode.kind = "findings" /\ ~a.mode.confirming /\ line # Off
  <2>1. b = ClickFindings(a, line)
    BY <1>3, Zenon DEF ClickOpen
  <2>2. Clicks(a, ClickFindings(a, line), line >= FindingsShown(a))
    BY <1>1, <1>3, ClickFindingsClicks
  <2> HIDE DEF b
  <2> QED BY <1>3, <2>1, <2>2 DEF Clicks, b
<1>4. CASE ~(a.mode.kind = "findings" /\ ~a.mode.confirming /\ line # Off)
  <2>1. Handles(a, b)
    <3>1. CASE a.mode.kind = "help"
      <4>1. b = [a EXCEPT !.mode = a.mode.from] /\ a.mode.from.kind \in Screened
        BY <3>1 DEF ClickOpen, AppOK, ModeOK
      <4> QED BY <3>1, <4>1, LeaveHelpHandles
    <3>2. CASE a.mode.kind = "notice"
      BY <1>2, <3>2 DEF ClickOpen
    <3>3. CASE a.mode.kind = "config"
      <4> DEFINE place == Max({line, 0})
      <4>1. b = a \/ b = ClickConfig(a, a.mode, place)
        BY <3>3 DEF ClickOpen
      <4> HIDE DEF place, b
      <4> QED BY <1>2, <3>3, <4>1, ClickConfigHandles
    <3>4. CASE a.mode.kind = "files"
      <4>1. line = Off => b = back
        BY <3>4 DEF ClickOpen
      <4>2. line # Off => b = ClickFiles(a, line)
        BY <3>4 DEF ClickOpen
      <4>3. line # Off => Handles(a, ClickFiles(a, line))
        BY <1>1, <3>4, ClickFilesHandles
      <4> HIDE DEF b
      <4> QED BY <1>2, <4>1, <4>2, <4>3
    <3>5. CASE a.mode.kind = "findings" /\ a.mode.confirming
      <4>1. b = [a EXCEPT !.mode.confirming = FALSE]
        BY <3>5, Zenon DEF ClickOpen
      <4>2. Handles(a, [a EXCEPT !.mode.confirming = FALSE])
        BY <3>5, ConfirmsHandles
      <4> HIDE DEF b
      <4> QED BY <4>1, <4>2, Zenon
    <3>6. CASE a.mode.kind = "findings" /\ ~a.mode.confirming /\ line = Off
      <4>1. b = back
        BY <3>6, Zenon DEF ClickOpen
      <4> QED BY <1>2, <4>1
    <3>7. CASE a.mode.kind = "search"
      <4>1. b = CloseSearch(a) \/ b = ClickSearch(a, line)
        BY <3>7 DEF ClickOpen
      <4> QED BY <3>7, <4>1, CloseSearchHandles, ClickSearchHandles
    <3>8. CASE a.mode.kind \notin {"help", "notice", "config", "files", "findings", "search"}
      <4>1. b = a
        BY <3>8 DEF ClickOpen
      <4> QED BY <1>2, <4>1
    <3> HIDE DEF b
    <3> QED BY <1>4, <3>1, <3>2, <3>3, <3>4, <3>5, <3>6, <3>7, <3>8, Zenon
  <2> QED BY <2>1, HandlesClicks
<1> QED BY <1>3, <1>4

LEMMA WheelOpenHandles ==
  ASSUME NEW a, AppOK(a), Settled(a), NEW down \in BOOLEAN
  PROVE  Handles(a, WheelOpen(a, down))
<1> DEFINE b == WheelOpen(a, down)
           stepped == [a EXCEPT !.mode = Step(a.mode, FileEntries, FilesShown(a), down)]
<1>1. \/ b = a
      \/ b = WheelConfig(a, a.mode, down) /\ a.mode.kind = "config"
      \/ b = stepped /\ a.mode.kind = "files"
      \/ b = FindingsStep(a, down) /\ a.mode.kind = "findings"
      \/ b = SearchStep(a, down) /\ a.mode.kind = "search"
  BY DEF WheelOpen, Settled, AppFields
<1>2. a.mode.kind = "files" => Handles(a, stepped)
  BY FilesStepHandles
<1> HIDE DEF b, stepped
<1>3. Handles(a, b)
  BY <1>1, <1>2, HandlesItself, WheelConfigHandles, FindingsStepHandles, SearchStepHandles
<1> QED BY <1>3 DEF b

LEMMA TypesHandles ==
  ASSUME NEW a, AppOK(a), Settled(a), NEW b,
         \/ a.mode.kind = "search" /\ \E q \in DOMAIN Hits : b = SearchTypes(a, q)
         \/ a.mode.kind = "command" /\ \E t : b = CommandTypes(a, t)
         \/ a.mode.kind = "config" /\ \E t : b = ConfigTypes(a, t)
  PROVE  Handles(a, b)
<1>1. "kind" \in DOMAIN a.mode
  BY DEF AppOK, ModeOK
<1> QED BY <1>1, SearchTypesHandles, CommandTypesHandles, ConfigTypesHandles

LEMMA AnsweredHandles ==
  ASSUME NEW a, Settled(a)
  PROVE  Handles(a, Rebuild([a EXCEPT !.calling = FALSE]))
<1> DEFINE b == [a EXCEPT !.calling = FALSE]
<1>1. SameOver(a, b) /\ Beside(a, b)
  BY DEF Settled, AppFields, SameOver, Beside, SameScreen
<1> HIDE DEF b
<1>2. Sees(a, b)
  BY <1>1, BesideSees DEF Settled
<1>3. DOMAIN b = AppFields /\ PanesOK(b)
  BY <1>2 DEF Sees, SameOver
<1>4. Sees(b, Rebuild(b))
  BY <1>3, RebuildStays, RebuildSees, StaysSees
<1>5. Sees(a, Rebuild(b))
  BY <1>2, <1>4, SeesTwice
<1>6. Handles(a, Rebuild(b))
  BY <1>5, SeesHandles
<1> QED BY <1>6 DEF b

-----------------------------------------------------------------------------
(* What is in its window is under the pointer *)

LEMMA EachIs ==
  ASSUME NEW n \in Nat
  PROVE  Each(n) \in Seq(Nat) /\ Len(Each(n)) = n /\ \A i \in 1 .. n : Each(n)[i] = i
BY DEF Each

LEMMA FilesAreDrawn ==
  ASSUME Settled(app), InWindow(app), app.mode.kind = "files"
  PROVE  FilesDrawn
<1> DEFINE m == app.mode
           n == FileEntries
           items == Each(n)
           rows == FilesShown(app)
<1>1. m.selected \in 1 .. n /\ m.scroll \in Nat \ {0} /\ Within(m, rows)
  BY DEF Settled, ListOK, Under, InWindow, Windowed
<1>2. n \in Nat /\ rows \in Nat
  BY FilesAreCounted, SettledIsCounted
<1>3. items \in Seq(Nat) /\ Len(items) = n /\ \A i \in 1 .. n : items[i] = i
  BY <1>2, EachIs
<1> HIDE DEF items, n, rows
<1>4. m.selected \in Nat /\ m.scroll <= m.selected
      /\ (m.selected = m.scroll \/ (m.selected <= Len(items) /\ m.selected - m.scroll + 1 <= rows))
  BY <1>1, <1>2, <1>3 DEF Within, Most
<1>5. /\ Shown(Single(items), m.scroll, m.selected, rows) = m.scroll
      /\ \A d \in DrawnAt(Single(items), m.scroll, rows) :
           d[1] \in m.scroll .. Len(items) /\ d[2] = d[1] - m.scroll /\ d[2] \in 0 .. (rows - 1)
  BY <1>1, <1>2, <1>3, <1>4, LinesDrawn
<1>6. ASSUME NEW d \in DrawnAt(Single(items), m.scroll, rows) PROVE FileHit(m, d[2]) = items[d[1]]
  <2>1. d[1] \in m.scroll .. n /\ d[2] = d[1] - m.scroll
    BY <1>3, <1>5
  <2>2. d[1] \in 1 .. n /\ m.scroll + d[2] = d[1]
    BY <1>1, <1>2, <2>1
  <2> QED BY <1>3, <2>2 DEF FileHit
<1> QED BY <1>5, <1>6 DEF FilesDrawn, AsDrawn, items, n, rows

LEMMA SearchIsDrawn ==
  ASSUME Settled(app), InWindow(app), app.mode.kind = "search"
  PROVE  SearchDrawn
<1> DEFINE m == app.mode
           n == Hits[m.query]
           items == Each(n)
           rows == SearchShown(app)
<1>1. m.selected \in 1 .. Most(n, 1) /\ m.scroll \in Nat \ {0} /\ n \in Nat /\ rows \in Nat
  BY SearchIsThere
<1>2. Within(m, rows)
  BY DEF Under, InWindow, Windowed
<1>3. items \in Seq(Nat) /\ Len(items) = n /\ \A i \in 1 .. n : items[i] = i
  BY <1>1, EachIs
<1> HIDE DEF items, n, rows
<1>4. m.selected \in Nat /\ m.scroll <= m.selected
      /\ (m.selected = m.scroll \/ (m.selected <= Len(items) /\ m.selected - m.scroll + 1 <= rows))
  BY <1>1, <1>2, <1>3 DEF Within, Most
<1>5. /\ Shown(Single(items), m.scroll, m.selected, rows) = m.scroll
      /\ \A d \in DrawnAt(Single(items), m.scroll, rows) :
           d[1] \in m.scroll .. Len(items) /\ d[2] = d[1] - m.scroll /\ d[2] \in 0 .. (rows - 1)
  BY <1>1, <1>3, <1>4, LinesDrawn
<1>6. ASSUME NEW d \in DrawnAt(Single(items), m.scroll, rows) PROVE SearchHit(app, d[2] + 1) = items[d[1]]
  <2>1. d[1] \in m.scroll .. n /\ d[2] = d[1] - m.scroll /\ d[2] \in 0 .. (rows - 1)
    BY <1>3, <1>5
  <2>2. d[1] \in 1 .. n /\ m.scroll + (d[2] + 1) - 1 = d[1] /\ d[2] + 1 \in 1 .. rows /\ d[1] <= n
    BY <1>1, <2>1
  <2>3. SearchHit(app, d[2] + 1) = d[1]
    BY <2>2 DEF SearchHit, n, rows
  <2> QED BY <1>3, <2>2, <2>3
<1> QED BY <1>5, <1>6 DEF SearchDrawn, AsDrawn, items, n, rows

LEMMA FindingsAreDrawn ==
  ASSUME Settled(app), InWindow(app), app.mode.kind = "findings"
  PROVE  FindingsDrawn
<1> DEFINE m == app.mode
           n == Len(app.entries)
           rules == Rules(app.entries)
           rows == FindingsShown(app)
           items == WithRules(n, rules)
           place == Place(rules, m.scroll)
<1>1. n \in Nat \ {0} /\ rules \subseteq 1 .. n /\ m.selected \in 1 .. n /\ m.scroll \in Nat \ {0} /\ rows \in Nat
  BY FindingsAreThere, RulesAreThere, SettledIsCounted
<1> DEFINE c == Cardinality({r \in rules : m.scroll < r /\ r <= m.selected})
<1>2. m.scroll <= m.selected /\ (m.scroll = m.selected \/ m.selected + 1 - m.scroll + c <= Most(rows, 1))
  BY DEF Under, InWindow, Windowed
<1> HIDE DEF n, rules, rows
<1>3. c \in Nat
  <2>1. {r \in rules : m.scroll < r /\ r <= m.selected} \in SUBSET (1 .. n)
    BY <1>1
  <2>2. IsFiniteSet({r \in rules : m.scroll < r /\ r <= m.selected})
    BY <1>1, <2>1, FinitePlaces
  <2> QED BY <2>2, FS_CardinalityType
<1>4. m.scroll \in 1 .. n
  BY <1>1, <1>2
<1>5. m.scroll = m.selected \/ m.selected + 1 - m.scroll + c <= rows
  <2> HIDE DEF c
  <2> QED BY <1>1, <1>2, <1>3 DEF Most
<1>6. /\ Shown(Single(items), ItemOf(items, m.scroll), ItemOf(items, m.selected), rows) = ItemOf(items, m.scroll)
      /\ ItemOf(items, m.scroll) = place
      /\ \A d \in DrawnAt(Single(items), ItemOf(items, m.scroll), rows) :
           /\ d[1] = d[2] + place /\ d[2] \in 0 .. (rows - 1)
           /\ \/ items[d[1]] = NoEntry /\ \A i \in 1 .. n : Place(rules, i) # d[1]
              \/ items[d[1]] \in m.scroll .. n /\ \A i \in 1 .. n : Place(rules, i) = d[1] <=> i = items[d[1]]
  <2> DEFINE from == m.scroll
             to == m.selected
             between == RulesIn(rules, from, to)
  <2>1. from \in 1 .. n /\ to \in 1 .. n /\ from <= to /\ (from = to \/ to + 1 - from + between <= rows)
    BY <1>1, <1>2, <1>4, <1>5 DEF RulesIn
  <2> HIDE DEF from, to
  <2>2. /\ Shown(Single(items), ItemOf(items, from), ItemOf(items, to), rows) = ItemOf(items, from)
        /\ ItemOf(items, from) = Place(rules, from)
        /\ \A d \in DrawnAt(Single(items), ItemOf(items, from), rows) :
             /\ d[1] = d[2] + Place(rules, from) /\ d[2] \in 0 .. (rows - 1)
             /\ \/ items[d[1]] = NoEntry /\ \A i \in 1 .. n : Place(rules, i) # d[1]
                \/ items[d[1]] \in from .. n /\ \A i \in 1 .. n : Place(rules, i) = d[1] <=> i = items[d[1]]
    <3>1. RuledShown(n, rules, from, to, rows)
      <4> HIDE DEF between
      <4> QED BY <1>1, <2>1, RuledDrawn DEF between
    <3> QED BY <3>1 DEF RuledShown
  <2> QED BY <2>2 DEF from, to
<1>7. place \in Nat /\ \A i \in 1 .. n : Place(rules, i) \in Nat
  <2>1. m.scroll \in 0 .. n /\ \A i \in 1 .. n : i \in 0 .. n
    BY <1>1, <1>4
  <2>2. \A i \in 0 .. n : Place(rules, i) \in Nat
    BY <1>1, RulesAreCounted
  <2> QED BY <2>1, <2>2
<1>8. FindingsSkip(m.scroll, rules) + 1 = place /\ FindingsSkip(m.scroll, rules) = place - 1
  <2> DEFINE up == Cardinality({r \in rules : r <= m.scroll})
  <2>1. up \in Nat
    <3>1. {r \in rules : r <= m.scroll} \in SUBSET (1 .. n)
      BY <1>1
    <3>2. IsFiniteSet({r \in rules : r <= m.scroll})
      BY <1>1, <3>1, FinitePlaces
    <3> QED BY <3>2, FS_CardinalityType
  <2>2. place = m.scroll + up /\ FindingsSkip(m.scroll, rules) = m.scroll - 1 + up
    BY DEF Place, FindingsSkip
  <2> HIDE DEF up, place
  <2> QED BY <1>1, <2>1, <2>2
<1>9. ASSUME NEW d \in DrawnAt(Single(items), place, rows) PROVE FindingHit(app, d[2]) = items[d[1]]
  <2> DEFINE line == FindingsSkip(m.scroll, rules) + d[2]
             there == {i \in 1 .. n : i - 1 + Cardinality({r \in rules : r <= i}) = line}
  <2>1. d[1] = d[2] + place /\ d[2] \in 0 .. (rows - 1)
    BY <1>6
  <2>2. line = d[1] - 1 /\ d[1] \in Nat
    <3> HIDE DEF place
    <3> QED BY <1>1, <1>7, <1>8, <2>1
  <2>3. ASSUME NEW i \in 1 .. n PROVE i \in there <=> Place(rules, i) = d[1]
    <3> DEFINE up == Cardinality({r \in rules : r <= i})
    <3>1. up \in Nat
      <4>1. {r \in rules : r <= i} \in SUBSET (1 .. n)
        BY <1>1
      <4>2. IsFiniteSet({r \in rules : r <= i})
        BY <1>1, <4>1, FinitePlaces
      <4> QED BY <4>2, FS_CardinalityType
    <3>2. Place(rules, i) = i + up /\ (i \in there <=> i - 1 + up = line)
      BY DEF Place
    <3> HIDE DEF up, there, line
    <3>3. i - 1 + up = d[1] - 1 <=> i + up = d[1]
      BY <2>2, <3>1
    <3> QED BY <2>2, <3>2, <3>3
  <2>4. FindingHit(app, d[2]) = IF there = {} THEN NoEntry ELSE CHOOSE i \in there : TRUE
    BY DEF FindingHit, FindingsEntryAtLine, n, rules
  <2>5. there \subseteq 1 .. n
    OBVIOUS
  <2> HIDE DEF there, line
  <2>6. CASE items[d[1]] = NoEntry /\ \A i \in 1 .. n : Place(rules, i) # d[1]
    <3>1. there = {}
      BY <2>3, <2>5, <2>6
    <3> QED BY <2>4, <2>6, <3>1
  <2>7. CASE items[d[1]] \in m.scroll .. n /\ \A i \in 1 .. n : Place(rules, i) = d[1] <=> i = items[d[1]]
    <3>1. items[d[1]] \in 1 .. n
      BY <1>1, <2>7
    <3>2. there = {items[d[1]]}
      BY <2>3, <2>5, <2>7, <3>1
    <3> QED BY <2>4, <3>2
  <2> QED BY <1>6, <2>6, <2>7
<1>10. /\ Shown(Single(items), FindingsSkip(m.scroll, rules) + 1, ItemOf(items, m.selected), rows)
            = FindingsSkip(m.scroll, rules) + 1
       /\ \A d \in DrawnAt(Single(items), FindingsSkip(m.scroll, rules) + 1, rows) :
            FindingHit(app, d[2]) = items[d[1]]
  <2> HIDE DEF items, place
  <2> QED BY <1>6, <1>8, <1>9
<1> QED BY <1>10 DEF FindingsDrawn, AsDrawn, items, n, rules, rows

\* The settings leave their list three lines more than the rows they move in, room for the
\* rules that may be drawn among those.
LEMMA ConfigRoom ==
  ASSUME AppOK(app), Settled(app), InWindow(app), app.mode.kind = "config", ConfigFits
  PROVE  LET m == app.mode
             height == Less(Body(app.area), ConfigTop(app.area) + 4 + NoteRows)
         IN  /\ height \in Nat /\ ConfigTop(app.area) \in Nat
             /\ m.selected \in 1 .. Len(Fields) /\ m.scroll \in 1 .. m.selected
             /\ m.selected - m.scroll + 3 <= height
<1> DEFINE m == app.mode
           body == Body(app.area)
           top == ConfigTop(app.area)
           notes == ConfigNotes(m, app.area)
           taken == NoteRows
           height == Less(body, top + 4 + taken)
           onView == EditRows(m, app.area)
<1>1. m.problems \in Nat /\ m.selected \in 1 .. Len(Fields) /\ Len(Fields) \in Nat
  <2>1. EditOK(m, app.user) /\ app.area.w \in Nat /\ app.area.h \in Nat
    BY SettledIsCounted DEF AppOK, ModeOK
  <2> HIDE DEF m
  <2> QED BY <2>1, EditIsCounted, FieldsAre
<1>2. body \in Nat /\ top \in Nat /\ notes \in Nat
  BY <1>1, SettledIsCounted, ConfigIsCounted
<1>3. m.scroll \in Nat \ {0} /\ m.scroll <= m.selected /\ m.selected < m.scroll + Most(onView, 1)
  BY DEF Settled, ListOK, Under, InWindow, Windowed, Within
<1>4. taken = IF notes = 0 THEN 0 ELSE notes + 1
  BY DEF NoteRows
<1>5. onView = Most(Less(Most(Less(body, top + 7), 3), IF notes = 0 THEN 0 ELSE notes + 1), 3)
  BY DEF EditRows, ConfigRows, ConfigListRows
<1>6. Less(body, top + 7 + taken) >= 3
  BY DEF ConfigFits
<1> HIDE DEF body, top, notes, taken, onView
<1>7. taken \in Nat
  BY <1>2, <1>4
<1>8. body >= top + 10 + taken
  BY <1>2, <1>6, <1>7 DEF Less, Most
<1>9. Less(body, top + 7) = body - top - 7 /\ Less(body, top + 4 + taken) = body - top - 4 - taken
  BY <1>2, <1>7, <1>8 DEF Less, Most
<1>10. onView = body - top - 7 - taken
  BY <1>2, <1>4, <1>5, <1>7, <1>8, <1>9 DEF Less, Most
<1>11. Most(onView, 1) = onView /\ onView \in Nat /\ height = onView + 3
  BY <1>2, <1>7, <1>8, <1>9, <1>10 DEF Most
<1> HIDE DEF height
<1>12. m.selected - m.scroll + 3 <= height /\ height \in Nat /\ m.scroll \in 1 .. m.selected
  BY <1>1, <1>3, <1>11
<1> QED BY <1>1, <1>2, <1>12 DEF height, body, top, taken

LEMMA ConfigIsDrawn ==
  ASSUME AppOK(app), Settled(app), InWindow(app), app.mode.kind = "config", ConfigFits
  PROVE  ConfigDrawn
<1> DEFINE m == app.mode
           from == m.scroll
           to == m.selected
           n == Len(Fields)
           starts == Starts(Sections)
           rules == {1} \cup starts
           items == WithRules(n, rules)
           top == ConfigTop(app.area)
           height == Less(Body(app.area), top + 4 + NoteRows)
           place == Place(rules, from)
<1>1. /\ height \in Nat /\ top \in Nat /\ to \in 1 .. n /\ from \in 1 .. to /\ to - from + 3 <= height
  BY ConfigRoom
<1>2. n \in Nat \ {0} /\ starts \subseteq 1 .. n /\ starts \subseteq {3, 8} /\ Len(Sections) = n
  BY FieldsAre, SectionsAre
<1> HIDE DEF n, starts, top, height, from, to
<1>3. rules \subseteq 1 .. n /\ from \in 1 .. n /\ from <= to
  BY <1>1, <1>2
<1>4. ASSUME NEW i \in 1 .. n
      PROVE  {r \in rules : from < r /\ r <= i} = {r \in starts : from < r /\ r <= i}
  BY <1>3
<1> HIDE DEF rules
<1>5. RulesIn(rules, from, to) \in Nat /\ RulesIn(rules, from, to) <= 2
  <2> DEFINE S == {r \in starts : from < r /\ r <= to}
  <2>1. S \subseteq {3, 8}
    BY <1>2
  <2>2. RulesIn(rules, from, to) = Cardinality(S)
    BY <1>1, <1>4 DEF RulesIn
  <2> HIDE DEF S
  <2> QED BY <2>1, <2>2, TwoRulesAtMost
<1>6. to + 1 - from + RulesIn(rules, from, to) <= height
  <2> DEFINE c == RulesIn(rules, from, to)
  <2>1. c \in Nat /\ c <= 2
    BY <1>5
  <2> HIDE DEF c
  <2>2. to + 1 - from + c <= height
    BY <1>1, <1>2, <1>3, <2>1
  <2> QED BY <2>2 DEF c
<1>7. RuledShown(n, rules, from, to, height)
  BY <1>1, <1>2, <1>3, <1>6, RuledDrawn
<1>8. /\ Shown(Single(items), ItemOf(items, from), ItemOf(items, to), height) = ItemOf(items, from)
      /\ \A d \in DrawnAt(Single(items), ItemOf(items, from), height) :
           /\ d[1] = d[2] + place /\ d[2] \in 0 .. (height - 1)
           /\ \/ items[d[1]] = NoEntry /\ \A i \in 1 .. n : Place(rules, i) # d[1]
              \/ items[d[1]] \in from .. n /\ \A i \in 1 .. n : Place(rules, i) = d[1] <=> i = items[d[1]]
  BY <1>7 DEF RuledShown
<1>b. /\ \A i \in 0 .. n : Place(rules, i) \in Nat
      /\ \A i, j \in 0 .. n : i <= j => Place(rules, j) - Place(rules, i) = j - i + RulesIn(rules, i, j)
  <2>1. n \in Nat /\ rules \subseteq 1 .. n
    BY <1>2, <1>3
  <2>2. \A i \in 0 .. n : Place(rules, i) \in Nat
    BY <2>1, RulesAreCounted, Zenon
  <2>3. \A i, j \in 0 .. n : i <= j => Place(rules, j) - Place(rules, i) = j - i + RulesIn(rules, i, j)
    BY <2>1, RulesAreBetween, Zenon
  <2> QED BY <2>2, <2>3
<1>9. ASSUME NEW d \in DrawnAt(Single(items), ItemOf(items, from), height)
      PROVE  ConfigRowAt(Sections, from, top + 1 + d[2], top) = items[d[1]]
  <2> DEFINE line == top + 1 + d[2]
             before(i) == i - from + Cardinality({r \in starts : from < r /\ r <= i})
             there == {i \in from .. Len(Sections) : top + 1 + before(i) = line}
  <2>1. d[1] = d[2] + place /\ d[2] \in 0 .. (height - 1) /\ place \in Nat
    <3>1. from \in 0 .. n
      BY <1>2, <1>3
    <3> QED BY <1>8, <1>b, <3>1
  <2>2. there \subseteq from .. n
    BY <1>2
  <2>3. ASSUME NEW i \in from .. n PROVE i \in there <=> Place(rules, i) = d[1]
    <3>1. i \in 1 .. n /\ i \in 0 .. n /\ from \in 0 .. n /\ from <= i
      BY <1>2, <1>3
    <3> DEFINE c == RulesIn(rules, from, i)
               p == Place(rules, i)
    <3>2. p - place = i - from + c /\ p \in Nat
      BY <1>b, <3>1, Zenon
    <3>3. before(i) = i - from + c
      BY <1>4, <3>1 DEF RulesIn
    <3>4. i \in there <=> top + 1 + before(i) = top + 1 + d[2]
      BY <1>2
    <3> HIDE DEF there, before, c, p, place, line
    <3>5. i \in there <=> p = d[1]
      <4>1. before(i) = p - place
        BY <3>2, <3>3
      <4> QED BY <1>1, <2>1, <3>2, <3>4, <4>1
    <3> QED BY <3>5 DEF p
  <2>4. ConfigRowAt(Sections, from, line, top) = IF there = {} THEN NoEntry ELSE CHOOSE i \in there : TRUE
    BY DEF ConfigRowAt, starts
  <2> HIDE DEF there, line
  <2>5. \A i \in from .. n : i \in 1 .. n
    BY <1>2, <1>3
  <2>6. CASE items[d[1]] = NoEntry /\ \A i \in 1 .. n : Place(rules, i) # d[1]
    <3>1. there = {}
      BY <2>2, <2>3, <2>5, <2>6
    <3> QED BY <2>4, <2>6, <3>1 DEF line
  <2>7. CASE items[d[1]] \in from .. n /\ \A i \in 1 .. n : Place(rules, i) = d[1] <=> i = items[d[1]]
    <3>1. there = {items[d[1]]}
      BY <2>2, <2>3, <2>5, <2>7
    <3> QED BY <2>4, <3>1 DEF line
  <2> QED BY <1>8, <2>6, <2>7
<1>10. Settings_drawn = items
  BY DEF Settings_drawn, rules, starts, n
<1> QED BY <1>8, <1>9, <1>10 DEF ConfigDrawn, AsDrawn, top, height, from, to

\* The plan pane draws from its top, its selection with it.
LEMMA PlanIsDrawn ==
  ASSUME Settled(app), PaneRows(app) >= Least_rows
  PROVE  PlanDrawn
<1> DEFINE heights == PlanHeights(app)
           n == Len(heights)
           rows == PaneRows(app)
           spot == app.at[app.view]
<1>1. Laid_out(app) /\ PlanSeen(app)
  BY DEF Settled, PanesOK
<1>2. app.view \in Views /\ Measured_panes(app) /\ app.at[app.view] \in Nat /\ app.top \in Nat \ {0}
  BY <1>1 DEF Laid_out, Measured_panes
<1>3. heights \in Seq(Nat) /\ n \in Nat
  BY <1>2, PlanHeightsAre
<1>4. Floor(app) = rows
  BY <1>2, ScreenIsCounted DEF Floor
<1>5. app.top <= spot /\ (app.top = spot \/ Tall(heights, app.top, spot) <= rows)
  BY <1>1, <1>4 DEF PlanSeen
<1>6. Shown(heights, app.top, spot, rows) = app.top
  BY <1>2, <1>5, ShownFromThere
<1>7. Each(n) \in Seq(Nat) /\ \A i \in 1 .. n : Each(n)[i] = i
  BY <1>3, EachIs
<1> HIDE DEF heights, rows
<1>8. ASSUME NEW d \in DrawnAt(heights, app.top, rows)
      PROVE  EntryAtLine(heights, app.top, d[2]) = Each(n)[d[1]]
  <2>1. d[1] \in app.top .. n /\ EntryAtLine(heights, app.top, d[2]) = d[1]
    BY <1>2, <1>3, HitIsDrawn
  <2>2. d[1] \in 1 .. n
    BY <1>2, <1>3, <2>1
  <2> QED BY <1>7, <2>1, <2>2
<1> QED BY <1>6, <1>8 DEF PlanDrawn, AsDrawn, heights, rows

\* The diff draws the row the cursor is on.
LEMMA CursorIsSeen ==
  ASSUME Settled(app), PaneRows(app) >= Least_rows
  PROVE  CursorSeen
<1>1. Laid_out(app) /\ RowSeen(app) /\ Measured_panes(app)
  BY DEF Settled, PanesOK, Laid_out
<1>2. Floor(app) = PaneRows(app)
  BY <1>1, ScreenIsCounted DEF Floor
<1>3. CASE app.followed = Split(app)
  <2>1. Heights(app) = HeightsIn(app, app.followed)
    BY <1>3, HeightsAreIn
  <2>2. app.scroll <= app.cursor
    BY <1>1, RowsAre DEF RowSeen
  <2> QED BY <1>1, <1>2, <2>1, <2>2 DEF RowSeen, CursorSeen, DrawnWhole
<1> QED BY <1>3 DEF CursorSeen

LEMMA PointerIsTrue ==
  ASSUME AppOK(app), Settled(app), ~astray => InWindow(app)
  PROVE  UnderThePointer
<1> SUFFICES ASSUME ~astray PROVE UnderThePointer
  BY DEF UnderThePointer
<1>0. InWindow(app)
  OBVIOUS
<1>1. CASE app.mode.kind = "files"
  BY <1>0, <1>1, FilesAreDrawn, Zenon DEF UnderThePointer
<1>2. CASE app.mode.kind = "findings"
  BY <1>0, <1>2, FindingsAreDrawn DEF UnderThePointer
<1>3. CASE app.mode.kind = "search"
  BY <1>0, <1>3, SearchIsDrawn DEF UnderThePointer
<1>4. CASE app.mode.kind = "config" /\ ConfigFits
  BY <1>0, <1>4, ConfigIsDrawn DEF UnderThePointer
<1>5. CASE app.mode.kind = "normal" /\ PaneRows(app) >= Least_rows
  BY <1>5, PlanIsDrawn, CursorIsSeen DEF UnderThePointer
<1>6. CASE /\ app.mode.kind \notin {"files", "findings", "search"}
           /\ ~(app.mode.kind = "config" /\ ConfigFits)
           /\ ~(app.mode.kind = "normal" /\ PaneRows(app) >= Least_rows)
  BY <1>6 DEF UnderThePointer
<1> QED BY <1>1, <1>2, <1>3, <1>4, <1>5, <1>6

-----------------------------------------------------------------------------
(* Every event keeps it *)

Pointed(a, out) == Settled(a) /\ (~out => InWindow(a))

LEMMA ClicksPoint ==
  ASSUME Pointed(app, astray), NEW to, NEW blank, Clicks(app, to, blank), Takes(to, blank)
  PROVE  Pointed(app', astray')
<1>1. app' = to /\ astray' = (SameOpen(app, to) /\ (astray \/ blank))
  BY DEF Takes
<1>2. Settled(to) /\ ((InWindow(app) /\ ~blank) \/ ~SameOpen(app, to) => InWindow(to))
  BY DEF Clicks
<1>3. ~astray => InWindow(app)
  BY DEF Pointed
<1>4. ~(SameOpen(app, to) /\ (astray \/ blank)) => InWindow(to)
  BY <1>2, <1>3, Zenon
<1> QED BY <1>1, <1>2, <1>4, Zenon DEF Pointed

LEMMA HandlesPoint ==
  ASSUME Pointed(app, astray), NEW to, Handles(app, to), Goes(to)
  PROVE  Pointed(app', astray')
BY HandlesClicks, ClicksPoint DEF Goes

LEMMA OpensPointing ==
  ASSUME NEW file, NEW disk, NEW box, box.w \in Nat, box.h \in Nat, NEW view \in Views, NEW recorded, NEW wrap
  PROVE  Pointed(Opened(file, disk, box, view, recorded, wrap), FALSE)
<1> DEFINE b == Opened(file, disk, box, view, recorded, wrap)
<1>1. PanesOK(b) /\ DOMAIN b = AppFields /\ b.mode = Normal /\ b.entries = Entries
      /\ b.last = [query |-> "", hit |-> 1]
  BY OpenedSees
<1> HIDE DEF b
<1>2. Entries \in Seq(Entry)
  BY DeskAssumption DEF DeskAssumption, Entry
<1>3. b.last.query \in DOMAIN Hits /\ b.last.hit \in Nat \ {0}
  <2>1. b.last.query = "" /\ b.last.hit = 1
    <3>1. [query |-> "", hit |-> 1].query = "" /\ [query |-> "", hit |-> 1].hit = 1
      OBVIOUS
    <3> QED BY <1>1, <3>1, Zenon
  <2>2. "" \in DOMAIN Hits
    BY ModalsAssumption DEF ModalsAssumption
  <2>3. 1 \in Nat \ {0}
    OBVIOUS
  <2> QED BY <2>1, <2>2, <2>3, Zenon
<1>4. Reads(b)
  BY <1>1, <1>2, <1>3 DEF Reads
<1>5. Under(b.mode) = Normal
  <2>1. Normal.kind # "help"
    BY DEF Normal
  <2> QED BY <1>1, <2>1, Zenon DEF Under
<1>6. ListOK(Under(b.mode), b.entries) /\ InWindow(b)
  BY <1>5 DEF ListOK, InWindow, Windowed, Normal
<1> QED BY <1>1, <1>4, <1>6 DEF Pointed, Settled, b

LEMMA PointerInit == DeskInit => Pointed(app, astray)
<1> SUFFICES ASSUME DeskInit PROVE Pointed(app, astray)
  OBVIOUS
<1>1. PICK file \in {c \in Configs : Opens(c)}, disk \in {"ok", "refuses"}, box \in Areas :
        app = Opened(file, disk, box, "groups", Unset, FALSE)
  BY DEF DeskInit
<1>2. box.w \in Nat /\ box.h \in Nat /\ "groups" \in Views
  BY DeskAssumption DEF DeskAssumption, Views
<1>3. Pointed(app, FALSE)
  BY <1>1, <1>2, OpensPointing
<1>4. ~astray
  BY DEF DeskInit
<1> QED BY <1>3, <1>4, Zenon DEF Pointed

LEMMA PointerStep == DeskInv /\ Pointed(app, astray) /\ [DeskNext]_deskVars => Pointed(app', astray')
<1> SUFFICES ASSUME DeskInv, Pointed(app, astray), [DeskNext]_deskVars PROVE Pointed(app', astray')
  OBVIOUS
<1>0. AppOK(app) /\ Settled(app) /\ DOMAIN app = AppFields /\ PanesOK(app)
  BY DEF DeskInv, Orderly, Pointed, Settled
<1>1. ASSUME NEW key \in Presses, Key(key) PROVE Pointed(app', astray')
  BY <1>0, <1>1, OnKeyHandles, HandlesPoint DEF Key
<1>2. ASSUME NEW keys \in Buttons(app), Button(keys) PROVE Pointed(app', astray')
  <2>1. Len(keys) \in Nat
    BY <1>0, ButtonsArePresses
  <2> QED BY <1>0, <1>2, <2>1, PressEachHandles, HandlesPoint DEF Button
<1>3. CASE Types
  <2>1. PICK to : /\ Goes(to)
                  /\ \/ app.mode.kind = "search" /\ \E q \in DOMAIN Hits : to = SearchTypes(app, q)
                     \/ app.mode.kind = "command" /\ \E t : to = CommandTypes(app, t)
                     \/ app.mode.kind = "config" /\ \E t : to = ConfigTypes(app, t)
    BY <1>3 DEF Types
  <2>2. Handles(app, to)
    BY <1>0, <2>1, TypesHandles
  <2> QED BY <2>1, <2>2, HandlesPoint
<1>4. ASSUME NEW line \in Off .. MaxLine, Click(line) PROVE Pointed(app', astray')
  <2>1. line \in Int /\ line >= Off
    BY DEF Off
  <2>2. Takes(ClickOpen(app, line), Blank(line)) /\ Inside(line)
    BY <1>4 DEF Click
  <2>3. Clicks(app, ClickOpen(app, line), app.mode.kind = "findings" /\ line >= FindingsShown(app))
    BY <1>0, <2>1, <2>2, ClickOpenClicks DEF Inside
  <2> QED BY <2>2, <2>3, ClicksPoint DEF Blank
<1>5. ASSUME NEW down \in BOOLEAN, Wheel(down) PROVE Pointed(app', astray')
  BY <1>0, <1>5, WheelOpenHandles, HandlesPoint DEF Wheel
<1>6. ASSUME NEW pane \in {"plan", "detail"}, NEW line \in 0 .. MaxLine, ClickIn(pane, line)
      PROVE  Pointed(app', astray')
  <2>1. Handles(app, ClickPane(app, pane, line))
    BY <1>0, ClickPaneSees, SeesHandles
  <2> QED BY <1>6, <2>1, HandlesPoint DEF ClickIn
<1>7. ASSUME NEW pane \in {"plan", "detail"}, NEW down \in BOOLEAN, WheelIn(pane, down)
      PROVE  Pointed(app', astray')
  <2>1. Handles(app, WheelPane(app, pane, down))
    BY <1>0, WheelPaneSees, SeesHandles
  <2> QED BY <1>7, <2>1, HandlesPoint DEF WheelIn
<1>8. ASSUME NEW x, Grab(x) PROVE Pointed(app', astray')
  <2>1. Handles(app, Press_at(app, x, TRUE))
    BY <1>0, GrabSees, SeesHandles DEF Press_at
  <2> QED BY <1>8, <2>1, HandlesPoint DEF Grab
<1>9. ASSUME NEW x \in Columns, Drag(x) PROVE Pointed(app', astray')
  <2>1. x \in Nat /\ app.grab # <<>>
    BY <1>9, DeskAssumption DEF DeskAssumption, Drag
  <2>2. Handles(app, DragTo(app, x))
    BY <1>0, <2>1, DragToSees, SeesHandles
  <2> QED BY <1>9, <2>2, HandlesPoint DEF Drag
<1>10. ASSUME NEW box \in Areas \ {app.area}, SetsArea(box) PROVE Pointed(app', astray')
  <2> DEFINE b == SetArea(app, box)
  <2>1. app' = b /\ astray' = (Under(app.mode).kind # "normal") /\ box.w \in Nat /\ box.h \in Nat
    BY <1>10, DeskAssumption DEF SetsArea, DeskAssumption
  <2>2. PanesOK(b) /\ DOMAIN b = AppFields /\ b.mode = app.mode /\ b.entries = app.entries /\ b.last = app.last
    BY <1>0, <2>1, SetAreaSees
  <2> HIDE DEF b
  <2>3. Settled(b)
    BY <1>0, <2>2 DEF Settled, Reads
  <2>4. Under(app.mode).kind = "normal" => InWindow(b)
    BY <2>2 DEF InWindow, Windowed
  <2> QED BY <2>1, <2>3, <2>4, Zenon DEF Pointed
<1>11. CASE Answered
  <2>1. Handles(app, Rebuild([app EXCEPT !.calling = FALSE]))
    BY <1>0, AnsweredHandles
  <2> QED BY <1>11, <2>1, HandlesPoint DEF Answered
<1>12. CASE Failed
  <2> DEFINE b == [app EXCEPT !.calling = FALSE, !.mode = Notice]
  <2>1. app' = b
    BY <1>12 DEF Failed
  <2>2. Apart(app, b) /\ b.mode = Notice
    BY <1>0 DEF Apart, Beside, SameScreen, AppFields
  <2> HIDE DEF b
  <2>3. Under(b.mode) = Notice
    BY <2>2 DEF Under, Notice
  <2>4. Settled(b) /\ InWindow(b)
    <3>1. ListOK(Under(b.mode), app.entries) /\ Windowed(app, Under(b.mode)) /\ InWindow(b)
      BY <2>3 DEF ListOK, Windowed, InWindow, Notice
    <3> QED BY <1>0, <2>2, <3>1, ApartHandles DEF Handles
  <2> QED BY <2>1, <2>4 DEF Pointed
<1>13. CASE Restart
  <2>1. app' = Opened(app.file, app.disk, app.area, app.view, app.recorded, app.wrap) /\ ~astray'
    BY <1>13 DEF Restart
  <2>2. app.area.w \in Nat /\ app.area.h \in Nat /\ app.view \in Views
    BY <1>0, SettledIsCounted DEF AppOK, Divided
  <2>3. Pointed(app', FALSE)
    BY <2>1, <2>2, OpensPointing
  <2> QED BY <2>1, <2>3, Zenon DEF Pointed
<1>14. CASE UNCHANGED deskVars
  BY <1>14 DEF deskVars
<1> QED BY <1>1, <1>2, <1>3, <1>4, <1>5, <1>6, <1>7, <1>8, <1>9, <1>10, <1>11, <1>12, <1>13, <1>14 DEF DeskNext

\* Whatever keys, clicks, notches, drags, resizes and answers come, in whatever order, every
\* list draws from the scroll the reviewer keeps for it, with its selection in view, and a
\* click finds on each line the entry that is drawn there (`follow`, `findings_follow`,
\* `follow_plan`, `follow_cursor`, `findings_entry_at_line`, `config_row_at`).
THEOREM ThePointerIsTrue == DeskSpec => []UnderThePointer
<1>1. DeskInit => DeskInv /\ Pointed(app, astray)
  BY DeskInitInv, PointerInit
<1>2. DeskInv /\ Pointed(app, astray) /\ [DeskNext]_deskVars => DeskInv' /\ Pointed(app, astray)'
  BY DeskStep, PointerStep
<1>3. DeskInv /\ Pointed(app, astray) => UnderThePointer
  BY PointerIsTrue DEF DeskInv, Orderly, Pointed
<1> QED BY <1>1, <1>2, <1>3, PTL DEF DeskSpec

=============================================================================
