----------------------------- MODULE Subprocess -----------------------------
(***************************************************************************)
(* One child process run to its end under a deadline and a cancel flag     *)
(* (crates/engine/src/subprocess.rs), as the agent and the forge's tools   *)
(* are (llmio.rs, forgeio.rs).                                             *)
(*                                                                         *)
(* Three pipes of limited room join us to the child.  A thread of ours is  *)
(* at each, and the caller's thread polls for the child's end.  The child  *)
(* does as it likes: it reads or not, writes or not, hangs, ends, and may  *)
(* leave a process of its own behind that holds the same pipes.            *)
(***************************************************************************)
EXTENDS Naturals, FiniteSets

CONSTANTS
  Room,       \* what a pipe holds
  Input,      \* bound: what there is to say to the child
  MaxOutput   \* bound: what it and its own child say on each output

Output == {"out", "err"}

ASSUME SizeAssumption ==
  Room \in Nat \ {0} /\ Input \in Nat /\ MaxOutput \in [Output -> Nat]

VARIABLES
  call,     \* the caller: "idle", "polling", "joining in", "joining out", "joining err", "ended"
  answer,   \* what the call comes to: "none", "ok", "failed", "timeout", "cancelled", "io"
  child,    \* "none", "alive", "exited" with its status unread, "reaped"
  status,   \* of a child that exited: TRUE if it succeeded
  holds,    \* holds[pipe]: who has the far end of it open
  pipe,     \* pipe[p]: what is in it
  unsent,   \* what the writer has left
  writer,   \* whether the writer is still at it
  said,     \* said[p]: what went into an output, ever
  heard,    \* heard[p]: what its reader has
  reader,   \* reader[p]: whether it is still at it
  late,     \* the deadline has passed
  cancel    \* the flag, raised from another thread

callVars == <<call, answer, child, status, holds, pipe, unsent, writer, said, heard, reader, late, cancel>>

Threads == <<unsent, writer, heard, reader>>

----------------------------------------------------------------------------

Nowhere == [p \in {"in"} \cup Output |-> {}]
Nothing == [p \in {"in"} \cup Output |-> 0]
Unheard == [p \in Output |-> 0]

CallInit ==
  /\ call = "idle" /\ answer = "none" /\ child = "none" /\ status = TRUE
  /\ holds = Nowhere /\ pipe = Nothing /\ unsent = 0 /\ writer = FALSE
  /\ said = Unheard /\ heard = Unheard /\ reader = [p \in Output |-> FALSE]
  /\ late = FALSE /\ cancel = FALSE

\* The caller has its answer.
Forgotten ==
  /\ call' = "idle" /\ answer' = "none" /\ status' = TRUE
  /\ holds' = Nowhere /\ pipe' = Nothing /\ unsent' = 0
  /\ said' = Unheard /\ heard' = Unheard /\ late' = FALSE
  /\ child' = IF child = "reaped" THEN "none" ELSE child
  /\ UNCHANGED <<writer, reader, cancel>>

\* `run`: the child is started with a thread at each pipe, or could not be.
Spawn ==
  /\ call = "idle"
  /\ \/ /\ call' = "polling" /\ child' = "alive"
        /\ holds' = [p \in DOMAIN holds |-> {"child"}]
        /\ unsent' = Input /\ writer' = TRUE /\ reader' = [p \in Output |-> TRUE]
        /\ UNCHANGED answer
     \/ /\ call' = "ended" /\ answer' = "io"
        /\ UNCHANGED <<child, holds, unsent, writer, reader>>
  /\ UNCHANGED <<status, pipe, said, heard, late, cancel>>

\* The writer: a pipe nobody reads is an error, which it ignores; its end closes when it
\* is done.
Feed ==
  /\ writer
  /\ \/ /\ unsent > 0 /\ holds["in"] # {} /\ pipe["in"] < Room
        /\ unsent' = unsent - 1 /\ pipe' = [pipe EXCEPT !["in"] = @ + 1]
        /\ UNCHANGED writer
     \/ /\ unsent = 0 \/ holds["in"] = {}
        /\ writer' = FALSE /\ UNCHANGED <<unsent, pipe>>
  /\ UNCHANGED <<call, answer, child, status, holds, said, heard, reader, late, cancel>>

\* Mutant: a reader stops once the child is gone.
Drain_gone(p) ==
  /\ reader[p]
  /\ \/ /\ pipe[p] > 0 /\ child = "alive"
        /\ pipe' = [pipe EXCEPT ![p] = @ - 1] /\ heard' = [heard EXCEPT ![p] = @ + 1]
        /\ UNCHANGED reader
     \/ /\ child # "alive"
        /\ reader' = [reader EXCEPT ![p] = FALSE] /\ UNCHANGED <<pipe, heard>>
  /\ UNCHANGED <<call, answer, child, status, holds, unsent, writer, said, late, cancel>>

\* A reader: to the end of the file, which comes when nobody holds the other end.
Drain(p) ==
  /\ reader[p]
  /\ \/ /\ pipe[p] > 0
        /\ pipe' = [pipe EXCEPT ![p] = @ - 1] /\ heard' = [heard EXCEPT ![p] = @ + 1]
        /\ UNCHANGED reader
     \/ /\ pipe[p] = 0 /\ holds[p] = {}
        /\ reader' = [reader EXCEPT ![p] = FALSE] /\ UNCHANGED <<pipe, heard>>
  /\ UNCHANGED <<call, answer, child, status, holds, unsent, writer, said, late, cancel>>

Without(who) == [p \in DOMAIN holds |-> holds[p] \ {who}]

\* A failed child, a timeout and a cancel are all decided here, and torn down once:
\* the child is killed and waited for.
GiveUp(why) ==
  /\ answer' = why /\ child' = "reaped" /\ holds' = Without("child")
  /\ call' = "joining in" /\ UNCHANGED status

\* Mutant: the input is written before the deadline is watched.
Poll_written ==
  /\ call = "polling" /\ ~writer
  /\ \/ /\ child = "exited"
        /\ child' = "reaped" /\ answer' = IF status THEN "ok" ELSE "failed"
        /\ call' = "joining in" /\ status' = TRUE /\ UNCHANGED holds
     \/ child = "alive" /\ cancel /\ GiveUp("cancelled")
     \/ child = "alive" /\ ~cancel /\ late /\ GiveUp("timeout")
  /\ late' = FALSE
  /\ UNCHANGED <<pipe, said, Threads, cancel>>

\* The watchdog, each time it wakes: the child's end comes first, then the flag, then
\* the deadline.  `try_wait` itself may fail.
Poll ==
  /\ call = "polling"
  /\ \/ /\ child = "exited"
        /\ child' = "reaped" /\ answer' = IF status THEN "ok" ELSE "failed"
        /\ call' = "joining in" /\ status' = TRUE /\ UNCHANGED holds
     \/ child = "alive" /\ cancel /\ GiveUp("cancelled")
     \/ child = "alive" /\ ~cancel /\ late /\ GiveUp("timeout")
  /\ late' = FALSE
  /\ UNCHANGED <<pipe, said, Threads, cancel>>

PollFails ==
  /\ call = "polling" /\ GiveUp("io")
  /\ late' = FALSE
  /\ UNCHANGED <<pipe, said, Threads, cancel>>

\* The threads are joined one after another.
Join ==
  /\ call' = CASE call = "joining in" /\ ~writer         -> "joining out"
               [] call = "joining out" /\ ~reader["out"] -> "joining err"
               [] call = "joining err" /\ ~reader["err"] -> "ended"
               [] OTHER -> call
  /\ call' # call
  /\ UNCHANGED <<answer, child, status, holds, pipe, Threads, said, late, cancel>>

----------------------------------------------------------------------------
(* The child, and what it leaves behind *)

Holders == {"child", "grandchild"}

ChildReads ==
  /\ holds["in"] # {} /\ pipe["in"] > 0
  /\ pipe' = [pipe EXCEPT !["in"] = @ - 1]
  /\ UNCHANGED <<call, answer, child, status, holds, said, Threads, late, cancel>>

ChildSays(p) ==
  /\ holds[p] # {} /\ pipe[p] < Room /\ said[p] < MaxOutput[p]
  /\ pipe' = [pipe EXCEPT ![p] = @ + 1] /\ said' = [said EXCEPT ![p] = @ + 1]
  /\ UNCHANGED <<call, answer, child, status, holds, Threads, late, cancel>>

\* Its input may be closed early, on purpose; an output it closes is one it says no more
\* on.
ChildCloses ==
  /\ "child" \in holds["in"]
  /\ holds' = [holds EXCEPT !["in"] = @ \ {"child"}]
  /\ UNCHANGED <<call, answer, child, status, pipe, said, Threads, late, cancel>>

\* What the child left behind may end some day.
GrandchildEnds ==
  /\ holds' = Without("grandchild") /\ holds' # holds
  /\ UNCHANGED <<call, answer, child, status, pipe, said, Threads, late, cancel>>

ChildForks ==
  /\ child = "alive"
  /\ holds' = [p \in DOMAIN holds |-> IF "child" \in holds[p] THEN Holders ELSE holds[p]]
  /\ UNCHANGED <<call, answer, child, status, pipe, said, Threads, late, cancel>>

ChildExits ==
  /\ child = "alive"
  /\ child' = "exited" /\ status' \in BOOLEAN /\ holds' = Without("child")
  /\ UNCHANGED <<call, answer, pipe, said, Threads, late, cancel>>

DeadlinePasses ==
  /\ call = "polling" /\ ~late /\ late' = TRUE
  /\ UNCHANGED <<call, answer, child, status, holds, pipe, said, Threads, cancel>>

Child ==
  \/ ChildReads \/ ChildForks \/ ChildCloses \/ ChildExits \/ GrandchildEnds
  \/ \E p \in Output : ChildSays(p)


=============================================================================
