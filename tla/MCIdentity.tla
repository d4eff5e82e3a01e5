----------------------------- MODULE MCIdentity -----------------------------
(* A base, a commit on it, two lines from there and their merge.             *)
EXTENDS Identity, TLC

Diamond ==
  "r" :> {} @@ "x" :> {"r"} @@ "a" :> {"x"} @@ "b" :> {"x"} @@ "m" :> {"a", "b"}

Direct(base, head) == [form |-> "direct", base |-> base, head |-> head]

\* One branch by its name, its merge base with a commit, three commits on and before
\* the lines it may be on, uncommitted work, a name.
Sources ==
  {Direct("r", head) : head \in {"topic", "a", "b"}}
    \cup {[form |-> "mergebase", base |-> "x", head |-> "topic"],
          [form |-> "worktree", base |-> "r", head |-> None],
          [form |-> "named", base |-> None, head |-> "topic"]}

TwoProcesses == Permutations(Process)

\* Two processes that open one spelling at the same time are where the promise ends.
Apart == clash = {}
=============================================================================
