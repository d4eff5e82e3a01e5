------------------------------ MODULE Identity ------------------------------
(***************************************************************************)
(* Which review a range opens, and whose progress it inherits              *)
(* (crates/engine/src/review_identity.rs, store.rs, plan/identity.rs).     *)
(*                                                                         *)
(* A review is a directory named by the hash of what it was opened as.  A  *)
(* spelling that was never used looks over the directories for the same    *)
(* work under another name and, if it finds some, leaves a redirect to it  *)
(* for good.  Nothing locks the directories, branches move while they are  *)
(* read, and a process may be killed between any two steps.                *)
(*                                                                         *)
(* An id is what it is the hash of; ids sort in no particular order.  A    *)
(* source is what a reader gives: two revisions, the merge base of two,    *)
(* the picker's base with or without uncommitted work, a name, a request.  *)
(***************************************************************************)
EXTENDS Integers, Sequences, FiniteSets, SequencesExt

CONSTANTS
  Commit,
  Parents,    \* Parents[c]: the history, which has no cycle
  Branch,     \* names a reader may type that move
  Source,     \* what readers give: [form, base, head]; a name or a request is a head
  Process,
  MaxReviews, \* bound: what is opened, all told
  Gone,       \* where a deleted branch points
  None

Worktree == "WORKTREE"

ASSUME IdentityAssumption ==
  /\ IsFiniteSet(Commit) /\ Parents \in [Commit -> SUBSET Commit]
  /\ Branch \cap Commit = {} /\ Gone \notin Commit
  /\ \A s \in Source :
       \/ /\ s.form \in {"direct", "mergebase", "picked"}
          /\ s.base \in Commit \cup Branch /\ s.head \in Commit \cup Branch
       \/ s.form = "worktree" /\ s.base \in Commit
       \/ s.form \in {"named", "remote"}

VARIABLES
  tip,      \* tip[b]: where a branch points
  dirs,     \* the review directories there are
  written,  \* those that say what they were opened as
  alias,    \* alias[o]: the review a directory redirects to
  proc,     \* proc[p]: the step a process is at, and what it has read
  opened,   \* history: opened[o], the reviews that what was typed has led to
  clash     \* history: what two processes have been opening at once

vars == <<tip, dirs, written, alias, proc, opened, clash>>

----------------------------------------------------------------------------
(* Git *)

\* `commit_of`: a sha is itself.
CommitOf(head) == IF head \in Branch THEN tip[head] ELSE head

\* `is_ancestor`, of itself as well.
Ancestors ==
  LET up[n \in 0 .. Cardinality(Commit)] ==
        IF n = 0 THEN [c \in Commit |-> {c}]
        ELSE [c \in Commit |-> up[n - 1][c] \cup UNION {Parents[d] : d \in up[n - 1][c]}]
  IN  up[Cardinality(Commit)]
IsAncestor(a, b) == a \in Ancestors[b]

----------------------------------------------------------------------------
(* What a review is of *)

Given(s) == s.form \in {"named", "remote"}
Ends(s) == IF Given(s) THEN {} ELSE {s.base} \cup IF s.form = "worktree" THEN {} ELSE {s.head}

\* `merge_base`: git prints one of the best common ancestors.
MergeBases(a, b) ==
  LET common == Ancestors[a] \cap Ancestors[b]
  IN  {c \in common : \A d \in common : d # c => ~IsAncestor(c, d)}

\* `parse_range`, `resolve_range`, `resolve_picked`, `resolve_endpoint`: the base as a
\* commit; the head stays as it was typed.
Bases(s) == IF s.form = "mergebase" THEN MergeBases(CommitOf(s.base), CommitOf(s.head))
            ELSE {CommitOf(s.base)}

\* `review_identity_of`: a request or a name is the whole identity, uncommitted work is
\* known by a word.
IdentityOf(s, base) ==
  CASE Given(s)              -> [kind |-> s.form, base |-> None, head |-> s.head]
    [] s.form = "worktree"   -> [kind |-> "range", base |-> base, head |-> Worktree]
    [] ~Given(s) /\ s.form # "worktree" -> [kind |-> "range", base |-> base, head |-> s.head]

Identity == {IdentityOf(s, None) : s \in {s \in Source : Given(s)}}
              \cup {IdentityOf(s, c) : s \in {s \in Source : ~Given(s)}, c \in Commit}

ASSUME NoneIsNoReview == None \notin Identity

----------------------------------------------------------------------------
(* Whose progress to inherit *)

\* Further along, towards the end of the line that is asked for.
Further(reach, from, to) ==
  IF reach = "newest" THEN IsAncestor(from, to) ELSE IsAncestor(to, from)

\* Mutant: the candidate of the first pass is taken, unproved.
Extreme_unproved(set, reach) ==
  LET best[i \in 1 .. Len(set)] ==
        IF i = 1 THEN 1
        ELSE IF Further(reach, set[best[i - 1]].head, set[i].head) THEN i ELSE best[i - 1]
  IN  IF set = <<>> THEN None ELSE set[best[Len(set)]].id

\* `extreme`: one pass finds a candidate, another proves it.
Extreme(set, reach) ==
  LET best[i \in 1 .. Len(set)] ==
        IF i = 1 THEN 1
        ELSE IF Further(reach, set[best[i - 1]].head, set[i].head) THEN i ELSE best[i - 1]
      found == set[best[Len(set)]]
  IN  IF set = <<>> \/ \E i \in DOMAIN set : ~Further(reach, set[i].head, found.head)
      THEN None ELSE found.id

\* `adopt`, once every review is placed: the same commit, or else the newest we have
\* moved past, or else the oldest that has moved past us.
Adopted(exact, behind, ahead) ==
  LET newest == Extreme(behind, "newest") IN
  CASE exact # <<>>                      -> exact[1].id
    [] exact = <<>> /\ newest # None     -> newest
    [] exact = <<>> /\ newest = None     -> Extreme(ahead, "oldest")

----------------------------------------------------------------------------
(* One process opening a review *)

Idle ==
  [at |-> "idle", opening |-> None, seen |-> {}, head |-> None, placed |-> {}, target |-> None]

Step(p, changes) ==
  proc' = [proc EXCEPT ![p] = [f \in DOMAIN proc[p] |->
                                 IF f \in DOMAIN changes THEN changes[f] ELSE proc[p][f]]]
At(p, at) == proc[p].at = at

Files == <<dirs, written, alias>>
History == <<opened, clash>>

Being(q) == {proc[q].opening} \ {None}

\* The pipeline has run over what was given: every end of it names a commit, and from
\* here on what it read is what the review is of.
Begin(p, s) ==
  /\ At(p, "idle")
  /\ Gone \notin {CommitOf(rev) : rev \in Ends(s)}
  /\ \E base \in IF Given(s) THEN {None} ELSE Bases(s) :
       LET o == IdentityOf(s, base) IN
       /\ Cardinality({o} \cup dirs \cup UNION {Being(q) : q \in Process}) <= MaxReviews
       /\ Step(p, [at |-> IF o.kind = "range" THEN "alias" ELSE "list", opening |-> o])
       /\ clash' = IF \E q \in Process : proc[q].opening = o THEN clash \cup {o} ELSE clash
  /\ UNCHANGED <<tip, Files, opened>>

\* Mutant: a join that is recorded is not looked up.
ReadAlias_ignored(p) ==
  /\ At(p, "alias")
  /\ Step(p, [at |-> "list"])
  /\ UNCHANGED <<tip, Files, History>>

\* `alias_of`: a join already recorded is followed, once.
ReadAlias(p) ==
  LET o == proc[p].opening IN
  /\ At(p, "alias")
  /\ Step(p, IF alias[o] = None THEN [at |-> "list"] ELSE [at |-> "enter", target |-> alias[o]])
  /\ UNCHANGED <<tip, Files, History>>

\* `filed_reviews`: a redirect is not a review.
Listed == {d \in dirs : alias[d] = None}

\* Mutant: a review is joined to another although it is known.
List_unknown(p) ==
  LET o == proc[p].opening IN
  /\ At(p, "list")
  /\ Step(p, CASE o.head = Worktree -> [at |-> "enter", target |-> o]
               [] o.head # Worktree /\ o.kind # "range" -> [at |-> "make", target |-> o]
               [] OTHER -> [at |-> "head", seen |-> (Listed \cap written) \ {o}])
  /\ UNCHANGED <<tip, Files, History>>

\* The list, and what it says of our own directory.
List(p) ==
  LET o     == proc[p].opening
      known == o \in Listed
      named == o.kind # "range"
      ours  == o.head = Worktree \/ (known /\ (named \/ o \in written))
  IN
  /\ At(p, "list")
  /\ \/ ours /\ Step(p, [at |-> "enter", target |-> o])
     \/ ~ours /\ (named \/ known) /\ Step(p, [at |-> "make", target |-> o])
     \/ ~ours /\ ~(named \/ known) /\ Step(p, [at |-> "head", seen |-> Listed \cap written])
  /\ UNCHANGED <<tip, Files, History>>

\* `adopt`: a head that names no commit cannot be placed.
ReadHead(p) ==
  LET head == CommitOf(proc[p].opening.head) IN
  /\ At(p, "head")
  /\ Step(p, IF head = Gone THEN [at |-> "make", target |-> proc[p].opening]
             ELSE [at |-> "place", head |-> head])
  /\ UNCHANGED <<tip, Files, History>>

\* Reviews of the same base, at the commits they mean today.
Candidates(r) ==
  {[id |-> o, head |-> CommitOf(o.head)] :
     o \in {o \in r.seen : /\ o.kind = "range" /\ o.base = r.opening.base
                           /\ o.head # Worktree /\ CommitOf(o.head) # Gone}}

\* `adopt`: each is at our commit, behind it, ahead of it, or on another line; they
\* are met in the order of their ids, which is no order.
Place(p) ==
  LET r == proc[p]
      at == {x \in Candidates(r) : x.head = r.head}
      before == {x \in Candidates(r) : IsAncestor(x.head, r.head)}
      after == {x \in Candidates(r) : IsAncestor(r.head, x.head)}
  IN
  /\ At(p, "place")
  /\ \E exact \in SetToSeqs(at), behind \in SetToSeqs(before), ahead \in SetToSeqs(after) :
       LET a == Adopted(exact, behind, ahead)
       IN  Step(p, [at |-> "make", seen |-> {}, placed |-> Candidates(r),
                    target |-> IF a = None THEN r.opening ELSE a])
  /\ UNCHANGED <<tip, Files, History>>

\* `file_identity` and `file_alias`: our directory, ...
MakeDir(p) ==
  /\ At(p, "make")
  /\ dirs' = dirs \cup {proc[p].opening}
  /\ Step(p, [at |-> "write", head |-> None, placed |-> {}])
  /\ UNCHANGED <<tip, written, alias, History>>

\* ... and in it what it is: a review, or a redirect to one.
Write(p) ==
  LET o == proc[p].opening IN
  /\ At(p, "write")
  /\ IF proc[p].target = o
     THEN written' = written \cup {o} /\ UNCHANGED alias
     ELSE alias' = [alias EXCEPT ![o] = proc[p].target] /\ UNCHANGED written
  /\ Step(p, [at |-> "enter"])
  /\ UNCHANGED <<tip, dirs, History>>

\* `FsReviewStore::for_review`: progress is read from and written to the target.
Enter(p) ==
  LET r == proc[p] IN
  /\ At(p, "enter")
  /\ dirs' = dirs \cup {r.target}
  /\ opened' = [opened EXCEPT ![r.opening] = @ \cup {r.target}]
  /\ proc' = [proc EXCEPT ![p] = Idle]
  /\ UNCHANGED <<tip, written, alias, clash>>

\* Killed, or an error of git or of the disk.
Crash(p) ==
  /\ ~At(p, "idle")
  /\ proc' = [proc EXCEPT ![p] = Idle]
  /\ UNCHANGED <<tip, Files, History>>

\* A commit, a reset, a rebase, a branch deleted or created again.
Move(b, c) ==
  /\ tip[b] # c
  /\ tip' = [tip EXCEPT ![b] = c]
  /\ UNCHANGED <<Files, proc, History>>

----------------------------------------------------------------------------

Init ==
  /\ tip \in [Branch -> Commit]
  /\ dirs = {} /\ written = {} /\ alias = [o \in Identity |-> None]
  /\ proc = [p \in Process |-> Idle]
  /\ opened = [o \in Identity |-> {}] /\ clash = {}

Open(p) ==
  \/ \E s \in Source : Begin(p, s)
  \/ ReadAlias(p) \/ List(p) \/ ReadHead(p) \/ Place(p)
  \/ MakeDir(p) \/ Write(p) \/ Enter(p) \/ Crash(p)

Next ==
  \/ \E p \in Process : Open(p)
  \/ \E b \in Branch, c \in Commit \cup {Gone} : Move(b, c)

Spec == Init /\ [][Next]_vars

----------------------------------------------------------------------------
(* Properties *)

\* Every part keeps its type, and a redirect leads to another review of the same base.
TypeOK ==
  /\ tip \in [Branch -> Commit \cup {Gone}]
  /\ dirs \subseteq Identity /\ written \subseteq dirs
  /\ \A o \in Identity : alias[o] # None =>
       o \in dirs /\ alias[o] \in dirs \ {o} /\ alias[o].base = o.base
  /\ \A p \in Process : proc[p].at \in
       {"idle", "alias", "list", "head", "place", "make", "write", "enter"}

\* What is typed again opens the review it opened before, however branches have moved,
\* other spellings were joined meanwhile and processes have died: progress is never
\* filed under a name its reader does not come back to (`resolve`).  Unless two
\* processes open that same spelling at once: the later may join what the earlier
\* has not seen.
SameReviewAgain == \A o \in Identity \ clash : Cardinality(opened[o]) <= 1

\* A review that holds progress is where its own spelling leads, so that joining a
\* spelling to it never makes it unreachable by its first name (`filed_reviews`;
\* `alias_of`, which is followed once).
ReachedByItsName ==
  \A o \in Identity : \A r \in opened[o] \ clash : alias[r] = None /\ opened[r] \subseteq {r}

\* In whatever order the directories are listed, the review that is joined is the
\* nearest: none at our own commit is passed over, nothing lies between it and us, and
\* every other review on its side is on one line with it, so that two lines of work
\* that meet in a merge are not told apart by chance (`adopt`, `extreme`).
JoinsTheNearest ==
  \A p \in Process : At(p, "make") /\ proc[p].head # None =>
    LET r      == proc[p]
        behind == {x \in r.placed : IsAncestor(x.head, r.head)}
        ahead  == {x \in r.placed : IsAncestor(r.head, x.head)}
        newest == {x \in behind : \A y \in behind : IsAncestor(y.head, x.head)}
        oldest == {x \in ahead : \A y \in ahead : IsAncestor(x.head, y.head)}
        joins  == IF newest # {} THEN newest ELSE oldest
    IN  r.target \in IF joins = {} THEN {r.opening} ELSE {x.id : x \in joins}

=============================================================================
