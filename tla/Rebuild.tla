------------------------------- MODULE Rebuild -------------------------------
(***************************************************************************)
(* The renderer that rebuilds a change as a stack of commits: the checks   *)
(* that every hunk is carried (engine/src/invariants.rs, tree.rs), then    *)
(* the commits, each staged from the hunks carried so far, and the ref     *)
(* they land on (stack/src/lib.rs).                                        *)
(*                                                                         *)
(* A change has an entry before and after it for each path and the runs    *)
(* git reports between them; which hunks a commit carries is left open, as *)
(* any plan may say (each hunk in one commit: module Plan).  Left out: the *)
(* words of a commit, and which error ended a run.                         *)
(***************************************************************************)
EXTENDS Applier

CONSTANTS Path,       \* the paths that change
          Entry,      \* the entries a path may have, each a mode and a content
          Edits,      \* the reviews: functions from Path to an entry before and one after
          Nul         \* a line that makes a content binary

Kind(entry) ==
    IF entry = Absent THEN "none" ELSE IF entry.mode \in {"link", "gitlink"} THEN entry.mode ELSE "file"
IsBinary(entry) == Kind(entry) # "none" /\ Nul \in ToSet(entry.content)

(***************************************************************************)
(* The runs git may report between two entries: none for binary content,   *)
(* those of one text against the other within a kind, and a deletion       *)
(* followed by a creation where the kind changes.                          *)
(***************************************************************************)
TextOf(entry) ==
    CASE Kind(entry) = "none" -> <<>>
      [] Kind(entry) = "gitlink" -> <<[text |-> entry.content[1], nl |-> TRUE]>>
      [] OTHER -> Lines(entry.content)
Report(old, new) == {Runs(TextOf(old), TextOf(new), stay) : stay \in Alignments(TextOf(old), TextOf(new))}
TypeChange(c) == Absent \notin {c.base, c.head} /\ Kind(c.base) # Kind(c.head)
RunsBetween(old, new) ==
    IF TypeChange([base |-> old, head |-> new])
    THEN LET Half(b, h) == IF IsBinary(b) \/ IsBinary(h) THEN {<<>>} ELSE Report(b, h)
         IN  {p[1] \o p[2] : p \in Half(old, Absent) \X Half(Absent, new)}
    ELSE IF IsBinary(old) \/ IsBinary(new) THEN {<<>>} ELSE Report(old, new)

Changes(base, head) == {[base |-> base, head |-> head, runs |-> runs] : runs \in RunsBetween(base, head)}

ASSUME EntriesAreEntries ==
    /\ Absent \notin Entry
    /\ \A e \in Entry : /\ e = [mode |-> e.mode, content |-> e.content]
                        /\ e.content \notin {<<>>, Absent} /\ e.content \in Seq(ToSet(e.content))

ASSUME EditsAreEdits ==
    \A e \in Edits : \A p \in Path :
        /\ e[p].base \in Entry \cup {Absent} /\ e[p].head \in Entry \cup {Absent}
        /\ e[p].base # e[p].head

VARIABLES change,    \* path -> what changes there
          stage,     \* how far the run is
          applied,   \* path -> the places of the hunks carried so far
          tree,      \* path -> the entry staged, which is the last commit's
          meta,      \* whether the files without hunks have been carried
          ref        \* the tree the ref was moved to, Absent while it is untouched

vars == <<change, stage, applied, tree, meta, ref>>

(***************************************************************************)
(* The parsed file: what the headers and raw records say of a path.        *)
(***************************************************************************)
Hunks(c) == {k \in DOMAIN c.runs : IsHunk(c.runs[k])}
Deleted(c) == c.head = Absent
Submodule(c) == "gitlink" \in {Kind(c.base), Kind(c.head)}
Binary(c) == IsBinary(c.base) \/ IsBinary(c.head)
ModeOf(c) == IF Deleted(c) THEN c.base.mode ELSE c.head.mode
ContentOf(entry) == IF entry = Absent THEN Absent ELSE entry.content

(***************************************************************************)
(* What a file contributes to a tree: three rules, for the whole file, for *)
(* the file after some of its hunks, and for one that has none.            *)
(***************************************************************************)
Recorded(mode, c) == [mode |-> mode, content |-> c.head.content]
Rebuilt(c, hunks) ==
    [mode |-> ModeOf(c), content |-> ApplyHunks(ContentOf(c.base), {HunkOf(c.runs[k]) : k \in hunks})]

FinalState(c) ==
    IF Deleted(c) THEN Absent
    ELSE IF Submodule(c) \/ Binary(c) THEN Recorded(c.head.mode, c)
    ELSE Rebuilt(c, Hunks(c))

CumulativeState(c, hunks) ==
    IF Deleted(c) /\ hunks = Hunks(c) THEN Absent
    ELSE IF Submodule(c) THEN Recorded("gitlink", c)
    ELSE Rebuilt(c, hunks)

ZeroHunkState(c) == IF Deleted(c) THEN Absent ELSE Recorded(c.head.mode, c)

\* Invariant 1: text must come out byte for byte as it is at the head.
Faithful(c) ==
    Submodule(c) \/ Binary(c) \/
    ApplyHunks(ContentOf(c.base), {HunkOf(c.runs[k]) : k \in Hunks(c)})
        = IF Deleted(c) THEN Empty ELSE c.head.content

HeadTree == [p \in Path |-> change[p].head]
Metas == {p \in Path : Hunks(change[p]) = {}}
Left == {p \in Path : applied[p] # Hunks(change[p])}

(***************************************************************************)
(* Types, and how a run begins.                                            *)
(***************************************************************************)
Line == {Blank} \cup UNION {ToSet(entry.content) : entry \in Entry}
Run == [after : Nat, removed : Seq([text : Line, nl : BOOLEAN]), added : Seq([text : Line, nl : BOOLEAN]),
        kept : Seq([text : Line, nl : BOOLEAN])]
TypeOK ==
    /\ \A p \in Path : change[p] \in [base : Entry \cup {Absent}, head : Entry \cup {Absent}, runs : Seq(Run)]
    /\ stage \in {"check", "verify", "emit", "landed",
                  "unfaithful", "wrong tree", "miscounted", "wrong tip", "failed"}
    /\ \A p \in Path : applied[p] \subseteq Hunks(change[p])
    /\ meta \in BOOLEAN
    /\ DOMAIN tree = Path
    /\ \A p \in Path : tree[p] = Absent \/ tree[p].content \in Seq(Line)
    /\ ref = Absent \/ ref = tree

Init ==
    /\ \E e \in Edits :
        LET may == [p \in Path |-> Changes(e[p].base, e[p].head)]
        IN  change \in {c \in [Path -> UNION {may[p] : p \in Path}] : \A p \in Path : c[p] \in may[p]}
    /\ stage = "check" /\ applied = [p \in Path |-> {}]
    /\ tree = [p \in Path |-> change[p].base]
    /\ meta = FALSE /\ ref = Absent

(***************************************************************************)
(* The checks before anything is rendered.                                 *)
(***************************************************************************)
\* Invariants 1 and 2: no document of a change that does not come out as it was.
CheckFidelity ==
    /\ stage = "check"
    /\ stage' = IF \A p \in Path : Faithful(change[p]) THEN "verify" ELSE "unfaithful"
    /\ UNCHANGED <<change, applied, tree, meta, ref>>

\* Invariant 3: the tree of all the hunks is the head's.
CheckTree ==
    /\ stage = "verify"
    /\ stage' = IF [p \in Path |-> FinalState(change[p])] = HeadTree THEN "emit" ELSE "wrong tree"
    /\ UNCHANGED <<change, applied, tree, meta, ref>>

(***************************************************************************)
(* The commits.                                                            *)
(***************************************************************************)
\* Mutant: a commit staged from its own hunks, those of earlier ones forgotten.
Emit_fresh ==
    /\ stage = "emit"
    /\ \E now \in [Path -> UNION {SUBSET Hunks(change[p]) : p \in Left}] :
        LET touched == {p \in Path : now[p] # {}}
        IN  /\ touched # {}
            /\ \A p \in Path : now[p] \subseteq Hunks(change[p]) \ applied[p]
            /\ applied' = [p \in Path |-> applied[p] \cup now[p]]
            /\ tree' = [p \in Path |-> IF p \in touched THEN CumulativeState(change[p], now[p])
                                       ELSE tree[p]]
    /\ UNCHANGED <<change, stage, meta, ref>>

\* A commit carries some of the hunks left, of one path or of many, and what
\* it touches is staged anew from the base and all that has been carried.
Emit ==
    /\ stage = "emit"
    /\ \E now \in [Path -> UNION {SUBSET Hunks(change[p]) : p \in Left}] :
        LET touched == {p \in Path : now[p] # {}}
        IN  /\ touched # {}
            /\ \A p \in Path : now[p] \subseteq Hunks(change[p]) \ applied[p]
            /\ applied' = [p \in Path |-> applied[p] \cup now[p]]
            /\ tree' = [p \in Path |-> IF p \in touched THEN CumulativeState(change[p], applied[p] \cup now[p])
                                       ELSE tree[p]]
    /\ UNCHANGED <<change, stage, meta, ref>>

\* The last commit takes the files that have no hunks.
EmitMeta ==
    /\ stage = "emit" /\ Left = {} /\ ~meta /\ Metas # {}
    /\ tree' = [p \in Path |-> IF p \in Metas THEN ZeroHunkState(change[p]) ELSE tree[p]]
    /\ meta' = TRUE
    /\ UNCHANGED <<change, stage, applied, ref>>

\* Mutant: the tip not compared with the head.
Land_unchecked ==
    /\ stage = "emit" /\ Left = {} /\ (meta \/ Metas = {})
    /\ stage' = "landed" /\ ref' = tree
    /\ UNCHANGED <<change, applied, tree, meta>>

\* Invariant 3 again, on the tip; only then does the ref move.
Land ==
    /\ stage = "emit" /\ Left = {} /\ (meta \/ Metas = {})
    /\ IF tree = HeadTree THEN stage' = "landed" /\ ref' = tree
       ELSE stage' = "wrong tip" /\ UNCHANGED ref
    /\ UNCHANGED <<change, applied, tree, meta>>

\* Invariant 4: git, asked again, may count other hunks, for the tree or for the commits.
Miscount ==
    /\ \/ stage = "verify"
       \/ stage = "emit" /\ Left = {} /\ (meta \/ Metas = {}) /\ tree = HeadTree
    /\ stage' = "miscounted"
    /\ UNCHANGED <<change, applied, tree, meta, ref>>

\* Any call of git may fail, which ends the run.
GitFails ==
    /\ stage \in {"check", "verify", "emit"}
    /\ stage' = "failed"
    /\ UNCHANGED <<change, applied, tree, meta, ref>>

Next == CheckFidelity \/ CheckTree \/ Emit \/ EmitMeta \/ Land \/ Miscount \/ GitFails

Spec == Init /\ [][Next]_vars

(***************************************************************************)
(* Properties.                                                             *)
(***************************************************************************)
IsText(entry) == Kind(entry) # "gitlink" /\ ~IsBinary(entry)

\* Every commit of the stack reads true, not only the last: a text file holds,
\* to the byte, the new lines of the hunks carried so far and the old lines of
\* the others, with the newline at its end that those lines say; it is gone
\* only when its deletion is complete.  (apply.rs apply_hunks, any subset.)
CommitsReadTrue ==
    \A p \in Path :
        LET c == change[p]
        IN  applied[p] # {} /\ IsText(c.base) /\ IsText(c.head) /\ ~TypeChange(c)
            => tree[p] = IF Deleted(c) /\ applied[p] = Hunks(c) THEN Absent
                         ELSE [mode |-> ModeOf(c), content |-> PartOf(c.runs, applied[p])]

\* A change that keeps every entry's kind is never turned down for how it was
\* rebuilt: the three staging rules and the applier agree with the head
\* whichever order its hunks are carried in, so a refusal of this sort is news
\* of a file that became a link, a submodule or the reverse.
OnlyTypeChangesAreRefused ==
    stage \in {"unfaithful", "wrong tree", "wrong tip"} => \E p \in Path : TypeChange(change[p])

\* The ref is moved only to a stack that ends at the head with every hunk and
\* every file without hunks carried; in every other outcome it is untouched.
LandedIsHead ==
    IF stage = "landed" THEN ref = HeadTree /\ Left = {} /\ (meta \/ Metas = {})
    ELSE ref = Absent
=============================================================================
