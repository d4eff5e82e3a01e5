------------------------------- MODULE Applier -------------------------------
(***************************************************************************)
(* The byte-exact hunk applier (engine/src/apply.rs), and the changes it   *)
(* is given.                                                               *)
(*                                                                         *)
(* A content is what splitting its bytes at newlines yields: a non-empty   *)
(* sequence of lines whose last one is Blank exactly when the bytes end    *)
(* with a newline or there are none.  Splitting loses nothing, so contents *)
(* are equal as bytes when they are equal here.                            *)
(***************************************************************************)
EXTENDS Sorting, Sequences, SequencesExt

CONSTANTS Blank,    \* the empty line
          Absent    \* no entry, no content

Empty == <<Blank>>

\* Hunks of one file are applied by where they start; an insertion goes first.
Before(h, k) ==
    h.old_start < k.old_start \/ (h.old_start = k.old_start /\ h.old_count < k.old_count)

Start(h) == IF h.old_count = 0 THEN h.old_start ELSE h.old_start - 1

\* Mutant: a final newline that the change adds is left out.
WithEnd_kept(out, eof) ==
    IF eof = {TRUE} /\ out # <<>> /\ Last(out) = Blank THEN Front(out) ELSE out

\* The end of the file is as the hunk that covers it says, if one does.
WithEnd(out, eof) ==
    CASE eof = {}      -> out
      [] eof = {TRUE}  -> IF out # <<>> /\ Last(out) = Blank THEN Front(out) ELSE out
      [] eof = {FALSE} -> Append(out, Blank)

\* Up to the hunk the base's lines, and then the hunk's.
Apply(lines, done, h) ==
    [out |-> done.out \o SubSeq(lines, done.pos + 1, Start(h)) \o h.added,
     pos |-> Start(h) + h.old_count,
     eof |-> IF h.nonl_old \/ h.nonl_new THEN {h.nonl_new} ELSE done.eof]

ApplyHunks(base, hunks) ==
    LET lines == IF base = Absent THEN Empty ELSE base
        order == Ranked(hunks, {p \in hunks \X hunks : Before(p[1], p[2])})
        done[n \in 0..Cardinality(hunks)] ==
            IF n = 0 THEN [out |-> <<>>, pos |-> 0, eof |-> {}] ELSE Apply(lines, done[n - 1], order[n])
        last == done[Cardinality(hunks)]
        out == WithEnd(last.out \o SubSeq(lines, last.pos + 1, Len(lines)), last.eof)
    IN  IF out = <<>> THEN Empty ELSE out

(***************************************************************************)
(* What git reports between two contents (`diff-tree -U0`): a run of old   *)
(* lines against a run of new ones at each place between lines that stay.  *)
(* A line is compared with its newline, so the last line of a content      *)
(* without one differs from the same words with one.                       *)
(***************************************************************************)
Lines(content) ==
    LET all == [i \in 1..Len(content) |-> [text |-> content[i], nl |-> i < Len(content)]]
    IN  IF Last(content) = Blank THEN Front(all) ELSE all

Texts(lines) == [i \in DOMAIN lines |-> lines[i].text]
Content(lines) == IF lines = <<>> \/ Last(lines).nl THEN Append(Texts(lines), Blank) ELSE Texts(lines)

\* Pairs of equal lines in order on both sides, to which no pair can be added.
Alignments(old, new) ==
    LET Equal == {p \in (DOMAIN old) \X (DOMAIN new) : old[p[1]] = new[p[2]]}
        Clash(p, q) == ~(p[1] < q[1] /\ p[2] < q[2]) /\ ~(q[1] < p[1] /\ q[2] < p[2])
    IN  {S \in SUBSET Equal :
            /\ \A p, q \in S : p = q \/ ~Clash(p, q)
            /\ \A p \in Equal \ S : \E q \in S : Clash(p, q)}

\* Run k lies after the k-1st line that stays, and `kept` is the one that follows it.
Runs(old, new, stay) ==
    LET places == <<<<0, 0>>>> \o Ranked(stay, {s \in stay \X stay : s[1][1] < s[2][1]})
                    \o <<<<Len(old) + 1, Len(new) + 1>>>>
    IN  [k \in 1..(Len(places) - 1) |->
            LET from == places[k]
                to == places[k + 1]
            IN  [after |-> from[1],
                 removed |-> SubSeq(old, from[1] + 1, to[1] - 1),
                 added |-> SubSeq(new, from[2] + 1, to[2] - 1),
                 kept |-> IF to[1] \in DOMAIN old THEN <<old[to[1]]>> ELSE <<>>]]

IsHunk(run) == run.removed # <<>> \/ run.added # <<>>

Unended(lines) == lines # <<>> /\ ~Last(lines).nl
HunkOf(run) ==
    [old_start |-> IF run.removed = <<>> THEN run.after ELSE run.after + 1,
     old_count |-> Len(run.removed),
     added |-> Texts(run.added),
     nonl_old |-> Unended(run.removed), nonl_new |-> Unended(run.added)]

\* What a file reads when the runs in `applied` have been taken over and no other.
PartOf(runs, applied) ==
    Content(FlattenSeq([k \in DOMAIN runs |->
        (IF k \in applied THEN runs[k].added ELSE runs[k].removed) \o runs[k].kept]))
=============================================================================
