-------------------------- MODULE MCReviewSession --------------------------
(***************************************************************************)
(* Small instances of ReviewSession.  The plans are one branch regenerated *)
(* as its author works: `written` is the first plan; in `pulled_up` the    *)
(* lines above its first hunk are gone; in `rewritten` the hunk has        *)
(* different bytes, with a line inserted in the middle of the noted range; *)
(* in `twin` the rewritten hunk is untouched but a second file has gained  *)
(* the same change ahead of it; `reverted` has none of it.                 *)
(***************************************************************************)
EXTENDS ReviewSession, TLC

CONSTANTS written, pulled_up, rewritten, twin, reverted

T(f, o, n, r, a) ==
  [file |-> f, old_start |-> o, new_start |-> n, removed |-> r, added |-> a]

Hunk_y   == <<"y", "z", "y~">>
Hunk_wy  == <<"", "y", "w", "z", "y~">>

AllHunks ==
  written     :> << T("b", 4, 4, <<"x">>, Hunk_y), T("c", 1, 0, <<"x">>, <<>>) >>
  @@ pulled_up :> << T("b", 1, 1, <<"x">>, Hunk_y), T("b", 4, 7, <<>>, <<"w">>) >>
  @@ rewritten   :> << T("b", 4, 4, <<"x">>, Hunk_wy), T("c", 1, 0, <<"x">>, <<>>) >>
  @@ twin        :> << T("a", 2, 2, <<"x">>, Hunk_wy), T("b", 4, 4, <<"x">>, Hunk_wy) >>
  @@ reverted    :> << T("c", 1, 0, <<"x">>, <<>>) >>

MCPlan   == {written, pulled_up, rewritten, twin, reverted}
FewPlans == {written, rewritten}
MCHunksOf == [p \in Plan |-> AllHunks[p]]

\* "y~" is a line that is not UTF-8.
MCText == {"", "w", "x", "y", "z", "y~", "y?"}
MCLossy == [t \in MCText |-> IF t = "y~" THEN "y?" ELSE t]
MCFile == {"a", "b", "c"}

L(side, from, to, t1, t2) ==
  [side |-> side, start |-> from, end |-> to, start_text |-> t1, end_text |-> t2]

\* The first line, the whole range, an old line, context lines above and below:
\* what the cursor or a selection can be on, on two of the hunks.
PointedAt(h) ==
  LET s == StartOn(h, "new")
      n == Len(h.added)
  IN  IF h.file = "b" /\ h.added = Hunk_y
      THEN { L("new", s, s, "y", "y"), L("new", s, s + 1, "y", "z"),
             L("new", s + 2, s + 2, "y?", "y?"),
             L("old", h.old_start, h.old_start, "x", "x"),
             L("new", s + n, s + n, "x", "x") }
           \cup IF s < 3 THEN {} ELSE { L("new", s - 2, s - 2, "w", "w") }
      ELSE IF h.file = "b" /\ h.added = Hunk_wy
      THEN { L("new", s + 1, s + 1, "y", "y") }
      ELSE {}

MCPointed == [p \in Plan |-> [k \in DOMAIN MCHunksOf[p] |-> PointedAt(MCHunksOf[p][k])]]

\* Notes on hunk headers only.
HeaderOnly == [p \in Plan |-> [k \in DOMAIN MCHunksOf[p] |-> {}]]

\* No mark is followed, or the first plan's first hunk's.
NoDigest   == {}
SomeDigest == {DigestOf(AllHunks[p][1]) : p \in {written}}

Alike == Permutations(Session)

============================================================================
