----------------------------- MODULE Anchoring -----------------------------
(***************************************************************************)
(* Where a review note sits, and where it sits after the plan has been     *)
(* regenerated (crates/engine/src/review_state.rs, review_session.rs).     *)
(*                                                                         *)
(* A plan document is a sequence of hunks.  A note does not carry a line   *)
(* number it trusts: it carries the exact content digest of a hunk, an     *)
(* offset into one side of it, and the text of the line, and `reanchor`    *)
(* finds the line again in a later plan.  The operators are pure; the      *)
(* module ReviewSession puts them inside a session that opens, writes and  *)
(* crashes.                                                                *)
(*                                                                         *)
(* Abstractions.  A digest is the content it hashes (sha1 is taken to be   *)
(* injective); the two end-of-file flags are part of no property and are   *)
(* left out.  A plan hash is the plan's name.  Line numbers are naturals:  *)
(* the u32 saturations would need a file of 2^32 lines.                    *)
(***************************************************************************)
EXTENDS Integers, Sequences

CONSTANTS
  Plan,      \* plan hashes
  HunksOf,   \* HunksOf[p]: the hunks of plan p in canonical order
  File,      \* file paths
  Text,      \* the bytes of a line
  Lossy,     \* Lossy[t]: t with what is not UTF-8 replaced
  NoText,    \* the empty text: an empty line's, and an old record's key
  Body       \* texts a reviewer writes

Side == {"old", "new"}

Hunk == [file : File, old_start : Nat, new_start : Nat,
         removed : Seq(Text), added : Seq(Text)]

\* The texts a note can carry.
Utf8 == {t \in Text : Lossy[t] = t}

Digest == [removed : Seq(Text), added : Seq(Text)]

ASSUME PlansAssumption ==
  /\ HunksOf \in [Plan -> Seq(Hunk)]
  /\ Lossy \in [Text -> Text] /\ \A t \in Text : Lossy[t] \in Utf8
  /\ NoText \in Utf8

Anchor == [file : File, side : Side,
           line : Nat, end_line : Nat,            \* derived
           offset : Int, span : Nat,              \* durable
           digest : Digest,
           line_text : Utf8, end_line_text : Utf8]

Status == {"open", "resolved", "orphaned"}

Finding == [body : Body, status : Status, moved : BOOLEAN, plan_hash : Plan,
            anchor : Anchor,
            upstream : BOOLEAN]   \* whether it has an address on the forge

----------------------------------------------------------------------------
(* Hunks *)

DigestOf(h) == [removed |-> h.removed, added |-> h.added]

LinesOn(h, side) == IF side = "old" THEN h.removed ELSE h.added

AtLeastOne(n) == IF n < 1 THEN 1 ELSE n

\* A side no line of which exists starts at 0 in git's numbering; a line
\* number is never below 1.
StartOn(h, side) == AtLeastOne(IF side = "old" THEN h.old_start ELSE h.new_start)

Holds(lines, text) == \E i \in DOMAIN lines : lines[i] = text

\* Distance of the first line that reads `text` from the first line.
OffsetOf(lines, text) ==
  (CHOOSE i \in DOMAIN lines :
      lines[i] = text /\ \A j \in DOMAIN lines : lines[j] = text => i <= j) - 1

Carries(p, d) == \E k \in DOMAIN HunksOf[p] : DigestOf(HunksOf[p][k]) = d

----------------------------------------------------------------------------
(* Writing an anchor *)

\* The lines a renderer points at; NoLines is a note filed from the header.
Lines == [side : Side, start : Nat \ {0}, end : Nat,
          start_text : Utf8, end_text : Utf8]
NoLines == [side |-> "none", start |-> 0, end |-> 0,
            start_text |-> NoText, end_text |-> NoText]

\* A header note goes to the first changed line, the new side if it has one.
HeaderLines(h) ==
  LET side == IF h.added # <<>> THEN "new" ELSE "old"
      text == IF LinesOn(h, side) = <<>> THEN NoText ELSE Lossy[LinesOn(h, side)[1]]
  IN  [side |-> side, start |-> StartOn(h, side), end |-> StartOn(h, side),
       start_text |-> text, end_text |-> text]

\* The hunk's own bytes where the line is one of its changed lines, else what
\* the renderer saw.
TextAt(h, side, line, seen) ==
  LET i == line - StartOn(h, side) + 1
  IN  IF i \in DOMAIN LinesOn(h, side) THEN Lossy[LinesOn(h, side)[i]] ELSE seen

AnchorAt(h, pointed) ==
  LET lines == IF pointed = NoLines THEN HeaderLines(h) ELSE pointed
      end   == IF lines.end < lines.start THEN lines.start ELSE lines.end
  IN  [file |-> h.file, side |-> lines.side,
       line |-> lines.start, end_line |-> end,
       offset |-> lines.start - StartOn(h, lines.side),
       span |-> end - lines.start,
       digest |-> DigestOf(h),
       line_text |-> TextAt(h, lines.side, lines.start, lines.start_text),
       end_line_text |-> TextAt(h, lines.side, end, lines.end_text)]

----------------------------------------------------------------------------
(* Re-anchoring *)

\* Mutant: the clamp forgotten.
Resolve_unclamped(a, start) ==
  [a EXCEPT !.line = start + a.offset, !.end_line = start + a.offset + a.span]

\* The line numbers follow from the offset; an offset above the top of the
\* file is clamped to line 1.
Resolve(a, start) ==
  LET line == AtLeastOne(start + a.offset)
  IN  [a EXCEPT !.line = line, !.end_line = line + a.span]

\* A note that reattaches comes back from "orphaned".
Reattach(f, a, h, p, moved) ==
  [f EXCEPT !.anchor = Resolve(a, StartOn(h, a.side)),
            !.plan_hash = p,
            !.moved = moved,
            !.status = IF f.status = "orphaned" THEN "open" ELSE f.status]

\* k is the first hunk of p with the note's digest.
ExactAt(f, p, k) ==
  /\ DigestOf(HunksOf[p][k]) = f.anchor.digest
  /\ \A j \in 1 .. k - 1 : DigestOf(HunksOf[p][j]) # f.anchor.digest

HoldsText(f, h) ==
  /\ h.file = f.anchor.file
  /\ Holds(h.added, f.anchor.line_text) \/ Holds(h.removed, f.anchor.line_text)

\* k is the first hunk of the note's file with the note's line on a side.
ContentAt(f, p, k) ==
  /\ f.anchor.line_text # NoText
  /\ HoldsText(f, HunksOf[p][k])
  /\ \A j \in 1 .. k - 1 : ~HoldsText(f, HunksOf[p][j])

\* The note's own side first, then the new one, then the old one.
SideHolding(a, h) ==
  IF Holds(LinesOn(h, a.side), a.line_text) THEN a.side
  ELSE IF Holds(h.added, a.line_text) THEN "new" ELSE "old"

ReattachExact(f, p, k) ==
  LET h == HunksOf[p][k]
  IN  Reattach(f, [f.anchor EXCEPT !.file = h.file], h, p, FALSE)

\* Mutant: the offset of the side the text was found on, the side left alone.
ReattachContent_one_side(f, p, k) ==
  LET h == HunksOf[p][k]
      a == [f.anchor EXCEPT !.digest = DigestOf(h),
              !.offset = OffsetOf(LinesOn(h, SideHolding(f.anchor, h)), f.anchor.line_text)]
  IN  Reattach(f, a, h, p, TRUE)

ReattachContent(f, p, k) ==
  LET h    == HunksOf[p][k]
      side == SideHolding(f.anchor, h)
      a    == [f.anchor EXCEPT !.digest = DigestOf(h), !.side = side,
                 !.offset = OffsetOf(LinesOn(h, side), f.anchor.line_text)]
  IN  Reattach(f, a, h, p, TRUE)

\* What one pass of `reanchor` makes of note f when plan p is opened.
Reanchor(f, p) ==
  IF f.plan_hash = p THEN f
  ELSE IF \E k \in DOMAIN HunksOf[p] : ExactAt(f, p, k)
  THEN ReattachExact(f, p, CHOOSE k \in DOMAIN HunksOf[p] : ExactAt(f, p, k))
  ELSE IF \E k \in DOMAIN HunksOf[p] : ContentAt(f, p, k)
  THEN ReattachContent(f, p, CHOOSE k \in DOMAIN HunksOf[p] : ContentAt(f, p, k))
  ELSE [f EXCEPT !.status = "orphaned"]

----------------------------------------------------------------------------
\* f's anchor describes a line of the plan f names: a hunk with its digest in
\* its file, its line numbers measured from that hunk, and, on a changed line,
\* the text of that very line.
Placed(f) ==
  \E k \in DOMAIN HunksOf[f.plan_hash] :
    LET h == HunksOf[f.plan_hash][k]
        a == f.anchor
        i == a.offset + 1
    IN  /\ DigestOf(h) = a.digest /\ h.file = a.file
        /\ a.line = AtLeastOne(StartOn(h, a.side) + a.offset)
        /\ a.end_line = a.line + a.span
        /\ i \in DOMAIN LinesOn(h, a.side) => Lossy[LinesOn(h, a.side)[i]] = a.line_text

=============================================================================
