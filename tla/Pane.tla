-------------------------------- MODULE Pane --------------------------------
(***************************************************************************)
(* Where the reviewer's keys take the reader (crates/tui/src/app:          *)
(* state.rs, search.rs, findings.rs, jumps.rs).                            *)
(*                                                                         *)
(* A row exists only in the pane that is laid out, so a jump is a          *)
(* navigation: the entry that owns the line is selected, a fold is opened, *)
(* a gap is pulled open, each where the line has no row yet.               *)
(*                                                                         *)
(* A pane p is what is selected (view, entry), unfolded (groups), folded   *)
(* (directories), pulled open (grown), how it is drawn (split, opened),    *)
(* the notes and threads drawn in it, its rows, and the cursor and focus.  *)
(***************************************************************************)
EXTENDS Rows

CONSTANT MostRevealed  \* lines a jump pulls open at most

ASSUME PaneAssumption == MostRevealed \in Nat

Entry(p) == p.entry[p.view]

EntriesOf(p) == IF p.view = "groups" THEN DOMAIN Groups ELSE DOMAIN TreeRows(p.folded)

FilesOf(p) == FilesUnder(TreeRows(p.folded)[Entry(p)])

\* The hunks this view lists.
Listed(p) ==
  IF p.view = "groups" THEN Read(Entry(p), Entry(p) \in p.unfolded)
  ELSE UNION {HunksOf(f) : f \in FilesOf(p)}

RowsOf(p) == IF p.view = "groups" THEN GroupRows(Entry(p), p) ELSE FilesRows(FilesOf(p), p)

\* `rows.get(cursor)`: past the last row is on nothing.
RowAt(p) == IF p.cursor \in DOMAIN p.rows THEN p.rows[p.cursor] ELSE Row("blank", 0, NoHunk)

\* `next_selectable`, down and up.
NextSelectable(rows, from) == {i \in DOMAIN rows : i >= from /\ Selectable(rows[i])}
PrevSelectable(rows, from) == {i \in DOMAIN rows : i <= from /\ Selectable(rows[i])}

First(S, other) == IF S = {} THEN other ELSE Min(S)

\* `move_cursor`
Moved(p, down) ==
  LET S == IF down THEN NextSelectable(p.rows, p.cursor + 1)
           ELSE PrevSelectable(p.rows, p.cursor - 1)
  IN  IF S = {} THEN p ELSE [p EXCEPT !.cursor = IF down THEN Min(S) ELSE Max(S)]

\* `land_on`
LandOn(p, row) ==
  [p EXCEPT !.cursor = First(NextSelectable(p.rows, row), row), !.focus = "detail"]

\* `rebuild_rows`: the cursor keeps its row, or goes to the first it may be on.
Placed(p, rows, kept) ==
  [p EXCEPT !.rows = rows,
            !.cursor = IF Selectable(rows[kept]) THEN kept
                       ELSE First(NextSelectable(rows, 1), 1)]
LaidOut(p, rows) == Placed(p, rows, Min({p.cursor, Len(rows)}))
Rebuilt(p) == LaidOut(p, RowsOf(p))

\* `select_entry`
SelectEntry(p, e) ==
  Rebuilt([p EXCEPT !.entry[p.view] = Min({e, Cardinality(EntriesOf(p))}), !.cursor = 1])

\* `toggle_file_view`
OtherView(p) ==
  Rebuilt([p EXCEPT !.view = IF @ = "groups" THEN "files" ELSE "groups", !.cursor = 1])

\* `toggle_group_fold`
ToggleFold(p) ==
  IF p.view # "groups" THEN p
  ELSE Rebuilt([p EXCEPT !.unfolded =
         IF Entry(p) \in @ THEN @ \ {Entry(p)} ELSE @ \cup {Entry(p)}])

\* `toggle_dir`: the selection stays on the directory's row.
ToggleDir(p) ==
  LET path == TreeRows(p.folded)[Entry(p)].path
      folded == IF path \in p.folded THEN p.folded \ {path} ELSE p.folded \cup {path}
      at == {n \in DOMAIN TreeRows(folded) : TreeRows(folded)[n].path = path}
  IN  Rebuilt([p EXCEPT !.folded = folded, !.entry.files = First(at, 1)])

\* `toggle_split`: to the first row that acts on the same hunk.
OnHunk(p, hunk) ==
  IF hunk = NoHunk THEN p
  ELSE [p EXCEPT !.cursor = First({i \in DOMAIN p.rows : HunkAt(p.rows[i]) = hunk}, @)]
ToggleSplit(p) == OnHunk(Rebuilt([p EXCEPT !.split = ~@]), HunkAt(RowAt(p)))

\* `toggle_thread_expanded`
ToggleThread(p, id) ==
  Rebuilt([p EXCEPT !.opened = IF id \in @ THEN @ \ {id} ELSE @ \cup {id}])

\* `jump_hunk`: over another group's.
JumpHunk(p, down) ==
  LET S == {i \in DOMAIN p.rows : /\ p.rows[i].kind = "hunk" /\ ~p.rows[i].foreign
                                  /\ IF down THEN i > p.cursor ELSE i < p.cursor}
  IN  IF S = {} THEN p
      ELSE [p EXCEPT !.cursor = IF down THEN Min(S) ELSE Max(S), !.focus = "detail"]

\* A press on an edge: more of the gap, or the hunk beyond it and a new gap.
Expansion(e, side, crossing) ==
  CASE side = "up" /\ ~crossing   -> [e EXCEPT !.up = @ + Step]
    [] side = "down" /\ ~crossing -> [e EXCEPT !.down = @ + Step]
    [] side = "up" /\ crossing    -> [e EXCEPT !.crossed_up = @ + 1, !.up = 0]
    [] side = "down" /\ crossing  -> [e EXCEPT !.crossed_down = @ + 1, !.down = 0]

\* `expand_at_cursor`: then to where the edge is now, or its hunk.
OnEdge(p, edge) ==
  LET At(kind, side) == {i \in DOMAIN p.rows : /\ p.rows[i].kind = kind
                                               /\ p.rows[i].hunk = edge.hunk
                                               /\ p.rows[i].side = side}
  IN  [p EXCEPT !.cursor = First(At("edge", edge.side), First(At("hunk", ""), @))]
ExpandedAt(p, edge) ==
  OnEdge(Rebuilt([p EXCEPT !.grown[edge.hunk] = Expansion(@, edge.side, edge.crossing)]), edge)
Expand(p) == ExpandedAt(p, RowAt(p))

----------------------------------------------------------------------------
(* Jumps *)

\* `row_of_line`, `row_of_finding`, `row_of_thread`
RowsOfLine(p, f, s, line) == {i \in DOMAIN p.rows : p.rows[i].file = f /\ p.rows[i][s] = line}
RowsOfNote(p, kind, id) == {i \in DOMAIN p.rows : p.rows[i].kind = kind /\ p.rows[i].note = id}

Within(h, line) == line \in Hunks[h].new.start .. Hunks[h].new.start + Hunks[h].new.count - 1

\* `group_of_line`, `search_scan`: that of the hunk holding it, or else the first
\* in the plan with a hunk in the file, if there is one.
GroupOfLine(f, line) ==
  LET holding == {h \in HunksOf(f) : Within(h, line)}
      owners  == {GroupOf(h) : h \in HunksOf(f)}
  IN  IF holding # {} THEN {GroupOf(Min(holding))}
      ELSE IF owners # {} THEN {Min(owners)} ELSE {}

\* `reveal_line`: the gap of the nearest hunk is pulled open towards the line.
RevealLine(p, f, line) ==
  LET top(h)  == Max({Hunks[h].new.start, 1})
      bot(h)  == top(h) + Max({Hunks[h].new.count, 1})
      away(h) == IF bot(h) <= line THEN line + 1 - bot(h) ELSE top(h) - line
      h == Min({h \in HunksOf(f) : \A g \in HunksOf(f) : away(h) <= away(g)})
  IN  IF \/ HunksOf(f) = {}
         \/ \E g \in HunksOf(f) : line \in top(g) .. bot(g) - 1
         \/ away(h) > MostRevealed
      THEN p
      ELSE Rebuilt(IF bot(h) <= line
                   THEN [p EXCEPT !.grown[h].down = Max({@, away(h)})]
                   ELSE [p EXCEPT !.grown[h].up = Max({@, away(h)})])

\* `land_near`: on the file's header, if it has one here.
LandNear(p, f) ==
  LET S == {i \in DOMAIN p.rows : p.rows[i].kind = "file" /\ p.rows[i].file = f}
  IN  IF S = {} THEN p ELSE LandOn(p, Min(S))

\* The group that owns a hunk is selected, or the file's row, every directory above
\* it open.
ToGroup(p, g) == SelectEntry(p, g)
ToFile(p, f) ==
  LET q == [p EXCEPT !.folded = Revealed(Path[f], @)]
  IN  SelectEntry(q, Min(RowOfPath(TreeRows(q.folded), Path[f])))

Through(p, f, owner) == IF p.view = "files" THEN ToFile(p, f) ELSE ToGroup(p, owner)

Unfolded(p, shown) == IF shown THEN p ELSE ToggleFold(p)

\* `jump_to_line`: enter on a search hit, or on a symbol's declaration.
LandOnLine(p, f, line) ==
  IF RowsOfLine(p, f, "new", line) = {} THEN LandNear(p, f)
  ELSE LandOn(p, Min(RowsOfLine(p, f, "new", line)))
OpenToLine(p, f, line) == Unfolded(p, RowsOfLine(p, f, "new", line) # {})
ToLine(p, f, line) ==
  LandOnLine(IF RowsOfLine(p, f, "new", line) # {} THEN p ELSE RevealLine(p, f, line), f, line)

\* Mutant: a fold in the way is left shut.
JumpToLine_folded(p, f, line) ==
  IF p.view = "groups" /\ GroupOfLine(f, line) = {} THEN p
  ELSE ToLine(Through(p, f, First(GroupOfLine(f, line), NoHunk)), f, line)

JumpToLine(p, f, line) ==
  IF p.view = "groups" /\ GroupOfLine(f, line) = {} THEN p
  ELSE ToLine(OpenToLine(Through(p, f, First(GroupOfLine(f, line), NoHunk)), f, line), f, line)

\* `jump_to_finding`, `jump_to_thread`: to its row, if this view has it, or through
\* the entry that owns its hunk.
LandOnNote(p, kind, id) ==
  IF RowsOfNote(p, kind, id) = {} THEN p ELSE LandOn(p, Min(RowsOfNote(p, kind, id)))
OpenToNote(p, kind, id) == Unfolded(p, RowsOfNote(p, kind, id) # {})
JumpToNote(p, kind, id, at) ==
  LandOnNote(IF RowsOfNote(p, kind, id) # {} THEN p
             ELSE OpenToNote(Through(p, at.file, GroupOf(at.hunk)), kind, id),
             kind, id)

\* `place`: the row, and the file, side and line it shows.
Place(p) ==
  LET row == RowAt(p)
  IN  [entry |-> Entry(p), row |-> p.cursor,
       at |-> IF row[SideOf(row)] # 0 THEN <<row.file, SideOf(row), row[SideOf(row)]>> ELSE <<>>]

\* `jumping`: did the jump move the reader?
Jumped(p, q) == Entry(p) # Entry(q) \/ p.cursor # q.cursor

\* Mutant: by row alone.
StoodAgain_row(p, place) ==
  [p EXCEPT !.cursor = Min({place.row, Len(p.rows)}), !.focus = "detail"]

\* `go_back`: on the line, or failing that on the row ...
StoodAgain(p, place) ==
  LET S == IF place.at = <<>> THEN {} ELSE RowsOfLine(p, place.at[1], place.at[2], place.at[3])
  IN  [p EXCEPT !.cursor = First(S, Min({place.row, Len(p.rows)})), !.focus = "detail"]

\* ... of the entry it left.
Reselected(p, entry) == IF Entry(p) = entry THEN p ELSE SelectEntry(p, entry)
Returned(p, place) == StoodAgain(Reselected(p, place.entry), place)

----------------------------------------------------------------------------
(* A selection *)

\* Mutant: the run crosses a boundary.
Breaks_header(row) == row.kind = "file"

\* The rows that stand for a stretch of file the reader is not looking at.
Breaks(row) == row.kind \in {"edge", "file"}

\* `selected_run`: from the anchor toward the cursor, the lines of one side.
SelectedRun(p, anchor) ==
  LET from == IF anchor \in DOMAIN p.rows THEN p.rows[anchor] ELSE RowAt(p)
      at   == RowAt(p)
      s    == IF from[SideOf(from)] # 0 THEN SideOf(from) ELSE SideOf(at)
      Stopping(S) == {k \in S : k \notin DOMAIN p.rows \/ Breaks(p.rows[k])}
      up   == anchor .. Min({p.cursor} \cup {k - 1 : k \in Stopping(anchor .. p.cursor)})
      down == Max({p.cursor} \cup {k + 1 : k \in Stopping(p.cursor .. anchor)}) .. anchor
  IN  [side |-> s, lines |-> {p.rows[i][s] : i \in up \cup down} \ {0}]

\* `selected_lines`: none where the anchor's row is no line.
SelectedLines(p, anchor) ==
  LET from == IF anchor \in DOMAIN p.rows THEN p.rows[anchor] ELSE RowAt(p)
      run  == SelectedRun(p, anchor)
  IN  IF from.kind # "line" \/ run.lines = {} THEN {}
      ELSE {[side |-> run.side, start |-> Min(run.lines), end |-> Max(run.lines)]}

=============================================================================
