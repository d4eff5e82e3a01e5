------------------------------- MODULE Panes -------------------------------
(***************************************************************************)
(* The two panes: what the screen measures, where the dividers are and how  *)
(* they are moved, and what keeps the selected block and the cursor's row   *)
(* in view (tui app/mod.rs, app/state.rs, app/keys.rs).                     *)
(*                                                                         *)
(* Of the reviewer's state, app, this module is about                       *)
(*   area         the screen as last measured                              *)
(*   view, focus  the list the left pane shows, and the pane in focus       *)
(*   cols         the left pane's width for each list, as the reader left it*)
(*   offset       the split middle's distance from the centre               *)
(*   grab         what a drag has hold of, <<>> when nothing                *)
(*   at, top      the selected entry of each list, and the first one drawn  *)
(*   cursor, scroll  the diff pane's row, and the first one drawn           *)
(*   recorded, wrap  the layout and the wrap this review keeps              *)
(*   followed     the layout the scroll was last settled in                 *)
(* The rows are the same for every entry: what they hold is Rows.tla's.     *)
(***************************************************************************)
EXTENDS Settings

CONSTANTS
  Blocks,  \* the rows each group takes in the plan pane
  Tree,    \* how many files the file view lists
  Diff,    \* the diff pane's rows: [selectable, hunk, file, text, left, right]
  Default_cols,  \* the left pane's width before a divider is moved
  Least_rows,    \* the floor of the scroll arithmetic
  Margin, ResizeStep \* rows kept about the cursor, and columns one resize key moves

PanesAssumption ==
  /\ Blocks # <<>>
  /\ Tree \in Nat \ {0}
  /\ Blocks \in Seq(2 .. 3) /\ Least_rows \in Nat \ {0} /\ Margin \in Nat
  /\ Diff \in Seq([selectable : BOOLEAN, hunk : BOOLEAN, file : BOOLEAN,
                   text : {"prose", "code", "chrome"}, left : Nat, right : Nat])
  /\ \E i \in DOMAIN Diff : Diff[i].selectable
  /\ \A i \in DOMAIN Diff :
       /\ Diff[i].hunk => Diff[i].selectable
       /\ Diff[i].file => \E j \in DOMAIN Diff : i < j /\ Diff[j].selectable
ASSUME PanesAssumption

-----------------------------------------------------------------------------
(* What is on the screen *)

\* The divider as the screen can show it: clamped on the way out, the number kept.
PlanCols(app) == ClampCols(app.cols[app.view], app.area.w)

PaneRows(app) == Less(Body(app.area), 2)
DetailCols(app) == Less(app.area.w - PlanCols(app), 2)

\* A layout this review recorded wins over the config's.
Split(app) == IF app.recorded = Unset THEN app.shown.split ELSE app.recorded

\* The column the split view's middle is painted on.
SplitColumn(app) == PlanCols(app) + 1 + HalfWidths(DetailCols(app), app.offset)[1]

\* Prose always wraps, a file's lines where the review asks for it, and chrome never.
Wraps(app, row) == row.text = "prose" \/ (row.text = "code" /\ app.wrap)

\* Screen lines one row takes: one, or what it wraps to.
Lines(len, width) == Max({1, IF width < 1 THEN 1 ELSE (len + width - 1) \div width})
RowHeight(app, row, halves) ==
  CASE ~Wraps(app, row) -> 1
    [] Wraps(app, row) /\ row.text = "code" /\ Split(app) ->
         Max({Lines(row.left, halves[1]), Lines(row.right, halves[2])})
    [] OTHER -> Lines(Max({row.left, row.right}), DetailCols(app))
Heights(app) ==
  LET halves == HalfWidths(DetailCols(app), app.offset)
  IN [i \in DOMAIN Diff |-> RowHeight(app, Diff[i], halves)] \o <<>>

\* Rows one entry of the left pane takes.
PlanHeights(app) == IF app.view = "groups" THEN Blocks ELSE [i \in 1 .. Tree |-> 1]

-----------------------------------------------------------------------------
(* Keeping the selection in view *)

\* The next row a cursor may stand on from one, itself included; the row itself
\* when there is none that way.
Selectable == {i \in DOMAIN Diff : Diff[i].selectable}
FirstRow == Min(Selectable)
NextSelectable(from, down) ==
  LET there == {i \in Selectable : IF down THEN i >= from ELSE i <= from}
  IN IF there = {} THEN NoEntry ELSE IF down THEN Min(there) ELSE Max(there)

\* The furthest down the view may be scrolled and still hold the cursor's margin.
HighestScroll(heights, cursor, rows) ==
  LET last == Least(cursor + Margin, Len(heights))
      tops == {i \in 1 .. last : Tall(heights, i, last) <= rows}
  IN Min(tops \cup {cursor})

Scrolled(heights, cursor, scroll, rows) ==
  CASE cursor <= FirstRow -> 1
    [] cursor > FirstRow /\ cursor < scroll + Margin -> Max({cursor - Margin, 1})
    [] OTHER -> Max({scroll, HighestScroll(heights, cursor, rows)})

FollowCursor(app) ==
  [app EXCEPT !.scroll = Scrolled(Heights(app), app.cursor, @, Max({PaneRows(app), Least_rows})),
              !.followed = Split(app)]

FollowPlan(app) ==
  [app EXCEPT !.top = FollowTall(PlanHeights(app), app.at[app.view], @, Max({PaneRows(app), Least_rows}))]

\* Measured again: by a resize, a divider that moved, a switch of lists.
Remeasure(app) == FollowPlan(FollowCursor(app))
SetArea(app, area) == Remeasure([app EXCEPT !.area = area])

\* The rows built again: the cursor is put on one it may stand on, and not followed.
Rebuild(app) ==
  [app EXCEPT !.cursor = IF Diff[@].selectable THEN @ ELSE FirstRow]

-----------------------------------------------------------------------------
(* Moving *)

SelectEntry(app, to) ==
  Rebuild(FollowPlan(
    [app EXCEPT !.at[app.view] = Held(to, 1, Len(PlanHeights(app))), !.cursor = 1, !.scroll = 1]))

Onto(app, row) == FollowCursor([app EXCEPT !.cursor = row])
MoveCursor(app, down) ==
  LET next == NextSelectable(Max({app.cursor + (IF down THEN 1 ELSE -1), 1}), down)
  IN Onto(app, IF next = NoEntry THEN app.cursor ELSE next)

\* Half a pane of screen lines from the cursor.
HalfPage(app, down) ==
  LET h == Heights(app)
      budget == Max({PaneRows(app), Least_rows}) \div 2
      spent(i) == IF down THEN Tall(h, app.cursor + 1, i) ELSE Tall(h, i, app.cursor - 1)
      reach == {i \in IF down THEN app.cursor .. Len(h) ELSE 1 .. app.cursor : spent(i) >= budget}
      to == IF reach = {} THEN IF down THEN Len(h) ELSE 1 ELSE IF down THEN Min(reach) ELSE Max(reach)
      next == NextSelectable(to, ~down)
  IN Onto(app, IF next = NoEntry THEN to ELSE next)

\* The next hunk header, which takes the focus to the diff.
JumpHunk(app, down) ==
  LET there == {i \in DOMAIN Diff : Diff[i].hunk /\ IF down THEN i > app.cursor ELSE i < app.cursor}
  IN IF there = {} THEN app
     ELSE [Onto(app, IF down THEN Min(there) ELSE Max(there)) EXCEPT !.focus = "detail"]

\* A jump's landing.
Land(app, row) ==
  LET next == NextSelectable(row, TRUE)
  IN [Onto(app, IF next = NoEntry THEN row ELSE next) EXCEPT !.focus = "detail"]

ToggleFileView(app) ==
  Rebuild(FollowPlan(Remeasure(
    [app EXCEPT !.view = IF @ = "groups" THEN "files" ELSE "groups", !.cursor = 1, !.scroll = 1])))

\* A row keeps its hunk across the layouts: the cursor goes to that hunk's first row.
HunkOf(row) == Max({i \in DOMAIN Diff : i <= row /\ Diff[i].hunk} \cup {0})
ToggleSplit(app) ==
  LET laid == Rebuild([app EXCEPT !.recorded = ~Split(app)])
  IN IF HunkOf(app.cursor) = 0 THEN laid ELSE Onto(laid, HunkOf(app.cursor))

ToggleWrap(app) == FollowCursor([app EXCEPT !.wrap = ~@])

-----------------------------------------------------------------------------
(* The dividers *)

\* A width the screen cannot show, or shows already, changes nothing.
SetPlanCols(app, want) ==
  LET to == ClampCols(want, app.area.w)
  IN IF to = PlanCols(app) THEN app ELSE Remeasure([app EXCEPT !.cols[app.view] = to])

ResizeDiff(app, by) == SetPlanCols(app, Max({PlanCols(app) - by, 0}))

\* A press: on either column of the pane divider, on the middle, or on neither.
GrabAt(app, x, inside) ==
  CASE x \in {PlanCols(app) - 1, PlanCols(app)} -> <<"panes", x - PlanCols(app)>>
    [] x \notin {PlanCols(app) - 1, PlanCols(app)} /\ Split(app) /\ inside /\ x = SplitColumn(app) -> <<"split">>
    [] OTHER -> <<>>
Press_at(app, x, inside) == [app EXCEPT !.grab = GrabAt(app, x, inside)]

\* Mutant: whichever column the press landed on, the first is the one moved.
DragPanesTo_first(app, x, off) == SetPlanCols(app, Max({x + 1, 0}))

DragPanesTo(app, x, off) == SetPlanCols(app, Max({x - off, 0}))
DragSplitTo(app, x) ==
  Remeasure([app EXCEPT !.offset = x - (PlanCols(app) + 1) - HalfCentre(DetailCols(app))])

DragTo(app, x) ==
  CASE app.grab = <<>> -> app
    [] app.grab # <<>> /\ app.grab[1] = "panes" -> DragPanesTo(app, x, app.grab[2])
    [] OTHER -> DragSplitTo(app, x)

-----------------------------------------------------------------------------
(* A click in a pane *)

\* `enter` on the plan, and a click on what is selected there.
EnterPlanEntry(app) == [app EXCEPT !.focus = "detail"]

ClickPlan(app, line) ==
  LET here == [app EXCEPT !.focus = "groups"]
      hit == EntryAtLine(PlanHeights(app), app.top, line)
  IN CASE hit = NoEntry -> here
       [] hit # NoEntry /\ hit = app.at[app.view] -> EnterPlanEntry(here)
       [] OTHER -> SelectEntry(here, hit)

ClickDetail(app, line) ==
  LET here == [app EXCEPT !.focus = "detail"]
      hit == EntryAtLine(Heights(app), app.scroll, line)
  IN IF hit # NoEntry /\ hit \in Selectable THEN Onto(here, hit) ELSE here

WheelPlan(app, down) ==
  SelectEntry([app EXCEPT !.focus = "groups"], app.at[app.view] + IF down THEN 1 ELSE -1)
WheelDetail(app, down) == MoveCursor([app EXCEPT !.focus = "detail"], down)
=============================================================================
