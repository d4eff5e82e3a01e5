-------------------------------- MODULE Desk --------------------------------
(***************************************************************************)
(* The reviewer at its terminal: every key, click, notch, drag and resize,  *)
(* taken in the order they arrive, over whatever is open, with the forge's  *)
(* answers landing between them (tui app/keys.rs, lib.rs, cli lib.rs).      *)
(***************************************************************************)
EXTENDS Modals

CONSTANTS
  Configs,   \* the configs a reviewer may find in its file
  Areas,     \* the screens a terminal is resized to
  Presses,   \* the keys pressed
  Columns,   \* the columns a divider is dragged to
  MaxLine,   \* lines of a box or a pane a click may land on
  Entries    \* the findings there are

\* A file gives every field a value, and keys only what may be typed for them.
DeskAssumption ==
  /\ \A c \in Configs :
       DOMAIN c = ToSet(Fields) /\ \A action \in ToSet(KeyRows) : c[action] \in KeyLists(action)
  /\ \A area \in Areas : area.w \in Nat /\ area.h \in Nat
  /\ Columns \subseteq Nat /\ Default_cols \in Nat /\ ResizeStep \in Nat
  /\ Entries \in Seq([section : Nat, thread : BOOLEAN])
ASSUME DeskAssumption

VARIABLES
  app,     \* the reviewer's state
  lost,    \* a notice took the place of an edited config: its draft is still worn
  astray   \* the open list was resized under, or clicked where it draws no entry

deskVars == <<app, lost, astray>>

-----------------------------------------------------------------------------
(* A key (on_key) *)

\* What every press means under every table that makes a keymap.
Accepted == {t \in KeyTables : Faults[t] = 0}
KeyMaps == [t \in Accepted |-> Bound(t)]
Begun_presses == {<<>>} \cup {SubSeq(k, 1, Len(k) - 1) : k \in UNION {UNION {ToSet(KeyMaps[t][row]) : row \in Table} : t \in Accepted}}
Looks ==
  [t \in Accepted |-> [screen \in Screens |-> [pending \in Begun_presses |-> [key \in Presses |->
     Lookup(KeyMaps[t], screen, pending, key)]]]]

Half == {"half-page-down", "half-page-up"}

\* An action in the review. What it does to rows, notes and folds is Reviewer.tla's.
NormalAction(a, action) ==
  LET detail == a.focus = "detail"
      Entry(to) == SelectEntry(a, to)
      here == a.at[a.view]
  IN CASE action = "toggle-focus" -> [a EXCEPT !.focus = IF detail THEN "groups" ELSE "detail"]
       [] action = "open" /\ ~detail -> EnterPlanEntry(a)
       [] action \in {"down", "up"} /\ detail -> MoveCursor(a, action = "down")
       [] action = "next-group" \/ (action = "down" /\ ~detail) -> Entry(here + 1)
       [] action = "prev-group" \/ (action = "up" /\ ~detail) -> Entry(here - 1)
       [] action \in Half -> HalfPage(a, action = "half-page-down")
       [] action = "top" -> Onto(a, FirstRow)
       [] action = "bottom" -> Onto(a, Max(Selectable))
       [] action \in {"next-hunk", "prev-hunk"} -> JumpHunk(a, action = "next-hunk")
       [] action = "toggle-split" -> ToggleSplit(a)
       [] action = "toggle-wrap" -> ToggleWrap(a)
       [] action = "grow-diff" -> ResizeDiff(a, ResizeStep)
       [] action = "shrink-diff" -> ResizeDiff(a, -ResizeStep)
       [] action = "findings" -> OpenFindings(a)
       [] action = "search" -> OpenSearch(a)
       [] action = "files" -> IF detail THEN OpenFileList(a) ELSE ToggleFileView(a)
       [] action \in {"comment", "reply"} -> [a EXCEPT !.mode = Composer]
       [] action \in {"refetch", "resolve"} -> StartFetch(a)
       [] action = "publish" -> OfferPublish(a)
       [] OTHER -> a

FileListAction(a, action) ==
  CASE action \in {"down", "up"} ->
         [a EXCEPT !.mode = Step(@, FileEntries, FilesShown(a), action = "down")]
    [] action = "open" -> GoToFile(a)
    [] action = "search" -> OpenSearch(a)
    [] action \in {"close", "files"} -> BackToReview(a)
    [] OTHER -> a

FindingsAction(a, action) ==
  CASE action \in {"down", "up"} -> FindingsStep(a, action = "down")
    [] action = "clear-notes" -> AskToClear(a)
    [] action = "delete" -> DeleteFinding(a)
    [] action = "publish" -> OfferPublish(BackToReview(a))
    [] action = "open" -> GoToFinding(a)
    [] action = "search" -> OpenSearch(a)
    [] action \in {"close", "findings"} -> BackToReview(a)
    [] OTHER -> a

Acts(a, screen, action) ==
  CASE screen = "review" -> NormalAction(a, action)
    [] screen = "files" -> FileListAction(a, action)
    [] screen = "findings" -> FindingsAction(a, action)

\* The keys no table may move come first, then the table.
Looked(a, screen, found) ==
  CASE found.kind = "act" -> Acts(a, screen, found.action)
    [] found.kind = "pending" -> [a EXCEPT !.pending = found.presses]
    [] OTHER -> a
ScreenKey(a, screen, pending, key) ==
  CASE key = "q" -> IF screen = "review" THEN ToQuit(a) ELSE BackToReview(a)
    [] key = "?" -> OpenHelp(a)
    [] key = ":" -> OpenCommand(a)
    [] OTHER -> Looked(a, screen, Looks[a.bound][screen][pending][key])

\* Where the keys are fixed.
FixedKey(a, key) ==
  CASE a.mode.kind = "help" -> [a EXCEPT !.mode = a.mode.from]
    [] a.mode.kind = "notice" -> BackToReview(a)
    [] a.mode.kind = "findings" -> Confirmed(a, key)
    [] a.mode.kind = "question" -> IF key = "y" THEN StartFetch(BackToReview(a)) ELSE BackToReview(a)
    [] a.mode.kind = "composer" -> IF key \in {"esc", "enter", "ctrl-s"} THEN BackToReview(a) ELSE a
    [] a.mode.kind = "search" -> SearchKey(a, key)
    [] a.mode.kind = "command" -> CommandKey(a, key)
    [] a.mode.kind = "config" -> ConfigKey(a, key)
    [] OTHER -> a

\* The presses pending are taken before the key is read, and a grab is let go.
OnKey(a, key) ==
  LET taken == [a EXCEPT !.pending = <<>>, !.grab = <<>>]
  IN CASE key = "ctrl-c" -> ToQuit(a)
       [] key # "ctrl-c" /\ ScreenOf(a.mode) # NoScreen -> ScreenKey(taken, ScreenOf(a.mode), a.pending, key)
       [] OTHER -> FixedKey(taken, key)

\* A footer's button presses its keys one after another.
PressEach(a, keys) ==
  LET upto[n \in 0 .. Len(keys)] == IF n = 0 THEN a ELSE OnKey(upto[n - 1], keys[n])
  IN  upto[Len(keys)]

-----------------------------------------------------------------------------
(* The mouse (on_mouse) *)

\* The actions a place's footer names, and the fixed keys it does.
FooterActs(mode) ==
  CASE ScreenOf(mode) = "review" -> {"open", "toggle-reviewed", "comment", "delete", "files"}
    [] ScreenOf(mode) = "findings" -> {"open", "delete", "clear-notes", "copy", "publish", "close"}
    [] OTHER -> {}
FooterKeys(mode) ==
  CASE mode.kind = "findings" /\ mode.confirming -> {"y", "n"}
    [] mode.kind = "question" -> {"y", "esc"}
    [] mode.kind \in {"composer", "search"} -> {"enter", "esc"}
    [] mode.kind = "config" /\ mode.list = <<>> /\ mode.typing = <<>> -> {"r", "ctrl-s", "esc"}
    [] mode.kind = "config" /\ ~(mode.list = <<>> /\ mode.typing = <<>>) -> {"enter", "esc"}
    [] ScreenOf(mode) # NoScreen -> {"?"}
    [] OTHER -> {}

\* A row of the footer presses the first key of its action, and is left out without one.
Buttons(a) ==
  LET keys(action) == Bindings(KeyMaps[a.bound], ScreenOf(a.mode), action)
  IN {<<key>> : key \in FooterKeys(a.mode)} \cup
     {keys(action)[1] : action \in {act \in FooterActs(a.mode) : keys(act) # <<>>}}

\* A click on a line of what is open, Off when the pointer is outside its box.
Off == -1
ClickOpen(a, line) ==
  CASE a.mode.kind = "help" -> [a EXCEPT !.mode = a.mode.from]
    [] a.mode.kind = "notice" -> BackToReview(a)
    [] a.mode.kind = "config" -> IF line = Off /\ a.mode.list = <<>> THEN a ELSE ClickConfig(a, a.mode, Max({line, 0}))
    [] a.mode.kind = "files" -> IF line = Off THEN BackToReview(a) ELSE ClickFiles(a, line)
    [] a.mode.kind = "findings" /\ a.mode.confirming -> [a EXCEPT !.mode.confirming = FALSE]
    [] a.mode.kind = "findings" /\ ~a.mode.confirming -> IF line = Off THEN BackToReview(a) ELSE ClickFindings(a, line)
    [] a.mode.kind = "search" -> IF line = Off THEN CloseSearch(a) ELSE ClickSearch(a, line)
    [] OTHER -> a

\* A notch over it.
WheelOpen(a, down) ==
  CASE a.mode.kind = "config" -> WheelConfig(a, a.mode, down)
    [] a.mode.kind = "files" -> [a EXCEPT !.mode = Step(@, FileEntries, FilesShown(a), down)]
    [] a.mode.kind = "findings" /\ ~a.mode.confirming -> FindingsStep(a, down)
    [] a.mode.kind = "search" -> SearchStep(a, down)
    [] OTHER -> a

\* In the panes a press first lets go of the divider, or takes hold of one.
ClickPane(a, pane, line) ==
  LET free == [a EXCEPT !.grab = <<>>]
  IN IF pane = "plan" THEN ClickPlan(free, line) ELSE ClickDetail(free, line)
WheelPane(a, pane, down) == IF pane = "plan" THEN WheelPlan(a, down) ELSE WheelDetail(a, down)

-----------------------------------------------------------------------------
(* The terminal's events *)

Running == app.mode.kind # "quit"
InPanes == Running /\ app.mode.kind = "normal"
Over == Running /\ app.mode.kind # "normal"

\* Whether the same thing is open, or waits under help, and so the same list.
Under(mode) == IF mode.kind = "help" THEN mode.from ELSE mode
SameOpen(a, b) == Under(a.mode).kind = Under(b.mode).kind
Takes(to, blank) ==
  /\ app' = to
  /\ astray' = (SameOpen(app, to) /\ (astray \/ blank))
  /\ lost' = (lost /\ (to.mode.kind = "config" \/ to.shown # Worn(to.user)))
Goes(to) == Takes(to, FALSE)

Key(key) == Running /\ \A to \in {OnKey(app, key)} : Goes(to)
Button(keys) == Running /\ \A to \in {PressEach(app, keys)} : Goes(to)

\* The text in a box: a query, a command, a value.
Types ==
  /\ Over
  /\ \/ app.mode.kind = "search" /\ \E q \in DOMAIN Hits : Goes(SearchTypes(app, q))
     \/ app.mode.kind = "command" /\ \E t \in DOMAIN Completes : Goes(CommandTypes(app, t))
     \/ /\ app.mode.kind = "config" /\ app.mode.typing # <<>>
        /\ \E t \in Typed[FieldOf(app.mode)] : Goes(ConfigTypes(app, t))

\* A line of the findings' box that draws no entry: blank, or the footer's. (The settings
\* follow a click wherever it lands.)
Blank(line) == app.mode.kind = "findings" /\ line >= FindingsShown(app)

\* The file list's box has no line but its entries'.
Inside(line) == app.mode.kind = "files" => line < FilesShown(app)

Click(line) == Over /\ Inside(line) /\ \A to \in {ClickOpen(app, line)} : Takes(to, Blank(line))
Wheel(down) == Over /\ \A to \in {WheelOpen(app, down)} : Goes(to)

ClickIn(pane, line) == InPanes /\ line < PaneRows(app) /\ \A to \in {ClickPane(app, pane, line)} : Goes(to)
WheelIn(pane, down) == InPanes /\ \A to \in {WheelPane(app, pane, down)} : Goes(to)

\* A press on a divider, and a drag: nothing else open may move one.
Grab(x) == InPanes /\ GrabAt(app, x, TRUE) # <<>> /\ Goes(Press_at(app, x, TRUE))
Drag(x) == InPanes /\ app.grab # <<>> /\ x < app.area.w /\ \A to \in {DragTo(app, x)} : Goes(to)

\* A resize measures the panes again, and nothing of the list that is open.
SetsArea(area) ==
  /\ Running
  /\ app' = SetArea(app, area)
  /\ astray' = (Under(app.mode).kind # "normal")
  /\ UNCHANGED lost

\* The forge answers, or fails: a notice takes the place of whatever is open.
Answered == Running /\ app.calling /\ Goes(Rebuild([app EXCEPT !.calling = FALSE]))
Failed ==
  /\ Running /\ app.calling
  /\ app' = [app EXCEPT !.calling = FALSE, !.mode = Notice]
  /\ astray' = FALSE
  /\ lost' = (app.shown # Worn(app.user))

-----------------------------------------------------------------------------
\* A reviewer that opens under a file: what the review recorded is kept beside it.
Opened(file, disk, area, view, recorded, wrap) ==
  FollowPlan(FollowCursor(
    [area |-> area, mode |-> Normal, user |-> file, shown |-> Worn(file), bound |-> KeysOf(file),
     pending |-> <<>>, file |-> file, disk |-> disk,
     view |-> view, focus |-> "groups", cols |-> [v \in {"groups", "files"} |-> Default_cols],
     offset |-> 0, grab |-> <<>>, at |-> [v \in {"groups", "files"} |-> 1], top |-> 1,
     cursor |-> FirstRow, scroll |-> 1, recorded |-> recorded, wrap |-> wrap, followed |-> FALSE,
     entries |-> Entries, last |-> [query |-> "", hit |-> 1], calling |-> FALSE]))

DeskInit ==
  /\ \E file \in {c \in Configs : Opens(c)}, disk \in {"ok", "refuses"}, area \in Areas :
       app = Opened(file, disk, area, "groups", Unset, FALSE)
  /\ lost = FALSE /\ astray = FALSE

Restart ==
  /\ ~Running /\ Opens(app.file)
  /\ app' = Opened(app.file, app.disk, app.area, app.view, app.recorded, app.wrap)
  /\ lost' = FALSE /\ astray' = FALSE

DeskNext ==
  \/ \E key \in Presses : Key(key)
  \/ \E keys \in Buttons(app) : Button(keys)
  \/ Types
  \/ \E line \in Off .. MaxLine : Click(line)
  \/ \E down \in BOOLEAN : Wheel(down)
  \/ \E pane \in {"plan", "detail"}, line \in 0 .. MaxLine : ClickIn(pane, line)
  \/ \E pane \in {"plan", "detail"}, down \in BOOLEAN : WheelIn(pane, down)
  \/ \E x \in {PlanCols(app) - 1, PlanCols(app), SplitColumn(app)} : Grab(x)
  \/ \E x \in Columns : Drag(x)
  \/ \E area \in Areas \ {app.area} : SetsArea(area)
  \/ Answered
  \/ Failed
  \/ Restart

DeskSpec == DeskInit /\ [][DeskNext]_deskVars

-----------------------------------------------------------------------------
(* What is expected of it *)

\* What the screen wears is the draft while `:config` is open and the config the reviewer
\* runs under otherwise, whatever key, click or answer closed it (but a notice: `lost`);
\* the keys are that config's; and the file it was saved to is one the reviewer opens under.
ScreenIsTheConfig ==
  Running =>
    /\ lost \/ app.shown = Worn(IF app.mode.kind = "config" THEN app.mode.draft ELSE app.user)
    /\ app.bound = KeysOf(app.user) /\ app.file = app.user /\ Opens(app.file)

\* Every key a table binds can be pressed: under each keymap a reviewer comes to run with,
\* a binding's presses, one after another with none pending, are pending until the last and
\* then are its action, in every screen the action is of. (Not one that holds a reserved key
\* among others, or that another of its own action's starts: the table allows both, and
\* the presses of neither are read to the end.)
Answers ==
  [t \in Accepted |->
     \A screen \in Screens : \A row \in In(screen) : \A k \in ToSet(KeyMaps[t][row]) :
       /\ ToSet(k) \cap Reserved = {}
       /\ \A other \in ToSet(KeyMaps[t][row]) : IsPrefix(other, k) => other = k
       =>
         \A i \in DOMAIN k :
           Lookup(KeyMaps[t], screen, SubSeq(k, 1, i - 1), k[i]) =
             IF i < Len(k) THEN Pending(SubSeq(k, 1, i)) ELSE Act(Defaults[row].action)]
BindingsAnswer == Running => Answers[app.bound]

\* A list as its widget draws it: from the offset it was handed, and with the hit test
\* finding on every line what is drawn there.
AsDrawn(items, heights, offset, selected, height, Hit(_)) ==
  /\ Shown(heights, offset, selected, height) = offset
  /\ \A d \in DrawnAt(heights, offset, height) : Hit(d[2]) = items[d[1]]

Each(n) == [i \in 1 .. n |-> i]
Single(items) == [i \in DOMAIN items |-> 1]

\* Items with a rule before each section's first entry, and where an entry is among them.
WithRules(n, rules) == FlattenSeq([i \in 1 .. n |-> IF i \in rules THEN <<NoEntry, i>> ELSE <<i>>])
ItemOf(items, entry) == SelectInSeq(items, LAMBDA item : item = entry)

FilesDrawn ==
  AsDrawn(Each(FileEntries), Single(Each(FileEntries)), app.mode.scroll, app.mode.selected, FilesShown(app),
          LAMBDA line : FileHit(app.mode, line))

FindingsDrawn ==
  LET items == WithRules(Len(app.entries), Rules(app.entries))
  IN AsDrawn(items, Single(items), FindingsSkip(app.mode.scroll, Rules(app.entries)) + 1,
             ItemOf(items, app.mode.selected), FindingsShown(app),
             LAMBDA line : FindingHit(app, line))

SearchDrawn ==
  LET n == Hits[app.mode.query]
  IN AsDrawn(Each(n), Single(Each(n)), app.mode.scroll, app.mode.selected, SearchShown(app),
             LAMBDA line : SearchHit(app, line + 1))

\* Where the notes leave the settings the rows they are counted to have.
Settings_drawn == WithRules(Len(Fields), {1} \cup Starts(Sections))
NoteRows == LET n == ConfigNotes(app.mode, app.area) IN IF n = 0 THEN 0 ELSE n + 1
ConfigFits == Less(Body(app.area), ConfigTop(app.area) + 7 + NoteRows) >= 3
ConfigDrawn ==
  LET items == Settings_drawn
      height == Less(Body(app.area), ConfigTop(app.area) + 4 + NoteRows)
      top == ConfigTop(app.area)
  IN AsDrawn(items, Single(items), ItemOf(items, app.mode.scroll), ItemOf(items, app.mode.selected), height,
             LAMBDA line : ConfigRowAt(Sections, app.mode.scroll, top + 1 + line, top))

PlanDrawn ==
  LET heights == PlanHeights(app)
  IN AsDrawn(Each(Len(heights)), heights, app.top, app.at[app.view], PaneRows(app),
             LAMBDA line : EntryAtLine(heights, app.top, line))

\* Rows are laid down from the scroll until the pane is full: one of them begins and ends
\* in it.
DrawnWhole(i) == app.scroll <= i /\ Tall(Heights(app), app.scroll, i) <= PaneRows(app)

\* The cursor's row is drawn whole, unless it and the rows of its margin are taller than the
\* pane, or it is the first that can be selected and the pane shows the top of what is above
\* it, or the layout changed under it with no event to follow it.
CursorSeen ==
  \/ app.followed # Split(app)
  \/ app.cursor = FirstRow /\ app.scroll = 1
  \/ Tall(Heights(app), Max({app.cursor - Margin, 1}), app.cursor) > PaneRows(app)
  \/ DrawnWhole(app.cursor)

\* What is under the pointer is what is drawn there, and the selection is always drawn: the
\* scroll the model keeps and the rows it counts are the widget's, in every list, with the
\* rules, the notes and the blocks of several lines that are drawn between the entries.
UnderThePointer ==
  ~astray =>
    CASE app.mode.kind = "files" -> FilesDrawn
      [] app.mode.kind = "findings" -> FindingsDrawn
      [] app.mode.kind = "search" -> SearchDrawn
      [] app.mode.kind = "config" /\ ConfigFits -> ConfigDrawn
      [] app.mode.kind = "normal" /\ PaneRows(app) >= Least_rows -> PlanDrawn /\ CursorSeen
      [] OTHER -> TRUE

\* At a wall: one of the two sides is at its floor, or the span is too narrow for two.
AtWall(at, span, floor) == at = floor \/ at = span - floor \/ span < 2 * floor

\* A divider that is dragged stays under the pointer that holds it, whichever of its columns
\* was pressed and whatever the terminal did since, or stops at a wall; a resize key moves
\* the divider that is drawn, by its step or to a wall; and neither moves the other list's.
\* A footer's button of several presses may be several of these (`SeveralPresses`), where the
\* first is taken for the end of a sequence that was begun before it was clicked.
Follows(x) ==
  IF app.grab[1] = "panes"
  THEN /\ PlanCols(app') + app.grab[2] = x \/ AtWall(PlanCols(app'), app.area.w, MinPane)
       /\ app'.offset = app.offset
  ELSE /\ \/ SplitColumn(app') = x
          \/ AtWall(HalfWidths(DetailCols(app), app'.offset)[1], Less(DetailCols(app), 1), MinHalf)
       /\ app'.cols = app.cols

Resized ==
  PlanCols(app') - PlanCols(app) \in {ResizeStep, -ResizeStep} \/ AtWall(PlanCols(app'), app.area.w, MinPane)

SeveralPresses == \E keys \in Buttons(app) : Len(keys) > 1 /\ Button(keys)

DividerMoves ==
  [][Running =>
     /\ app.grab # <<>> => \A x \in Columns : Drag(x) => Follows(x)
     /\ app'.grab = <<>> /\ app'.cols # app.cols => Resized \/ SeveralPresses
     /\ SeveralPresses \/ \A v \in DOMAIN app.cols : v # app.view => app'.cols[v] = app.cols[v]]_deskVars
=============================================================================
