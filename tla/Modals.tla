------------------------------- MODULE Modals -------------------------------
(***************************************************************************)
(* What opens over the panes: the file list, the findings, the search, the  *)
(* command line, help, a question, the composer, a notice (tui app/keys.rs, *)
(* app/search.rs, app/command.rs, app/help.rs, app/findings.rs).            *)
(*                                                                         *)
(* app.mode is what is open, by its kind. Of the reviewer's state this      *)
(* module is also about                                                     *)
(*   entries  what the findings list holds: [section, thread]               *)
(*   last     the search's query and hit, kept between two openings         *)
(*   calling  a forge call is in flight                                     *)
(* The text of a note and what the forge answers are not here: Reviewer.tla *)
(* and Publish.tla have them.                                               *)
(***************************************************************************)
EXTENDS Panes, Sorting

CONSTANTS
  Hits,      \* how many lines each query finds
  Landing,   \* the row a jump from a list lands on
  Completes  \* the commands each text on the command line could become

\* A jump lands on a row the cursor may stand on, or above one.
ModalsAssumption ==
  /\ "" \in DOMAIN Hits /\ \A query \in DOMAIN Hits : Hits[query] \in Nat
  /\ "" \in DOMAIN Completes
  /\ Landing \in DOMAIN Diff /\ \E i \in DOMAIN Diff : Landing <= i /\ Diff[i].selectable
ASSUME ModalsAssumption

Normal == [kind |-> "normal"]
Notice == [kind |-> "notice"]
Composer == [kind |-> "composer"]
Question == [kind |-> "question"]
BackToReview(app) == [app EXCEPT !.mode = Normal]

\* The screen whose keys the next key is looked up in, or none where they are fixed.
NoScreen == "none"
ScreenOf(mode) ==
  CASE mode.kind = "normal" -> "review"
    [] mode.kind = "files" -> "files"
    [] mode.kind = "findings" /\ ~mode.confirming -> "findings"
    [] OTHER -> NoScreen

Jumped(app) == Land(BackToReview(app), Landing)

-----------------------------------------------------------------------------
(* The file list: the headers among the rows *)

FileEntries == Cardinality({i \in DOMAIN Diff : Diff[i].file})
FilesShown(app) == FileListRows(FileEntries, Body(app.area))

OpenFileList(app) ==
  IF FileEntries = 0 THEN app ELSE [app EXCEPT !.mode = [kind |-> "files", selected |-> 1, scroll |-> 1]]

\* One step of a list, and the window after it.
Step(mode, len, rows, down) ==
  LET to == Stepped(mode.selected, len, down)
  IN [mode EXCEPT !.selected = to, !.scroll = Follow(to, @, rows)]

GoToFile(app) ==
  Land(BackToReview(app), InOrder({i \in DOMAIN Diff : Diff[i].file})[app.mode.selected])

FileHit(mode, line) == mode.scroll + line
ClickFiles(app, line) ==
  LET hit == FileHit(app.mode, line)
  IN CASE hit > FileEntries -> app
       [] hit <= FileEntries /\ hit = app.mode.selected -> GoToFile(app)
       [] OTHER -> [app EXCEPT !.mode.selected = hit]

-----------------------------------------------------------------------------
(* The findings *)

FindingsShown(app) == FindingsRows(Len(app.entries), Rules(app.entries), Body(app.area))

OpenFindings(app) ==
  IF app.entries = <<>> THEN app
  ELSE [app EXCEPT !.mode = [kind |-> "findings", selected |-> 1, scroll |-> 1, confirming |-> FALSE]]

\* A list rebuilt in place, the selection as near where it was as the list allows.
ReopenFindings(app, mode) ==
  LET opened == OpenFindings(BackToReview(app))
      at == Min({mode.selected, Len(app.entries)})
  IN IF app.entries = <<>> THEN opened
     ELSE [opened EXCEPT !.mode.selected = at,
             !.mode.scroll = FindingsFollow(at, mode.scroll, FindingsShown(app), Rules(app.entries))]

FindingsStep(app, down) ==
  LET to == Stepped(app.mode.selected, Len(app.entries), down)
  IN [app EXCEPT !.mode.selected = to,
        !.mode.scroll = FindingsFollow(to, @, FindingsShown(app), Rules(app.entries))]

\* A note goes; a thread is somebody's on the forge, and is asked about or refused.
Local(entry) == ~entry.thread
DeleteFinding(app) ==
  IF Local(app.entries[app.mode.selected])
  THEN ReopenFindings(Rebuild([app EXCEPT !.entries = RemoveAt(@, app.mode.selected)]), app.mode)
  ELSE [app EXCEPT !.mode = Question]
ClearFindings(app) ==
  LET left == Taken(app.entries, {i \in DOMAIN app.entries : ~Local(app.entries[i])})
  IN ReopenFindings(Rebuild([app EXCEPT !.entries = left]), app.mode)
AskToClear(app) ==
  [app EXCEPT !.mode.confirming = \E i \in DOMAIN app.entries : Local(app.entries[i])]

\* An entry no row holds cannot be reached: only the list closes.
GoToFinding(app) ==
  IF app.entries[app.mode.selected].section = 2 THEN BackToReview(app) ELSE Jumped(app)

FindingHit(app, line) ==
  FindingsEntryAtLine(Len(app.entries), Rules(app.entries),
                      FindingsSkip(app.mode.scroll, Rules(app.entries)) + line)
ClickFindings(app, line) ==
  LET hit == FindingHit(app, line)
  IN CASE hit = NoEntry -> app
       [] hit # NoEntry /\ hit = app.mode.selected -> GoToFinding(app)
       [] OTHER -> [app EXCEPT !.mode.selected = hit]

\* `D` waits: only `y` is a yes.
Confirmed(app, key) ==
  IF key = "y" THEN ClearFindings([app EXCEPT !.mode.confirming = FALSE])
  ELSE [app EXCEPT !.mode.confirming = FALSE]

-----------------------------------------------------------------------------
(* The search: a query, what it finds, and the one selected *)

SearchShown(app) == SearchListRows(Body(app.area))
Searched(query) == [kind |-> "search", query |-> query, selected |-> 1, scroll |-> 1]

\* It opens on the last query, at the last hit.
OpenSearch(app) ==
  LET hit == Max({Min({app.last.hit, Hits[app.last.query]}), 1})
  IN [app EXCEPT !.mode = [Searched(app.last.query) EXCEPT !.selected = hit,
                             !.scroll = Follow(hit, 1, SearchShown(app))]]
CloseSearch(app) ==
  [BackToReview(app) EXCEPT !.last = [query |-> app.mode.query, hit |-> app.mode.selected]]

SearchStep(app, down) ==
  [app EXCEPT !.mode = Step(@, Hits[@.query], SearchShown(app), down)]
SearchJump(app) == IF Hits[app.mode.query] = 0 THEN app ELSE Land(CloseSearch(app), Landing)

\* The query typed, pasted over, or read another way: the scan starts at the best hit.
SearchTypes(app, query) == [app EXCEPT !.mode = Searched(query)]

SearchKey(app, key) ==
  CASE key = "esc" -> CloseSearch(app)
    [] key = "enter" -> SearchJump(app)
    [] key \in {"down", "ctrl-n"} -> SearchStep(app, TRUE)
    [] key \in {"up", "ctrl-p"} -> SearchStep(app, FALSE)
    [] OTHER -> app

SearchHit(app, line) ==
  LET hit == app.mode.scroll + line - 1
  IN IF line \in 1 .. SearchShown(app) /\ hit <= Hits[app.mode.query] THEN hit ELSE NoEntry
ClickSearch(app, line) ==
  LET hit == SearchHit(app, line)
  IN CASE hit = NoEntry -> app
       [] hit # NoEntry /\ hit = app.mode.selected -> SearchJump(app)
       [] OTHER -> [app EXCEPT !.mode.selected = hit, !.mode.scroll = Follow(hit, @, SearchShown(app))]

-----------------------------------------------------------------------------
(* The command line: what was typed, the line `tab` makes of it, and which *)
(* candidate that was. The text after a command's name is not modelled. *)

OpenCommand(app) == [app EXCEPT !.mode = [kind |-> "command", typed |-> "", line |-> "", pick |-> 0]]
CommandTypes(app, text) == [app EXCEPT !.mode.typed = text, !.mode.line = text, !.mode.pick = 0]

Walk(app, by) ==
  LET found == Completes[app.mode.typed]
      next == IF app.mode.pick = 0 THEN IF by > 0 THEN 1 ELSE Len(found)
              ELSE ((app.mode.pick - 1 + by) % Len(found)) + 1
  IN IF found = <<>> THEN app ELSE [app EXCEPT !.mode.pick = next, !.mode.line = found[next]]

OpenHelp(app) == [app EXCEPT !.mode = [kind |-> "help", from |-> app.mode]]
OfferPublish(app) ==
  IF ~app.calling /\ \E i \in DOMAIN app.entries : Local(app.entries[i])
  THEN [app EXCEPT !.mode = Question] ELSE app
StartFetch(app) == [app EXCEPT !.calling = TRUE]
ToQuit(app) == [app EXCEPT !.mode = [kind |-> "quit"]]

RunCommand(app, name) ==
  CASE name = "config" -> OpenConfig(app)
    [] name = "help" -> OpenHelp(app)
    [] name = "findings" -> OpenFindings(app)
    [] name = "search" -> OpenSearch(app)
    [] name = "files" -> OpenFileList(app)
    [] name = "publish" -> OfferPublish(app)
    [] name = "refetch" -> StartFetch(app)
    [] name \in {"quit", "q"} -> ToQuit(app)
    [] OTHER -> app

CommandKey(app, key) ==
  CASE key = "esc" \/ (key = "backspace" /\ app.mode.line = "") -> BackToReview(app)
    [] key = "enter" -> RunCommand(BackToReview(app), app.mode.line)
    [] key \in {"tab", "down"} -> Walk(app, 1)
    [] key \in {"shift-tab", "up"} -> Walk(app, -1)
    [] key = "right" /\ app.mode.pick = 0 /\ app.mode.line # "" /\ Completes[app.mode.line] # <<>> ->
         CommandTypes(app, Completes[app.mode.line][1])
    [] OTHER -> app
=============================================================================
