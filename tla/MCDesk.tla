------------------------------- MODULE MCDesk -------------------------------
(* The reviewer at a small terminal, with a short diff and a short config. *)
EXTENDS Desk

\* Another spelling of a press, and words that are none.
MCRespelt == ("ctrl-C" :> "ctrl-c")
MCNoKeys == {"hyper-x"}

MCAgents == <<"claude", "codex">>
MCThemes == <<"dark", "light">>
MCLayouts == <<"split", "unified">>
MCKeyRows == <<"down", "delete">>
MCRunnable == {<<"words", "vi">>}

Text(word) == <<"words", word>>
Keys(list) == <<"list", list>>
MCTyped ==
  [field \in ToSet(Fields) |->
     CASE field = "timeout_secs" -> {<<"number", 0>>, <<"number", 120>>}
       [] field = "context" -> {<<"number", 0>>, Text("x")}
       [] field = "context_step" -> {<<"number", 0>>, <<"number", 2>>}
       [] field = "editor" -> {Empty, Text("vi"), Text("'")}
       [] field = "down" -> {Keys(DefaultKeys("down")), Keys(<<<<"d">>>>), Keys(<<<<"q">>>>), Keys(<<<<"m">>>>)}
       [] field = "delete" -> {Keys(DefaultKeys("delete")), Keys(<<<<"d", "x">>, <<"hyper-x">>>>), Keys(<<<<"d">>, <<"d", "d">>>>), Keys(<<<<"q", "d">>>>)}
       [] OTHER -> {}]

Plain == Default
Rebound == [Default EXCEPT !["down"] = <<<<"m">>>>]
Clashing == [Default EXCEPT !["down"] = <<<<"d">>>>]
MCConfigs == {Plain, Rebound, Clashing}

\* What a group is about and comes after, two files and a note: in the narrowest pane the
\* former is taller than the pane is.
Line(selectable, hunk, file, text, left, right) ==
  [selectable |-> selectable, hunk |-> hunk, file |-> file, text |-> text, left |-> left, right |-> right]
Code(left, right) == Line(TRUE, FALSE, FALSE, "code", left, right)
Prose(selectable, len) == Line(selectable, FALSE, FALSE, "prose", len, 0)
FileLine == Line(FALSE, FALSE, TRUE, "chrome", 60, 0)
HunkLine == Line(TRUE, TRUE, FALSE, "chrome", 20, 0)
Blank_line == Line(FALSE, FALSE, FALSE, "chrome", 0, 0)
MCDiff == <<
  Prose(FALSE, 20), Prose(FALSE, 110), Prose(FALSE, 20), Blank_line,
  FileLine, HunkLine, Code(20, 0), Code(30, 70), Prose(TRUE, 50), Blank_line,
  FileLine, HunkLine, Code(0, 60)>>

MCBlocks == <<2, 3, 3, 3, 2>>
MCHits == ("" :> 0) @@ ("a" :> 9) @@ ("b" :> 2)
Commands == <<"config", "help", "findings", "search", "files", "publish", "refetch", "copy", "quit">>
MCCompletes ==
  ("" :> Commands) @@ ("f" :> <<"findings", "files">>) @@ ("none" :> <<>>) @@ ("q" :> <<"quit">>)
  @@ [name \in ToSet(Commands) |-> <<name>>]

Note(section, thread) == [section |-> section, thread |-> thread]
MCEntries == <<Note(0, FALSE), Note(0, FALSE), Note(1, TRUE), Note(1, TRUE), Note(2, FALSE), Note(2, TRUE)>>

MCAreas == {[w |-> 90, h |-> 16], [w |-> 50, h |-> 11], [w |-> 30, h |-> 13], [w |-> 60, h |-> 5]}
MCPresses ==
  {"tab", "enter", "esc", "j", "k", "J", "ctrl-d", "ctrl-u", "g", "G", "n", "s", "w", "alt-=",
   "alt--", "f", "F", "/", "d", "D", "c", "R", "P", "q", "?", ":", "y", "r", "h", "l", "m", "space",
   "ctrl-s", "ctrl-c", "backspace", "shift-tab", "up", "down", "right"}
MCColumns == {0, 31, 89}

\* The widths a divider is moved on from.
Widths == {20, 32, 36, 40, 70}

\* How far the panes are from how they open, and the rest of the reviewer from how it does.
True(S) == Cardinality({x \in S : x[2]})
Moved ==
  True({<<1, app.view # "groups">>, <<2, app.cols["groups"] # Default_cols>>,
        <<3, app.cols["files"] # Default_cols>>, <<4, \E v \in DOMAIN app.cols : app.cols[v] \notin Widths>>,
        <<5, app.offset # 0>>, <<6, app.area.w # 90>>, <<7, app.recorded # Unset>>, <<8, app.wrap>>,
        <<9, app.cursor # FirstRow>>, <<10, app.at["groups"] + app.at["files"] # 2>>,
        <<11, app.grab # <<>>>>, <<12, app.focus # "groups">>,
        <<13, app.at["groups"] + app.at["files"] # 2 /\ app.area.w = 90>>})
Aside ==
  True({<<1, app.pending # <<>>>>, <<2, app.last.query # "">>, <<3, app.entries # MCEntries>>,
        <<4, app.calling>>, <<5, app.user # Plain>>, <<6, app.disk # "ok">>})
Changed(edit) == Cardinality({f \in ToSet(Fields) : edit.draft[f] # edit.original[f]})

Turned(edit) == LET f == FieldOf(edit) IN edit.draft[f] # edit.original[f]

\* What a list is opened over, and a draft tried against.
Over_one == app.area.w # 90 \/ app.user = Rebound \/ app.disk # "ok" \/ app.calling

Near ==
  CASE app.mode.kind = "normal" -> Moved + 2 * Aside <= 2
    [] app.mode.kind = "config" ->
         /\ Moved + Aside <= IF Over_one THEN 1 ELSE 0
         /\ Changed(app.mode) <= IF app.mode.typing = <<>> THEN 1 ELSE 0
         /\ app.mode.problems > 0 \/ Changed(app.mode) = 0 \/ Turned(app.mode)
    [] OTHER -> Moved + Aside <= IF Over_one THEN 1 ELSE 0
=============================================================================
