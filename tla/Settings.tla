------------------------------ MODULE Settings ------------------------------
(***************************************************************************)
(* `:config`: the personal config as a draft, previewed on the screen       *)
(* behind it, put back or saved whole (tui app/config.rs, engine config.rs).*)
(*                                                                         *)
(* A config gives every field a value, Unset where the file has no line for *)
(* it.  The reviewer's state, app, is a record; this module is about its    *)
(*   area      the screen, [w, h]                                          *)
(*   mode      what is open: here the modal                                *)
(*   user      the config the reviewer runs under                          *)
(*   shown     the part of one that the screen wears                       *)
(*   bound     the keys its keymap was made from                           *)
(*   pending   the presses of a sequence that are in                       *)
(*   file      the file's config, and `disk`, what a write to it does      *)
(***************************************************************************)
EXTENDS Keymap, Lists

CONSTANTS
  Agents, Themes, Layouts,  \* the choices, the default first
  DefaultTimeout, Minute, MostSeconds,
  DefaultContext, DefaultStep, MostLines,
  KeyRows,     \* the actions whose keys may be changed
  Typed,       \* what may be typed into each field
  Runnable,    \* the texts that are an editor command
  EditorEnv,   \* the environment's editor
  PathWidth, NoteWidth  \* columns the file's name takes, and a problem

Fields ==
  <<"agent", "timeout_secs", "theme", "diff", "context", "context_step", "editor">> \o KeyRows

Section(field) ==
  CASE field \in {"agent", "timeout_secs"} -> "grouping"
    [] field \in ToSet(KeyRows) -> "keys"
    [] OTHER -> "review"
Sections == [i \in DOMAIN Fields |-> Section(Fields[i])]

ChoicesOf ==
  [field \in ToSet(Fields) |->
     CASE field = "agent" -> Agents [] field = "theme" -> Themes [] field = "diff" -> Layouts
       [] OTHER -> <<>>]

\* What an absent line means.
Default ==
  [field \in ToSet(Fields) |->
     CASE field = "theme" -> Themes[1]
       [] field = "diff" -> Layouts[1]
       [] field = "context" -> DefaultContext
       [] field = "context_step" -> DefaultStep
       [] OTHER -> Unset]

ASSUME SettingsAssumption ==
  /\ \A S \in {Agents, Themes, Layouts} : S # <<>> /\ IsInjective(S)
  /\ 0 < Minute /\ Minute <= DefaultTimeout /\ DefaultTimeout <= MostSeconds
  /\ 0 < DefaultStep /\ DefaultStep <= MostLines /\ DefaultContext \in 0 .. MostLines
  /\ PathWidth \in Nat /\ NoteWidth \in Nat
  /\ KeyRows \in Seq({Defaults[row].action : row \in Table})
  /\ \A action \in ToSet(KeyRows) : \A text \in Typed[action] :
       /\ text[2] \in Seq(ToSet(text[2]))
       /\ \A binding \in ToSet(text[2]) : binding \in Seq(ToSet(binding))

\* The keys a config gives, and the part the screen wears.
KeysOf(config) == [a \in ToSet(KeyRows) |-> config[a]]
Worn(config) ==
  [theme |-> config["theme"], split |-> config["diff"] = "split",
   context |-> config["context"], step |-> config["context_step"],
   editor |-> IF config["editor"] # Unset THEN config["editor"] ELSE EditorEnv]

\* How much is wrong with each table that can be typed.
KeyLists(a) == {Unset} \cup {text[2] : text \in Typed[a]}
KeyTables ==
  {[a \in ToSet(KeyRows) |-> t[a]] :
     t \in {t \in [ToSet(KeyRows) -> UNION {KeyLists(a) : a \in ToSet(KeyRows)}] :
            \A a \in ToSet(KeyRows) : t[a] \in KeyLists(a)}}
Faults == [t \in KeyTables |-> Cardinality(Problems(t))]

\* `dfr review` opens under this file: its keys make a keymap, its editor a command.
Opens(config) ==
  Faults[KeysOf(config)] = 0 /\ (config["editor"] # Unset => config["editor"] \in Runnable)

-----------------------------------------------------------------------------
(* The rows *)

\* Which choice is on, and one set: the default agent is written as no line at all.
Chosen(config, field) ==
  IF config[field] = Unset THEN 1
  ELSE CHOOSE i \in DOMAIN ChoicesOf[field] : ChoicesOf[field][i] = config[field]
SetChoice(config, field, i) ==
  [config EXCEPT ![field] = IF field = "agent" /\ i = 1 THEN Unset ELSE ChoicesOf[field][i]]

Seconds(config) == IF config["timeout_secs"] = Unset THEN DefaultTimeout ELSE config["timeout_secs"]
Timeout(seconds) == IF seconds = DefaultTimeout THEN Unset ELSE seconds

\* The next value of a choice, and a number one on: the ends hold it.
NextChoice(config, field, by) ==
  SetChoice(config, field, ((Chosen(config, field) - 1 + by) % Len(ChoicesOf[field])) + 1)
NextValue(config, field, forward) ==
  [config EXCEPT ![field] =
     CASE field = "timeout_secs" /\ forward -> Timeout(Min({Seconds(config) + Minute, MostSeconds}))
       [] field = "timeout_secs" /\ ~forward -> Timeout(Max({Less(Seconds(config), Minute), Minute}))
       [] field \in {"context", "context_step"} /\ forward -> Min({@ + 1, MostLines})
       [] field = "context" /\ ~forward -> Less(@, 1)
       [] field = "context_step" /\ ~forward -> Max({Less(@, 1), 1})
       [] OTHER -> @]
Next1(config, field, forward) ==
  IF ChoicesOf[field] # <<>> THEN NextChoice(config, field, IF forward THEN 1 ELSE -1)
  ELSE NextValue(config, field, forward)

\* A text is what it reads as: a number, a list of keys, or words.
Empty == <<"words", "">>

\* The value as the box opens on it.
Spelt(config, field) ==
  CASE field = "timeout_secs" -> <<"number", Seconds(config)>>
    [] field \in {"context", "context_step"} -> <<"number", config[field]>>
    [] field = "editor" -> IF config[field] = Unset THEN Empty ELSE config[field]
    [] OTHER -> <<"list", IF config[field] = Unset THEN DefaultKeys(field) ELSE config[field]>>

\* Why a text is no value, and the config with one that is.
Slips(field, text) ==
  CASE field \in {"timeout_secs", "context_step"} -> text[1] # "number" \/ text[2] = 0
    [] field = "context" -> text[1] # "number"
    [] field = "editor" -> text # Empty /\ text \notin Runnable
    [] OTHER -> text[1] # "list"
Committed(config, field, text) ==
  [config EXCEPT ![field] =
     CASE field = "timeout_secs" -> Timeout(text[2])
       [] field \in {"context", "context_step"} -> text[2]
       [] field = "editor" -> IF text = Empty THEN Unset ELSE text
       [] OTHER -> IF text[2] = DefaultKeys(field) THEN Unset ELSE text[2]]

-----------------------------------------------------------------------------
(* The modal: the draft, what it started from, and where the reader is in it. `typing` *)
(* is the text being typed, `list` the open list of choices, each <<>> when there is none. *)

ConfigEdit(user) ==
  [kind |-> "config", draft |-> user, original |-> user, selected |-> 1, scroll |-> 1,
   typing |-> <<>>, list |-> <<>>, problems |-> Faults[KeysOf(user)], error |-> FALSE]

OpenConfig(app) == [app EXCEPT !.mode = ConfigEdit(app.user)]

FieldOf(edit) == Fields[edit.selected]
Validated(edit) == [edit EXCEPT !.problems = Faults[KeysOf(edit.draft)]]

\* Lines a text takes in the modal: one column in, and two further on each after.
Wrapped(width, area) ==
  LET room == Max({Less(Min({area.w, 72}), 3), 10})
  IN 1 + (Less(width, room - 1) + room - 4) \div (room - 3)

Body(area) == Less(area.h, 1)
ConfigTop(area) == Wrapped(PathWidth, area) + 1
ConfigNotes(edit, area) ==
  (edit.problems + IF edit.error THEN 1 ELSE 0) * Wrapped(NoteWidth, area)
EditRows(edit, area) == ConfigRows(Body(area), ConfigTop(area), ConfigNotes(edit, area))

\* The selection on a row, kept inside the rows there are.
Selected(edit, to, rows) ==
  LET at == Held(to, 1, Len(Fields))
  IN [edit EXCEPT !.selected = at, !.scroll = Follow(at, @, rows)]

\* `show_review`: what a preview shows, what a discard puts back, what a save keeps.
Shows(app, config) == [app EXCEPT !.shown = Worn(config)]
Previewed(app, edit) == [Shows(app, edit.draft) EXCEPT !.mode = edit]

\* Mutant: the draft stays on the screen.
Discard_mode(app) == [app EXCEPT !.mode = [kind |-> "normal"]]

DiscardConfig(app) == [Shows(app, app.mode.original) EXCEPT !.mode = [kind |-> "normal"]]

Saved(app, draft) ==
  [Shows(app, draft) EXCEPT !.mode = [kind |-> "normal"], !.bound = KeysOf(draft),
                            !.pending = <<>>, !.user = draft, !.file = draft]
SaveConfig(app) ==
  IF app.mode.problems = 0 /\ app.disk = "ok" THEN Saved(app, app.mode.draft) ELSE app

\* A key over the open list: each step wears the choice it lands on.
Choosing(edit, at) ==
  [edit EXCEPT !.draft = SetChoice(@, FieldOf(edit), at), !.list = <<[@[1] EXCEPT !.at = at]>>]
Chose(edit) == [edit EXCEPT !.list = <<>>]
PutBack(edit) == [edit EXCEPT !.draft = SetChoice(@, FieldOf(edit), edit.list[1].before), !.list = <<>>]
ListKey(app, edit, key) ==
  LET at == edit.list[1].at
      last == Len(ChoicesOf[FieldOf(edit)])
      Goes(to) == Previewed(app, Choosing(edit, Held(to, 1, last)))
  IN CASE key \in {"j", "down"} -> Goes(at + 1)
       [] key \in {"k", "up"} -> Goes(at - 1)
       [] key = "g" -> Goes(1)
       [] key = "G" -> Goes(last)
       [] key \in {"enter", "space"} -> Previewed(app, Chose(edit))
       [] key \in {"esc", "q"} -> Previewed(app, PutBack(edit))
       [] OTHER -> app

\* A key in the box: a refused text keeps it open on what was typed.
Entered(edit, text) ==
  Validated([edit EXCEPT !.draft = Committed(@, FieldOf(edit), text), !.typing = <<>>, !.error = FALSE])
TypingKey(app, edit, key) ==
  CASE key = "esc" -> [app EXCEPT !.mode.typing = <<>>, !.mode.error = FALSE]
    [] key = "enter" /\ Slips(FieldOf(edit), edit.typing[1]) -> [app EXCEPT !.mode.error = TRUE]
    [] key = "enter" /\ ~Slips(FieldOf(edit), edit.typing[1]) ->
         Previewed(app, Entered(edit, edit.typing[1]))
    [] OTHER -> app

\* `enter`: the choices as a list, or the value as text.
Begun(edit) ==
  LET field == FieldOf(edit)
      at == Chosen(edit.draft, field)
  IN IF ChoicesOf[field] # <<>> THEN [edit EXCEPT !.list = <<[at |-> at, before |-> at]>>]
     ELSE [edit EXCEPT !.typing = <<Spelt(edit.draft, field)>>]

\* A key on the rows, which checks the draft again and shows it.
Moving(edit, key, rows) ==
  CASE key \in {"j", "down"} -> Selected(edit, edit.selected + 1, rows)
    [] key \in {"k", "up"} -> Selected(edit, edit.selected - 1, rows)
    [] key = "g" -> Selected(edit, 1, rows)
    [] key = "G" -> Selected(edit, Len(Fields), rows)
    [] key \in {"l", "right"} -> [edit EXCEPT !.draft = Next1(@, FieldOf(edit), TRUE)]
    [] key \in {"h", "left"} -> [edit EXCEPT !.draft = Next1(@, FieldOf(edit), FALSE)]
    [] key \in {"enter", "space"} -> Begun(edit)
    [] key = "r" -> [edit EXCEPT !.draft[FieldOf(edit)] = Default[FieldOf(edit)]]
MovingKeys ==
  {"j", "down", "k", "up", "g", "G", "l", "right", "h", "left", "enter", "space", "r"}
RowKey(app, edit, key) ==
  CASE key = "ctrl-s" -> SaveConfig(app)
    [] key \in {"esc", "q"} -> DiscardConfig(app)
    [] key \in MovingKeys -> Previewed(app, Validated(Moving(edit, key, EditRows(edit, app.area))))
    [] OTHER -> app

KeyInside(app, edit, key) ==
  CASE edit.list # <<>> -> ListKey(app, edit, key)
    [] edit.list = <<>> /\ edit.typing # <<>> -> TypingKey(app, edit, key)
    [] OTHER -> RowKey(app, edit, key)

\* Mutant: a note that appears takes the rows it needs from under the selection.
KeptInView_never(app) == app

\* Whatever the key did, the selection is kept in the rows left now.
KeptInView(app) ==
  IF app.mode.kind # "config" THEN app
  ELSE [app EXCEPT !.mode = Selected(@, @.selected, EditRows(@, app.area))]
ConfigKey(app, key) == KeptInView(KeyInside(app, app.mode, key))

\* Characters, typed or pasted: any text the box can come to hold.
ConfigTypes(app, text) == [app EXCEPT !.mode.typing = <<text>>]

\* The wheel walks and a click selects; over the open list they are its keys.
WheelConfig(app, edit, down) ==
  CASE edit.typing # <<>> -> app
    [] edit.typing = <<>> /\ edit.list # <<>> -> ConfigKey(app, IF down THEN "down" ELSE "up")
    [] OTHER -> [app EXCEPT !.mode =
                   Selected(edit, edit.selected + IF down THEN 1 ELSE -1, EditRows(edit, app.area))]
ClickRow(app, edit, hit) ==
  CASE hit = NoEntry -> app
    [] hit = edit.selected -> ConfigKey(app, "enter")
    [] OTHER -> [app EXCEPT !.mode = Selected(edit, hit, EditRows(edit, app.area))]
ClickConfig(app, edit, line) ==
  CASE edit.typing # <<>> -> app
    [] edit.typing = <<>> /\ edit.list # <<>> -> ConfigKey(app, "enter")
    [] OTHER -> ClickRow(app, edit, ConfigRowAt(Sections, edit.scroll, line, ConfigTop(app.area)))
=============================================================================
