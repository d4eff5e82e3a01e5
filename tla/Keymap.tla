---- MODULE Keymap ----
(***************************************************************************)
(* Which key does what (tui keymap.rs): the table of default keys, the      *)
(* reader's `[keys]` laid over it, everything that can be wrong with such a *)
(* table, and what a press means after the presses before it.               *)
(*                                                                         *)
(* A binding as the file writes it is the sequence of its words, `"d d"`    *)
(* being <<"d", "d">>; a table gives actions the bindings it names for them, *)
(* or Unset. The braces are the words "lbrace" and "rbrace".                *)
(***************************************************************************)
EXTENDS Integers, Sequences, FiniteSets, SequencesExt

CONSTANTS Unset,    \* what a line the file does not have gives
          Respelt,  \* words that are another spelling of a press, and that press
          NoKeys    \* words that are no press a terminal reports

\* The shape a press is compared in is its own.
ASSUME KeymapAssumption == \A word \in DOMAIN Respelt : Respelt[word] \notin DOMAIN Respelt

Screens == {"review", "files", "findings"}

Row(action, screens, bindings) == [action |-> action, screens |-> screens, keys |-> bindings]
One(key) == <<<<key>>>>
Or(key, other) == <<<<key>>, <<other>>>>
Review == {"review"}

Defaults == <<
  Row("toggle-focus", Review, One("tab")),
  Row("open", Screens, One("enter")),
  Row("close", Screens, One("esc")),
  Row("down", Screens, Or("j", "down")),
  Row("up", Screens, Or("k", "up")),
  Row("next-group", Review, Or("J", "rbrace")),
  Row("prev-group", Review, Or("K", "lbrace")),
  Row("half-page-down", Review, One("ctrl-d")),
  Row("half-page-up", Review, One("ctrl-u")),
  Row("top", Review, One("g")),
  Row("bottom", Review, One("G")),
  Row("next-hunk", Review, One("n")),
  Row("prev-hunk", Review, One("N")),
  Row("toggle-split", Review, One("s")),
  Row("toggle-wrap", Review, One("w")),
  Row("shift-right", Review, Or("l", "right")),
  Row("shift-left", Review, Or("h", "left")),
  Row("shift-reset", Review, One("0")),
  Row("grow-diff", Review, Or("alt-=", "alt-+")),
  Row("shrink-diff", Review, One("alt--")),
  Row("fold", Review, One("z")),
  Row("files", {"review", "files"}, One("f")),
  Row("external-editor", Review, One("e")),
  Row("findings", {"review", "findings"}, One("F")),
  Row("search", Screens, One("/")),
  Row("toggle-reviewed", Review, One("space")),
  Row("select", Review, One("v")),
  Row("comment", Review, One("c")),
  Row("delete", {"review", "findings"}, <<<<"d", "d">>>>),
  Row("clear-notes", {"findings"}, One("D")),
  Row("copy", {"review", "findings"}, One("y")),
  Row("reply", Review, One("r")),
  Row("resolve", Review, One("x")),
  Row("refetch", Review, One("R")),
  Row("publish", {"review", "findings"}, One("P")),
  Row("back", Review, One("ctrl-o"))>>

Table == DOMAIN Defaults

\* One press, in the one shape a lookup compares.
Canon(word) == IF word \in DOMAIN Respelt THEN Respelt[word] ELSE word

IsBinding(text) == text # <<>> /\ \A i \in DOMAIN text : text[i] \notin NoKeys
Parse(text) == [i \in DOMAIN text |-> Canon(text[i])]

\* Keys no action may take. A binding is one of them only as a whole.
Reserved == {"ctrl-c", "q", "?", ":"}
IsReserved(binding) == Len(binding) = 1 /\ binding[1] \in Reserved

-----------------------------------------------------------------------------
\* The keys a table gives a row: exactly the reader's where they named the action.
Given(config, row) ==
  LET action == Defaults[row].action
  IN IF action \in DOMAIN config /\ config[action] # Unset THEN config[action] ELSE Defaults[row].keys

Parsed(texts) ==
  LET Add(out, text) ==
        IF IsBinding(text) /\ ~IsReserved(Parse(text)) /\ Parse(text) \notin ToSet(out)
        THEN Append(out, Parse(text)) ELSE out
      upto[n \in 0 .. Len(texts)] == IF n = 0 THEN <<>> ELSE Add(upto[n - 1], texts[n])
  IN  upto[Len(texts)]

\* Every row's bindings under a table, in the order of the rows.
Bound(config) == [row \in Table |-> Parsed(Given(config, row))]

In(screen) == {row \in Table : screen \in Defaults[row].screens}

\* Mutant: one key that starts another is not looked for.
Between_same(bound, screen, a, b) ==
  {[kind |-> "clash", screen |-> screen,
    first |-> <<Defaults[a].action, k>>, second |-> <<Defaults[b].action, k>>] :
     k \in {k \in ToSet(bound[a]) \cap ToSet(bound[b]) : a < b}}

\* Two actions answer to one key in one screen, or one's key starts the other's.
Between(bound, screen, a, b) ==
  {[kind |-> "clash", screen |-> screen,
    first |-> <<Defaults[a].action, k[1]>>, second |-> <<Defaults[b].action, k[2]>>] :
     k \in {k \in ToSet(bound[a]) \X ToSet(bound[b]) : IsPrefix(k[1], k[2]) /\ (k[1] = k[2] => a < b)}}

Clashes(bound) ==
  UNION {UNION {Between(bound, screen, p[1], p[2]) : p \in {p \in In(screen) \X In(screen) : p[1] # p[2]}} :
           screen \in Screens}

\* Words that are no key, and keys no action may take.
Refused(config) ==
  UNION {{[kind |-> IF IsBinding(text) THEN "reserved" ELSE "unparsed", action |-> Defaults[row].action, text |-> text] :
            text \in {t \in ToSet(Given(config, row)) : IsBinding(t) => IsReserved(Parse(t))}} : row \in Table}

\* Everything wrong with a table: it makes a keymap only where there is nothing.
Problems(config) == Refused(config) \cup Clashes(Bound(config))

-----------------------------------------------------------------------------
RowOf(action) == CHOOSE row \in Table : Defaults[row].action = action

\* An action's own keys in the table, and the keys it answers to in a screen.
DefaultKeys(action) == Defaults[RowOf(action)].keys
Bindings(bound, screen, action) ==
  IF screen \in Defaults[RowOf(action)].screens THEN bound[RowOf(action)] ELSE <<>>

\* What a run of presses is: a whole binding, the start of one, or nothing.
Act(action) == [kind |-> "act", action |-> action]
Pending(presses) == [kind |-> "pending", presses |-> presses]
NoAction == [kind |-> "nothing"]

ReadKeys(bound, screen, presses) ==
  LET whole == {row \in In(screen) : presses \in ToSet(bound[row])}
      begun == {row \in In(screen) : \E k \in ToSet(bound[row]) : IsPrefix(presses, k)}
  IN CASE whole # {} -> Act(Defaults[CHOOSE row \in whole : \A other \in whole : row <= other].action)
       [] whole = {} /\ begun # {} -> Pending(presses)
       [] OTHER -> NoAction

\* What a press does after those pending. One that neither finishes nor continues
\* them is read again on its own.
Lookup(bound, screen, pending, word) ==
  LET together == ReadKeys(bound, screen, Append(pending, Canon(word)))
  IN IF together = NoAction /\ pending # <<>> THEN ReadKeys(bound, screen, <<Canon(word)>>) ELSE together
====
