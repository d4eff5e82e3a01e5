---- MODULE Lists ----
(***************************************************************************)
(* The arithmetic the modal lists, the plan pane and the dividers share     *)
(* (tui app/text.rs, app/config.rs, app/mod.rs, app/draw.rs): how many rows *)
(* a list shows, where it is scrolled to, which entry is on a line, and     *)
(* where the screen is cut. Entries and rows are counted from 1, the lines  *)
(* of a box from 0. Shown is the list widget these are drawn with.          *)
(***************************************************************************)
EXTENDS Integers, Sequences, FiniteSets, FiniteSetsExt, SequencesExt

Least(a, b) == IF a < b THEN a ELSE b
Most(a, b) == IF a > b THEN a ELSE b
Less(a, b) == Most(a - b, 0)
Held(at, low, high) == Most(low, Least(at, high))

\* Keep the selection in a window, moving the window as little as that takes.
Follow(selected, scroll, height) ==
  CASE selected < scroll -> selected
    [] selected >= scroll + Most(height, 1) -> selected + 1 - Most(height, 1)
    [] OTHER -> scroll

Stepped(selected, len, down) == IF down THEN Least(selected + 1, Most(len, 1)) ELSE Most(selected - 1, 1)

FileListRows(n, body) == Less(Least(n + 2, body), 2)

-----------------------------------------------------------------------------
\* The findings list: entries in sections, with a rule drawn before each section
\* but the first. The rules are the entries they are drawn above.
Rules(entries) == {i \in 2 .. Len(entries) : entries[i].section # entries[i - 1].section}

FindingsRows(n, rules, body) == Less(Least(n + Cardinality(rules) + 4, body), 3)

\* The drawn rows the list skips to start at an entry.
FindingsSkip(scroll, rules) == scroll - 1 + Cardinality({r \in rules : r <= scroll})

NoEntry == 0

\* The entry on a line of the whole list, its rules being lines too.
FindingsEntryAtLine(n, rules, line) ==
  LET there == {i \in 1 .. n : i - 1 + Cardinality({r \in rules : r <= i}) = line}
  IN IF there = {} THEN NoEntry ELSE CHOOSE i \in there : TRUE

FindingsFollow(selected, scroll, rows, rules) ==
  LET lines(from) == selected + 1 - from + Cardinality({r \in rules : from < r /\ r <= selected})
  IN Min({s \in Least(scroll, selected) .. selected : s = selected \/ lines(s) <= Most(rows, 1)})

-----------------------------------------------------------------------------
\* The search box: a fixed height, a third of what its frame leaves for the list.
SearchBoxRows == 26
SearchInner(body) == Less(Least(SearchBoxRows, body), 4)
SearchListRows(body) == Held(SearchInner(body) \div 3, 1, 8)
SearchPreviewRows(body) == Less(SearchInner(body), SearchListRows(body))

\* The config modal: `top` lines above the list, the settings in sections, one line
\* that names the section of the first one shown, and the notes under the list.
ConfigListRows(body, top) == Most(Less(body, top + 7), 3)
ConfigRows(body, top, notes) == Most(Less(ConfigListRows(body, top), IF notes = 0 THEN 0 ELSE notes + 1), 3)

\* The lines from the scroll position on: its section, then each setting, with the section
\* of its own before one that starts it.
Starts(sections) == {i \in 2 .. Len(sections) : sections[i] # sections[i - 1]}
ConfigRowAt(sections, scroll, line, top) ==
  LET starts == Starts(sections)
      before(i) == i - scroll + Cardinality({r \in starts : scroll < r /\ r <= i})
      there == {i \in scroll .. Len(sections) : top + 1 + before(i) = line}
  IN IF there = {} THEN NoEntry ELSE CHOOSE i \in there : TRUE

-----------------------------------------------------------------------------
\* Entries of several lines, as the plan pane's groups and the diff's wrapped rows are:
\* what those of a stretch take, between the lines before it and the lines to its end.
Tall(heights, from, to) ==
  LET upto[i \in 0 .. Len(heights)] == IF i = 0 THEN 0 ELSE heights[i] + upto[i - 1]
  IN  upto[to] - upto[from - 1]

FollowTall(heights, selected, scroll, height) ==
  LET top == Least(scroll, selected)
  IN Min({s \in top .. selected : s = selected \/ Tall(heights, s, selected) <= height})

EntryAtLine(heights, scroll, line) ==
  LET reach == {i \in scroll .. Len(heights) : line < Tall(heights, scroll, i)}
  IN IF reach = {} THEN NoEntry ELSE Min(reach)

\* The list widget: it draws whole items from the offset it is handed, and from
\* another where that one would leave the selection out of view.
Shown(heights, offset, selected, height) ==
  IF selected < offset THEN selected
  ELSE Min({s \in offset .. selected : s = selected \/ Tall(heights, s, selected) <= height})

DrawnAt(heights, offset, height) ==
  UNION {{i} \X (Tall(heights, offset, i - 1) .. Tall(heights, offset, i) - 1) :
           i \in {i \in offset .. Len(heights) : Tall(heights, offset, i) <= height}}

-----------------------------------------------------------------------------
\* A divider inside a span that keeps a floor each side; too narrow a span is halved.
SplitPoint(at, span, floor) == IF span - floor < floor THEN span \div 2 ELSE Held(at, floor, span - floor)

MinPane == 20
ClampCols(cols, width) == SplitPoint(cols, width, MinPane)

MinHalf == 8
HalfCentre(width) == Less(width, 1) \div 2
HalfWidths(width, split) ==
  LET inner == Less(width, 1)
      left == SplitPoint(Most(HalfCentre(width) + split, 0), inner, MinHalf)
  IN <<left, inner - left>>
====
