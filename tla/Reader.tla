------------------------------- MODULE Reader -------------------------------
(***************************************************************************)
(* The diff pane in a reader's hands: every key that selects, folds, pulls *)
(* open, lays out anew or jumps (crates/tui/src/app).                      *)
(*                                                                         *)
(* The keys that move the cursor are part of the step that uses it: a key  *)
(* acts on whichever row the reader has moved to.                          *)
(***************************************************************************)
EXTENDS Pane

CONSTANTS
  Notes, Threads,  \* what is drawn between the lines, as Rows has them
  Sought,          \* bound: the new lines the reader jumps to
  MaxGrown         \* bound: lines and hunks pulled in all told

VARIABLES
  pane,
  went  \* where the last step jumped to, if it was a jump: <<kind, file or id, line>>

vars == <<pane, went>>

\* The reader on a row, by `j`, `k`, `g`, `G`, `n`, `N` or a click.
On(r) == [pane EXCEPT !.cursor = r]
Stops(kind) == {r \in DOMAIN pane.rows : pane.rows[r].kind = kind}

Pulled(grown) ==
  MapThenSumSet(LAMBDA h : grown[h].up + grown[h].down
                           + grown[h].crossed_up + grown[h].crossed_down, Hunk)

----------------------------------------------------------------------------

\* `J`, `K`, or a click in the left pane.
Select(e) == pane' = SelectEntry(pane, e) /\ went' = <<>>

\* `f`
ToggleFileView == pane' = OtherView(pane) /\ went' = <<>>

\* `z` on an edge ...
ExpandAtCursor(r) ==
  /\ pane' = Expand(On(r))
  /\ Pulled(pane'.grown) <= MaxGrown
  /\ went' = <<>>

\* ... on a resolved thread ...
ToggleThreadExpanded(r) ==
  LET id == pane.rows[r].note IN
  /\ \E n \in DOMAIN Threads : Threads[n].id = id /\ Threads[n].resolved
  /\ pane' = ToggleThread(On(r), id)
  /\ went' = <<>>

\* ... in the tree ...
ToggleDirectory ==
  /\ pane.view = "files" /\ TreeRows(pane.folded)[Entry(pane)].file = NoFile
  /\ pane' = ToggleDir(pane)
  /\ went' = <<>>

\* ... and anywhere else.
ToggleGroupFold ==
  /\ pane.view = "groups"
  /\ pane' = ToggleFold(pane)
  /\ went' = <<>>

\* `s`
ToggleColumns(r) == pane' = ToggleSplit(On(r)) /\ went' = <<>>

\* A search hit, or the declaration of a symbol.
JumpToOccurrence(f, line) ==
  /\ pane' = JumpToLine(pane, f, line)
  /\ Pulled(pane'.grown) <= MaxGrown
  /\ went' = <<"line", f, line>>

\* A note of the findings list, or a thread.
JumpToListed(kind, item) ==
  /\ item.at # <<>>
  /\ pane' = JumpToNote(pane, kind, item.id, item.at)
  /\ went' = <<kind, item.id>>

Init ==
  /\ pane = Rebuilt(
       [view |-> "groups", entry |-> [groups |-> 1, files |-> 1], unfolded |-> {}, folded |-> {},
        grown |-> [h \in Hunk |-> AsItIs], split |-> FALSE, notes |-> Notes, threads |-> Threads,
        opened |-> {}, rows |-> <<>>, cursor |-> 1, focus |-> "detail"])
  /\ went = <<>>

Next ==
  \/ \E e \in EntriesOf(pane) : Select(e)
  \/ \E r \in Stops("edge") : ExpandAtCursor(r)
  \/ \E r \in Stops("thread") : ToggleThreadExpanded(r)
  \/ \E r \in Stops("hunk") : ToggleColumns(r)
  \/ ToggleFileView \/ ToggleDirectory \/ ToggleGroupFold
  \/ \E f \in File, line \in Sought : line <= FileLen[f].new /\ JumpToOccurrence(f, line)
  \/ \E n \in DOMAIN Notes : JumpToListed("note", Notes[n])
  \/ \E n \in DOMAIN Threads : JumpToListed("thread", Threads[n])

Spec == Init /\ [][Next]_vars

\* Where the cursor is decides only where the reader walks from.
WithoutCursor == [pane EXCEPT !.cursor = 1, !.rows = <<>>]

----------------------------------------------------------------------------
(* Properties *)

\* Every part keeps its type, and the cursor is on a row a key can act on.
TypeOK ==
  /\ pane.view \in {"groups", "files"} /\ Entry(pane) \in EntriesOf(pane)
  /\ pane.unfolded \subseteq DOMAIN Groups /\ pane.folded \subseteq Dirs
  /\ pane.grown \in [Hunk -> [{"up", "down", "crossed_up", "crossed_down"} -> Nat]]
  /\ LET S == NextSelectable(pane.rows, 1) IN S # {} => pane.cursor \in S

(* A reference that marks a file's lines one by one. *)

Changed ==
  [f \in File |-> [s \in Sides |->
     {line \in 1 .. FileLen[f][s] : \E h \in HunksOf(f) :
        line \in Hunks[h][s].start .. Hunks[h][s].start + Hunks[h][s].count - 1}]]

\* Unchanged lines o and n are one line: as many unchanged lines come before each.
SameLines ==
  [f \in File |->
     {p \in (1 .. FileLen[f].old \ Changed[f].old) \X (1 .. FileLen[f].new \ Changed[f].new) :
        Cardinality(1 .. p[1] \ Changed[f].old) = Cardinality(1 .. p[2] \ Changed[f].new)}]

In(h, s, line) == line \in Hunks[h][s].start .. Hunks[h][s].start + Hunks[h][s].count - 1

\* Every row says what its line is: the two numbers of an unchanged row name one line,
\* a changed row's are lines of the hunk whose header it stands under, and a hunk is
\* marked as another group's exactly when this view does not list it (`file_rows`).
RowsAreTrue ==
  LET rows == pane.rows
      Header(i) == Max({k \in 1 .. i : rows[k].kind = "hunk"})
  IN  \A i \in DOMAIN rows : LET row == rows[i] IN
        /\ row.kind = "line" =>
             \/ row.old # 0 /\ row.new # 0 /\ <<row.old, row.new>> \in SameLines[row.file]
             \/ /\ \A s \in Sides : row[s] # 0 => In(row.hunk, s, row[s])
                /\ rows[Header(i)].hunk = row.hunk
        /\ row.kind = "hunk" => row.foreign = (row.hunk \notin Listed(pane))

Shown(p, f, s) == {p.rows[i][s] : i \in {j \in DOMAIN p.rows : p.rows[j].file = f}} \ {0}
Kind(p, f, kind) == {i \in DOMAIN p.rows : p.rows[i].kind = kind /\ p.rows[i].file = f}

\* How many hunks stand above an unchanged line.
Met(f, s, line) == Cardinality({h \in HunksOf(f) : AboveEnd(Hunks[h][s]) <= line})

\* The unchanged lines of the gap an edge is an end of.
Gap(f, e) ==
  LET heads == Kind(pane, f, "hunk")
      k     == IF pane.rows[e].side = "down"
               THEN Cardinality({h \in HunksOf(f) : h <= pane.rows[Max({i \in heads : i < e})].hunk})
               ELSE Cardinality({h \in HunksOf(f) : h < pane.rows[Min({i \in heads : i > e})].hunk})
  IN  {n \in 1 .. FileLen[f].new \ Changed[f].new : Met(f, "new", n) = k}

Content(p) ==
  {<<row.kind, row.file, IF row.kind = "hunk" THEN row.hunk ELSE NoHunk, row.old, row.new>> :
     row \in {p.rows[i] : i \in {j \in DOMAIN p.rows : p.rows[j].kind \in {"hunk", "line"}}}}

\* Nothing of a listed file is left out without an edge to pull it in at, where it
\* would be; the edge counts the lines of its gap no row shows, whichever end of the
\* gap it is, and offers the hunk beyond exactly when there are none; and `z` on it
\* shows more and takes nothing away (`file_rows`, `plan`, `expand_at_cursor`).
HiddenIsOffered ==
  /\ \A f \in {Hunks[h].file : h \in Listed(pane)}, s \in Sides :
       \A line \in 1 .. FileLen[f][s] \ Shown(pane, f, s) :
         LET lines == Kind(pane, f, "line")
             above == {i \in lines : pane.rows[i][s] \in 1 .. line}
             below == {i \in lines : pane.rows[i][s] > line}
         IN  \E e \in Kind(pane, f, "edge") :
               (\A i \in above : i < e) /\ (\A i \in below : e < i)
  /\ \A f \in File : \A e \in Kind(pane, f, "edge") :
       LET row == pane.rows[e] IN
       /\ row.hidden = Cardinality(Gap(f, e) \ Shown(pane, f, "new"))
       /\ row.crossing = (row.hidden = 0)
  /\ \A e \in Stops("edge") :
       LET after == Content(Expand(On(e)))
       IN  Content(pane) \subseteq after /\ Content(pane) # after

OnLine(p, f, line) == p.rows[p.cursor].file = f /\ p.rows[p.cursor].new = line

Shut(p, note) ==
  /\ \E n \in DOMAIN Threads : Threads[n].id = note.reply /\ Threads[n].resolved
  /\ note.reply \notin p.opened

Lands(kind, id) ==
  went' = <<kind, id>> => LET row == pane'.rows[pane'.cursor]
                          IN  row.kind = kind /\ row.note = id

\* Whatever is selected, folded or pulled open, a jump to a line the change wrote puts
\* the cursor on it, and so does a jump to a note or a thread, wherever its line is
\* hidden; but not to a reply under a thread that is settled and shut
\* (`jump_to_line`, `jump_to_finding`).
JumpsLand ==
  [][/\ \A f \in File, line \in Sought :
          went' = <<"line", f, line>> /\ line \in Changed[f].new => OnLine(pane', f, line)
     /\ \A n \in DOMAIN Threads : Lands("thread", Threads[n].id)
     /\ \A n \in DOMAIN Notes : Shut(pane, Notes[n]) \/ Lands("note", Notes[n].id)]_vars

\* The way back from a jump leads to the line it left from, unless the jump shut the
\* group's fold or opened a directory on the way (`jumping`, `go_back`).
BackReturns ==
  [][/\ went' # <<>>
     /\ pane.unfolded \subseteq pane'.unfolded /\ pane.folded = pane'.folded
     => \A back \in {Reselected(pane', Entry(pane))}, r \in Stops("line") :
          LET row == back.rows[StoodAgain(back, Place(On(r))).cursor]
          IN  /\ row.kind = "line" /\ row.file = pane.rows[r].file
              /\ \E s \in Sides : pane.rows[r][s] # 0 /\ row[s] = pane.rows[r][s]]_vars

\* A note about a run of lines claims none the reader was not shown (`selected_run`).
SelectionIsSeen ==
  \A anchor \in Stops("line"), r \in Stops("line") :
    LET run == SelectedRun(On(r), anchor)
    IN  Min(run.lines) .. Max(run.lines) \subseteq Shown(pane, pane.rows[anchor].file, run.side)

=============================================================================
