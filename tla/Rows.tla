-------------------------------- MODULE Rows --------------------------------
(***************************************************************************)
(* The rows the diff pane is laid out in (crates/tui/src/rows.rs).         *)
(*                                                                         *)
(* A view lists hunks.  Each file they are in is drawn once, in the blocks *)
(* its windows make; the notes and the request's threads go under the      *)
(* lines they are about.  A row knows what it is, never where it is: every *)
(* handler lays the pane out again.                                        *)
(*                                                                         *)
(* Left out: text, colour, the header's other lines, and the rows a note   *)
(* or a comment takes beyond its first.                                    *)
(***************************************************************************)
EXTENDS Sorting, Window, Tree

CONSTANTS
  FileLen,  \* FileLen[f]: how many lines f has, [old, new]
  Hunks,    \* every hunk of the change, by file and line: [file, class, old, new]
  Groups,   \* the reading plan: [effort, classes]
  Step      \* lines one `z` pulls in

File == DOMAIN Path
Hunk == DOMAIN Hunks
Class == {Hunks[h].class : h \in Hunk}
HunksOf(f) == {h \in Hunk : Hunks[h].file = f}
Member(c) == {h \in Hunk : Hunks[h].class = c}
Members(g) == UNION {Member(c) : c \in Groups[g].classes}
GroupOf(h) == CHOOSE g \in DOMAIN Groups : Hunks[h].class \in Groups[g].classes

\* A side's lines as git writes them: the first line of a file is its line 1.
IsRange(range) == range.start \in Nat /\ range.count \in Nat /\ (range.count > 0 => range.start > 0)

\* What enumeration and planning promise: hunks in order, some line between any two,
\* and every class in one group, which has no others.
ASSUME RowsAssumption ==
  /\ Step \in Nat \ {0}
  /\ Len(Path) \in Nat /\ File = 1 .. Len(Path)
  /\ DOMAIN FileLen = File /\ \A f \in File : \A s \in Sides : FileLen[f][s] \in Nat
  /\ Len(Hunks) \in Nat /\ Hunk = 1 .. Len(Hunks)
  /\ \A h \in Hunk : Hunks[h].file \in File /\ \A s \in Sides : IsRange(Hunks[h][s])
  /\ Len(Groups) \in Nat \ {0} /\ DOMAIN Groups = 1 .. Len(Groups)
  /\ \A g \in DOMAIN Groups : Groups[g].classes \subseteq Class
  /\ \A g, h \in Hunk : g < h =>
       /\ Hunks[g].file <= Hunks[h].file
       /\ Hunks[g].file = Hunks[h].file =>
            \A s \in Sides : BelowStart(Hunks[g][s]) < AboveEnd(Hunks[h][s])
  /\ \A g \in DOMAIN Groups : Groups[g].effort \in {"focus", "skim", "noise"}
  /\ \A c \in Class : \E g \in DOMAIN Groups :
       c \in Groups[g].classes /\ \A k \in DOMAIN Groups \ {g} : c \notin Groups[k].classes

\* Each file's hunks in order, and the gaps around them.
Order == [f \in File |-> InOrder(HunksOf(f))]
Gaps ==
  [f \in File |-> GapsOf([k \in DOMAIN Order[f] |-> Hunks[Order[f][k]]], FileLen[f])]

----------------------------------------------------------------------------
(* Row kinds *)

NoHunk == 0
NoNote == 0

\* `Row`: its kind, the file it is under, the hunk it acts on, and its numbers.
Row(kind, f, h) ==
  [kind |-> kind, file |-> f, hunk |-> h, foreign |-> FALSE, side |-> "",
   crossing |-> FALSE, hidden |-> 0, old |-> 0, new |-> 0, note |-> NoNote]

Selectable(row) == row.kind \in {"hunk", "line", "edge", "note", "thread", "fold"}

\* `RowKind::hunk`: an edge is only about how much of the file is visible.
HunkAt(row) == IF row.kind = "edge" THEN NoHunk ELSE row.hunk

\* `LineRef.side`: the new side, if the row shows it.
SideOf(row) == IF row.new # 0 THEN "new" ELSE "old"

EdgeRow(f, b) ==
  [Row("edge", f, b.hunk) EXCEPT !.side = b.side, !.crossing = b.next # {}, !.hidden = b.hidden]

\* `context_row`: unchanged lines, with both their numbers.
ContextRows(f, h, old, new, len) ==
  [n \in 1 .. len |-> [Row("line", f, h) EXCEPT !.old = old + n - 1, !.new = new + n - 1]]

\* `change_rows`: what a hunk removes and what it adds, line by line: two rows for a
\* modified line, or in columns one.
ChangeRows(f, h, split) ==
  LET c == Hunks[h]
      Old(n) == [Row("line", f, h) EXCEPT !.old = c.old.start + n - 1]
      New(n) == [Row("line", f, h) EXCEPT !.new = c.new.start + n - 1]
      Both(n) == [Old(n) EXCEPT !.new = c.new.start + n - 1]
      Drawn(n) ==
        CASE n <= c.old.count /\ n <= c.new.count -> IF split THEN <<Both(n)>> ELSE <<Old(n), New(n)>>
          [] n > c.new.count -> <<Old(n)>>
          [] n > c.old.count -> <<New(n)>>
  IN  FlattenSeq([n \in 1 .. Max({c.old.count, c.new.count}) |-> Drawn(n)])

\* `hunk_header_rows`
HeaderRow(f, h, listed) == [Row("hunk", f, h) EXCEPT !.foreign = h \notin listed]

\* A block's hunks, the gaps between them, and the context past each end: a row of
\* context acts on the hunk above it, or failing that on the block's first.
BlockRows(f, w, b, split) ==
  LET h(k) == w.order[k]
      Gap(k, len) ==
        ContextRows(f, h(k), BelowStart(Hunks[h(k)].old), BelowStart(Hunks[h(k)].new), len)
      Inner(k) ==
        (IF k = b.lo THEN <<>> ELSE Gap(k - 1, w.gap[k - 1]))
        \o <<HeaderRow(f, h(k), w.listed)>> \o ChangeRows(f, h(k), split)
      first == Hunks[h(b.lo)]
  IN  ContextRows(f, h(b.lo), AboveEnd(first.old) - b.up, AboveEnd(first.new) - b.up, b.up)
      \o FlattenSeq([n \in 1 .. b.hi - b.lo + 1 |-> Inner(b.lo + n - 1)])
      \o Gap(b.hi, b.down)

\* `spoken_for`: one press closes the gap, or both ends name the hunk in it.
OneBand(above, below) ==
  /\ above.bottom # <<>> /\ below.top # <<>>
  /\ LET b == above.bottom[1]
         t == below.top[1]
     IN  \/ b.next = {} /\ t.next = {} /\ b.hidden <= Step
         \/ b.next # {} /\ b.next = t.next

\* `file_rows`: the blocks, and the edges between them.
Laid(f, w, blocks, split) ==
  LET Drawn(n) ==
        LET b == blocks[n]
            meets == b.bottom # <<>> /\ n < Len(blocks) /\ blocks[n + 1].top # <<>>
        IN  (IF b.top = <<>> \/ (n > 1 /\ OneBand(blocks[n - 1], b))
             THEN <<>> ELSE <<EdgeRow(f, b.top[1])>>)
            \o BlockRows(f, w, b, split)
            \o (IF b.bottom = <<>> THEN <<>> ELSE <<EdgeRow(f, b.bottom[1])>>)
            \o (IF meets THEN <<>> ELSE <<Row("blank", f, NoHunk)>>)
  IN  (IF split THEN <<Row("column", f, NoHunk)>> ELSE <<>>)
      \o FlattenSeq([n \in DOMAIN blocks |-> Drawn(n)])

Windows(w, f, split) == Laid(f, w, Blocks(w), split)
FileRows(f, listed, grown, split) ==
  Windows([order |-> Order[f], gap |-> Gaps[f], listed |-> listed, grown |-> grown], f, split)

----------------------------------------------------------------------------
(* Notes: [id, at, reply], threads: [id, at, resolved, comments, notes].  `at`   *)
(* is the anchor, [file, side, line, end_line, hunk], or nothing; a thread's     *)
(* `notes` are the ids of the notes its comments were published from.            *)

\* `LineRef::holds`
Holds(row, at) == row.kind = "line" /\ row.file = at.file /\ row[at.side] = at.end_line

Twinned(note, threads) == \E n \in DOMAIN threads : note.id \in threads[n].notes

ThreadRow(t, h, comment) ==
  [Row("thread", t.at.file, h) EXCEPT !.note = t.id, !.side = comment]
NoteRow(f, h, note) == [Row("note", f, h) EXCEPT !.note = note.id]

\* `emit_thread`: a resolved thread is its header until it is opened; the replies
\* drafted to it come under it.
ThreadRows(t, h, notes, threads, opened) ==
  IF t.resolved /\ t.id \notin opened THEN <<ThreadRow(t, h, t.comments[1])>>
  ELSE LET replies == Taken(notes, {n \in DOMAIN notes :
                              notes[n].reply = t.id /\ ~Twinned(notes[n], threads)})
       IN  [c \in DOMAIN t.comments |-> ThreadRow(t, h, t.comments[c])]
           \o [n \in DOMAIN replies |-> NoteRow(t.at.file, h, replies[n])]

\* Is row i the one an item goes under?  The first that shows its line, or if none
\* does its hunk's header.
Under(rows, i, at) ==
  \/ Holds(rows[i], at) /\ ~ \E k \in 1 .. i - 1 : Holds(rows[k], at)
  \/ /\ rows[i].kind = "hunk" /\ rows[i].hunk = at.hunk
     /\ ~ \E k \in DOMAIN rows : Holds(rows[k], at)

\* `place_notes`: the threads anchored here, then the notes that answer none of them.
PlaceNotes(rows, notes, threads, opened) ==
  LET placed == Taken(threads, {t \in DOMAIN threads : threads[t].at # <<>>})
      loose  == Taken(notes, {n \in DOMAIN notes :
                  /\ ~Twinned(notes[n], threads)
                  /\ ~ \E k \in DOMAIN placed : placed[k].id = notes[n].reply})
      Here(i) ==
        LET t == Taken(placed, {k \in DOMAIN placed : Under(rows, i, placed[k].at)})
            n == Taken(loose, {k \in DOMAIN loose : Under(rows, i, loose[k].at)})
        IN  <<rows[i]>>
            \o FlattenSeq([k \in DOMAIN t |->
                 ThreadRows(t[k], HunkAt(rows[i]), notes, threads, opened)])
            \o [k \in DOMAIN n |-> NoteRow(rows[i].file, HunkAt(rows[i]), n[k])]
  IN  IF placed = <<>> /\ loose = <<>> THEN rows
      ELSE FlattenSeq([i \in DOMAIN rows |-> Here(i)])

----------------------------------------------------------------------------
(* Views *)

\* `hunk_list_rows`: each file once, under its header, and the notes.
HunkListRows(listed, p) ==
  LET files == InOrder({Hunks[h].file : h \in listed})
  IN  PlaceNotes(FlattenSeq([n \in DOMAIN files |->
                   <<Row("file", files[n], NoHunk)>>
                   \o FileRows(files[n], listed, p.grown, p.split)]),
                 p.notes, p.threads, p.opened)

\* `reading_split`: a class's first hunk is its exemplar.
Read(g, unfolded) ==
  CASE unfolded \/ Groups[g].effort = "focus" -> Members(g)
    [] ~unfolded /\ Groups[g].effort = "noise" -> {}
    [] ~unfolded /\ Groups[g].effort = "skim"  -> {Min(Member(c)) : c \in Groups[g].classes}

\* `build_group_rows`
GroupRows(g, p) ==
  LET read == Read(g, g \in p.unfolded)
  IN  <<Row("group", 0, NoHunk), Row("blank", 0, NoHunk)>>
      \o HunkListRows(read, p)
      \o (IF read = Members(g) THEN <<>> ELSE <<Row("fold", 0, NoHunk)>>)

\* `build_file_rows`, `build_dir_rows`: everything, in file order.
FilesRows(files, p) ==
  LET listed == UNION {HunksOf(f) : f \in files}
  IN  IF listed # {} THEN HunkListRows(listed, p)
      ELSE (IF Cardinality(files) = 1 THEN <<Row("file", Min(files), NoHunk)>> ELSE <<>>)
           \o <<Row("blank", 0, NoHunk)>>

=============================================================================
