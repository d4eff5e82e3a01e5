------------------------------ MODULE Reviewer ------------------------------
(***************************************************************************)
(* The reviewer: a key, a click or a forge's answer at a time              *)
(* (crates/tui/src/app: keys.rs, forge.rs, findings.rs, peek.rs, jumps.rs) *)
(*                                                                         *)
(* One mode is on screen and takes the keys.  One call to the forge may be *)
(* out, and its answer lands whatever the mode is: it may lay the pane out *)
(* again under the reader's hands.                                         *)
(*                                                                         *)
(* Left out: what does not touch these (reviewed marks, wrapping and       *)
(* sideways scroll, the editor, the clipboard), the boxes that set things  *)
(* (Settings), and what the forge does to a call (Publish): here a call    *)
(* does what it says, part of it, or nothing.                              *)
(***************************************************************************)
EXTENDS Pane

CONSTANTS
  Uses,        \* the symbols on a new line, [file, line]: each the [file, line] that declares it
  Threads,     \* the request's threads, with which of their comments are the reader's (mine)
  MostPlaces,  \* jumps remembered
  MaxNotes     \* bound: notes written all told

\* What the index of symbols and the forge promise: a declaration has a line, a thread a
\* number of its own, and if it is about a line that line is in a hunk.
ASSUME ReviewerAssumption ==
  /\ MostPlaces \in Nat \ {0} /\ MaxNotes \in Nat
  /\ \A at \in DOMAIN Uses :
       Len(Uses[at]) \in Nat /\ \A n \in 1 .. Len(Uses[at]) : Uses[at][n][2] \in Nat
  /\ Threads \in Seq(Range(Threads))
  /\ \A t \in Range(Threads) :
       /\ DOMAIN t = {"id", "at", "resolved", "comments", "notes", "mine"}
       /\ t.id \in Nat \ {0} /\ t.comments \in Seq(Nat)
       /\ t.at # <<>> => t.at.hunk \in Hunk

VARIABLES
  pane,
  mode,      \* what is on screen, and what it was opened on
  visual,    \* the selection's anchor: a row, and the line it showed; or nothing
  peek,      \* the symbol float: its row, which symbol, its declaration; or nothing
  jumps,     \* where the jumps left from
  inflight,  \* the call to the forge
  request,   \* the threads the forge has
  made       \* how many notes have been written

vars == <<pane, mode, visual, peek, jumps, inflight, request, made>>

----------------------------------------------------------------------------
(* What is on screen *)

Normal == [kind |-> "normal"]
NoCall == [kind |-> "none"]

Cursor == RowAt(pane)
Detail == pane.focus = "detail"

\* `new_side_of`, `peekable`
Peekable(p) ==
  LET row == RowAt(p)
      at  == <<row.file, row.new>>
  IN  IF row.kind = "line" /\ at \in DOMAIN Uses THEN Uses[at] ELSE <<>>

\* `settle_peek`: on the way out of every key and click.
Settled(p, float) ==
  IF float # <<>> /\ float[1].row = p.cursor /\ p.focus = "detail" THEN float ELSE <<>>

\* A key that leaves the boxes alone.
Shows(p, float) == pane' = p /\ peek' = Settled(p, float)

\* `jumping`
Jumping(q) ==
  /\ Shows(q, peek)
  /\ jumps' = IF ~Jumped(pane, q) THEN jumps
              ELSE Append(IF Len(jumps) = MostPlaces THEN Tail(jumps) ELSE jumps, Place(pane))

Note(id) == Taken(pane.notes, {n \in DOMAIN pane.notes : pane.notes[n].id = id})
Thread(id) == Taken(pane.threads, {t \in DOMAIN pane.threads : pane.threads[t].id = id})

\* The comment a published note became.
CommentOf(note) == 100 + note

\* `own_comment`, `own_of_finding`
OwnComment(thread, comment) ==
  IF \E n \in DOMAIN pane.threads : pane.threads[n].id = thread /\ comment \in pane.threads[n].mine
  THEN {[thread |-> thread, comment |-> comment]} ELSE {}
OwnOfFinding(id) ==
  {[thread |-> pane.notes[n].sent, comment |-> CommentOf(id)] :
     n \in {k \in DOMAIN pane.notes : pane.notes[k].id = id /\ pane.notes[k].sent # 0}}

\* `own_comment_at_cursor`
OwnAtCursor ==
  CASE Cursor.kind = "thread" -> OwnComment(Cursor.note, Cursor.side)
    [] Cursor.kind = "note"   -> OwnOfFinding(Cursor.note)
    [] OTHER                  -> {}

WithNotes(p, notes) == Rebuilt([p EXCEPT !.notes = notes])
Without(notes, id) == Taken(notes, {n \in DOMAIN notes : notes[n].id # id})

----------------------------------------------------------------------------
(* Moving, folding, jumping *)

Stays == UNCHANGED <<inflight, request, made>>

\* A click on a row, or so many of `j` and `k`, `n` and `N`; and `g`, from either pane.
Move ==
  /\ mode = Normal
  /\ \/ \E r \in NextSelectable(pane.rows, 1) :
          Shows([pane EXCEPT !.cursor = r, !.focus = "detail"], peek)
     \/ Shows([pane EXCEPT !.cursor = First(NextSelectable(pane.rows, 1), 1)], peek)
  /\ UNCHANGED <<mode, visual, jumps>> /\ Stays

\* `J` and `K`, or `j`, `k` and a click in the left pane; `tab`; `enter` there.
LeftPane ==
  /\ mode = Normal
  /\ \/ \E e \in EntriesOf(pane) : Shows(SelectEntry(pane, e), peek)
     \/ Shows([pane EXCEPT !.focus = IF Detail THEN "groups" ELSE "detail"], peek)
  /\ UNCHANGED <<mode, visual, jumps>> /\ Stays

\* `step_peek`: the next symbol of the row, and after the last nothing.
StepPeek ==
  LET nth == IF peek # <<>> /\ peek[1].row = pane.cursor THEN peek[1].nth + 1 ELSE 1
  IN  IF nth > Len(Peekable(pane)) THEN <<>>
      ELSE <<[row |-> pane.cursor, nth |-> nth, to |-> Peekable(pane)[nth], landed |-> FALSE]>>

\* `z`: one key for what is withheld, in the pane it is pressed in.
Fold ==
  LET shut == Cursor.kind = "thread" /\ \E n \in DOMAIN pane.threads :
                pane.threads[n].id = Cursor.note /\ pane.threads[n].resolved
  IN
  /\ mode = Normal
  /\ CASE Detail /\ Cursor.kind = "edge" -> Shows(Expand(pane), peek)
       [] Detail /\ shut                 -> Shows(ToggleThread(pane, Cursor.note), peek)
       [] Detail /\ Peekable(pane) # <<>> -> Shows(pane, StepPeek)
       [] OTHER                           -> Shows(ToggleFold(pane), peek)
  /\ UNCHANGED <<mode, visual, jumps>> /\ Stays

\* `enter` on the float.
JumpToDeclaration ==
  /\ mode = Normal /\ Detail /\ peek # <<>>
  /\ LET q == JumpToLine(pane, peek[1].to[1], peek[1].to[2]) IN
     /\ pane' = q /\ peek' = <<>>
     /\ jumps' = IF Jumped(pane, q)
                 THEN Append(IF Len(jumps) = MostPlaces THEN Tail(jumps) ELSE jumps, Place(pane))
                 ELSE jumps
  /\ UNCHANGED <<mode, visual>> /\ Stays

\* `ctrl-o`
GoBack ==
  /\ mode = Normal /\ jumps # <<>>
  /\ Shows(Returned(pane, Last(jumps)), peek)
  /\ jumps' = Front(jumps)
  /\ UNCHANGED <<mode, visual>> /\ Stays

----------------------------------------------------------------------------
(* A selection, and the composer it opens *)

Anchor == IF visual = <<>> THEN pane.cursor ELSE visual[1].row

\* `v`: a toggle; the anchor is the row's number.
Select ==
  /\ mode = Normal
  /\ IF visual # <<>> THEN visual' = <<>>
     ELSE /\ Cursor.kind = "line"
          /\ visual' = <<[row |-> pane.cursor, line |-> Cursor]>>
  /\ Shows(pane, peek)
  /\ UNCHANGED <<mode, jumps>> /\ Stays

\* `esc`: one thing at a time, the float first.
Close ==
  /\ mode = Normal /\ (peek # <<>> \/ visual # <<>>)
  /\ peek' = <<>>
  /\ visual' = IF peek # <<>> THEN visual ELSE <<>>
  /\ UNCHANGED <<pane, mode, jumps>> /\ Stays

\* `anchor_covers`
CoveredBy(row, at) ==
  row.kind = "line" /\ row.file = at.file /\ row[at.side] \in at.line .. at.end_line

\* `finding_at_cursor`: the note the cursor is on, or in, or right above.
NoteAtCursor ==
  LET below == pane.cursor + 1
      covers == {n \in DOMAIN pane.notes :
        CoveredBy(Cursor, pane.notes[n].at) /\ ~Twinned(pane.notes[n], pane.threads)}
  IN  CASE Cursor.kind = "note" -> {Cursor.note}
        [] Cursor.kind # "note" /\ covers # {} -> {pane.notes[Min(covers)].id}
        [] Cursor.kind # "note" /\ covers = {} /\ below \in DOMAIN pane.rows ->
             IF pane.rows[below].kind = "note" THEN {pane.rows[below].note} ELSE {}
        [] OTHER -> {}

\* The composer, opened on a row, is told what to file it against there and then.
Editing(hunk, lines, rewriting, reply, own) ==
  [kind |-> "editing", hunk |-> hunk, lines |-> lines, rewriting |-> rewriting,
   reply |-> reply, own |-> own, asked |-> Cursor, from |-> visual]

\* `c`: a comment of the reader's, the note here, or a new one.
EditAtCursor ==
  /\ mode = Normal
  /\ IF OwnAtCursor # {} THEN mode' = Editing(HunkAt(Cursor), {}, {}, 0, OwnAtCursor)
     ELSE /\ Cursor.kind # "thread" /\ HunkAt(Cursor) # NoHunk
          /\ mode' = Editing(HunkAt(Cursor), SelectedLines(pane, Anchor),
                             IF visual = <<>> THEN NoteAtCursor ELSE {}, 0, {})
  /\ visual' = <<>>
  /\ Shows(pane, peek)
  /\ UNCHANGED jumps /\ Stays

\* `r`
ReplyAtCursor ==
  /\ mode = Normal /\ Cursor.kind = "thread"
  /\ mode' = Editing(HunkAt(Cursor), {}, {}, Cursor.note, {})
  /\ visual' = <<>>
  /\ Shows(pane, peek)
  /\ UNCHANGED jumps /\ Stays

\* `ready`: one call at a time.
Ready == inflight = NoCall

\* Mutant: where the cursor is by then.
FiledAt_now(hunk, lines) ==
  LET h == IF HunkAt(Cursor) = NoHunk THEN hunk ELSE HunkAt(Cursor) IN
  [file |-> Hunks[h].file, side |-> "new", line |-> Hunks[h].new.start,
   end_line |-> Hunks[h].new.start, hunk |-> h]

\* `ReviewSession::add_finding`: of the hunk's file, on its first line unless lines
\* were picked.
FiledAt(hunk, lines) ==
  LET s     == IF Hunks[hunk].new.count > 0 THEN "new" ELSE "old"
      first == Max({Hunks[hunk][s].start, 1})
      l     == IF lines = {} THEN [side |-> s, start |-> first, end |-> first] ELSE CHOOSE l \in lines : TRUE
  IN  [file |-> Hunks[hunk].file, side |-> l.side, line |-> l.start, end_line |-> l.end,
       hunk |-> hunk]

\* A note of the reader's, on top of those there.
Noted(at, reply) ==
  Append(pane.notes, [id |-> made + 1, at |-> at, reply |-> reply, sent |-> 0])

\* A comment goes to the forge, if no call is out; or else the words are lost.
SendsEdit(own) == inflight' = IF Ready THEN [kind |-> "edit", own |-> own] ELSE inflight

\* `enter` in the composer.
Save ==
  LET m == mode
      own == IF m.own # {} THEN m.own
             ELSE UNION {OwnOfFinding(id) : id \in m.rewriting}
      thread == Thread(m.reply)
  IN
  /\ mode.kind = "editing"
  /\ mode' = Normal
  /\ IF own # {}
     THEN SendsEdit(own) /\ Shows(pane, peek) /\ UNCHANGED made
     ELSE /\ UNCHANGED inflight
          /\ IF \/ m.rewriting # {}
                \/ m.reply # 0 /\ (thread = <<>> \/ thread[1].at = <<>>)
             THEN Shows(Rebuilt(pane), peek) /\ UNCHANGED made
             ELSE /\ made < MaxNotes
                  /\ made' = made + 1
                  /\ Shows(WithNotes(pane, Noted(IF m.reply = 0 THEN FiledAt(m.hunk, m.lines)
                                                 ELSE thread[1].at, m.reply)), peek)
  /\ UNCHANGED <<visual, jumps, request>>

\* `esc` there, or an empty box; any key on a notice; `esc` in the search.
Leave ==
  /\ mode.kind \in {"editing", "notice", "search"}
  /\ mode' = Normal
  /\ Shows(pane, peek)
  /\ UNCHANGED <<visual, jumps>> /\ Stays

----------------------------------------------------------------------------
(* The forge's keys, and the questions they ask *)

\* `publish_plan`: what is not on the request; a reply needs its thread.
BatchOf(p) ==
  {n.id : n \in {k \in Range(p.notes) :
     /\ k.sent = 0 /\ ~Twinned(k, p.threads)
     /\ k.reply = 0 \/ \E t \in DOMAIN p.threads : p.threads[t].id = k.reply}}

\* Mutant: asked while a call is out.
OfferPublish_anytime(otherwise) ==
  mode' = IF BatchOf(pane) # {} THEN [kind |-> "publish", batch |-> BatchOf(pane)] ELSE otherwise

\* `offer_publish`
OfferPublish(otherwise) ==
  mode' = IF Ready /\ BatchOf(pane) # {} THEN [kind |-> "publish", batch |-> BatchOf(pane)]
          ELSE otherwise

\* `findings_action`, `open_findings`: the notes, and then the request's threads.
ListOf(p) ==
  {[kind |-> "note", id |-> n.id, at |-> n.at, sent |-> n.sent # 0] :
     n \in {k \in Range(p.notes) : ~Twinned(k, p.threads)}}
  \cup {[kind |-> "thread", id |-> t.id, at |-> t.at, sent |-> TRUE] : t \in Range(p.threads)}

Listing(p, confirming) ==
  IF ListOf(p) = {} THEN Normal
  ELSE [kind |-> "findings", entries |-> ListOf(p), confirming |-> confirming]

\* `reopen_findings`
Reopened(m, p) == IF m.kind = "findings" THEN Listing(p, FALSE) ELSE m

Asks(own) == [kind |-> "delete", own |-> own]

\* `dd`: a comment of the reader's is asked about, anyone else's refused.
DeleteAtCursor ==
  /\ mode = Normal
  /\ IF OwnAtCursor # {} THEN mode' = Asks(OwnAtCursor) /\ Shows(pane, peek)
     ELSE /\ Cursor.kind = "note"
          /\ Shows(WithNotes(pane, Without(pane.notes, Cursor.note)), peek)
          /\ mode' = mode
  /\ UNCHANGED <<visual, jumps>> /\ Stays

\* `x`, and `R`.
Call ==
  /\ mode = Normal /\ Ready
  /\ \/ /\ Cursor.kind = "thread" /\ Thread(Cursor.note) # <<>>
        /\ inflight' = [kind |-> "resolve", thread |-> Cursor.note,
                        to |-> ~Thread(Cursor.note)[1].resolved]
     \/ inflight' = [kind |-> "fetch"]
  /\ Shows(pane, peek)
  /\ UNCHANGED <<mode, visual, jumps, request, made>>

\* `P`
Publish ==
  /\ mode = Normal
  /\ OfferPublish(Normal)
  /\ Shows(pane, peek)
  /\ UNCHANGED <<visual, jumps>> /\ Stays

\* `y`, or any other key, in either question.
Answer(yes) ==
  /\ mode.kind \in {"publish", "delete"}
  /\ mode' = Normal
  /\ inflight' = IF ~yes \/ ~Ready THEN inflight
                 ELSE IF mode.kind = "publish" THEN [kind |-> "publish", batch |-> mode.batch]
                 ELSE [kind |-> "delete", own |-> mode.own]
  /\ Shows(pane, peek)
  /\ UNCHANGED <<visual, jumps, request, made>>

----------------------------------------------------------------------------
(* The lists, the search, help *)

Files(p) ==
  {[file |-> p.rows[i].file, row |-> i] : i \in {k \in DOMAIN p.rows : p.rows[k].kind = "file"}}

\* `f` in the diff, `F`, `/`, `?`.
Open ==
  /\ mode.kind \in {"normal", "files", "findings"}
  /\ mode.kind = "findings" => ~mode.confirming
  /\ \/ /\ mode = Normal /\ Detail /\ Files(pane) # {}
        /\ mode' = [kind |-> "files", entries |-> Files(pane)]
        /\ visual' = visual
     \/ /\ mode = Normal
        /\ mode' = Listing(pane, FALSE)
        /\ visual' = visual
     \/ mode' = [kind |-> "search"] /\ visual' = <<>>
     \/ mode' = [kind |-> "help", from |-> mode] /\ visual' = visual
  /\ Shows(pane, peek)
  /\ UNCHANGED jumps /\ Stays

\* Any key in help; `q`, or the key that opened it, in a list.
Shut ==
  /\ \/ mode.kind = "help" /\ mode' = mode.from
     \/ mode.kind = "files" /\ mode' = Normal
     \/ mode.kind = "findings" /\ ~mode.confirming /\ mode' = Normal
  /\ Shows(pane, peek)
  /\ UNCHANGED <<visual, jumps>> /\ Stays

\* `enter` in a list: on the file's header, the note or thread, or the line.
Jump ==
  /\ mode' = Normal
  /\ \/ /\ mode.kind = "files"
        /\ \E e \in mode.entries : Jumping(LandOn(pane, e.row))
     \/ /\ mode.kind = "findings" /\ ~mode.confirming
        /\ \E e \in mode.entries :
             LET item == IF e.kind = "note" THEN Note(e.id) ELSE Thread(e.id) IN
             Jumping(IF item = <<>> \/ e.at = <<>> \/ item[1].at = <<>> THEN pane
                     ELSE JumpToNote(pane, e.kind, e.id, item[1].at))
     \/ /\ mode.kind = "search"
        /\ \E f \in File : \E line \in 1 .. FileLen[f].new : Jumping(JumpToLine(pane, f, line))
  /\ UNCHANGED visual /\ Stays

\* `dd` in the findings list.
DeleteListed ==
  /\ mode.kind = "findings" /\ ~mode.confirming
  /\ \E e \in mode.entries :
       LET t == Thread(e.id)
           own == IF e.kind = "thread"
                  THEN IF t = <<>> THEN {} ELSE OwnComment(e.id, t[1].comments[1])
                  ELSE IF e.sent THEN OwnOfFinding(e.id) ELSE {}
       IN  IF own # {} THEN mode' = Asks(own) /\ Shows(pane, peek)
           ELSE /\ e.kind = "note"
                /\ LET p == WithNotes(pane, Without(pane.notes, e.id))
                   IN  Shows(p, peek) /\ mode' = Reopened(mode, p)
  /\ UNCHANGED <<visual, jumps>> /\ Stays

\* `D`, and the answer to it: what is on the request is kept.
ClearNotes ==
  /\ mode.kind = "findings"
  /\ \/ /\ ~mode.confirming /\ \E e \in mode.entries : ~e.sent
        /\ mode' = [mode EXCEPT !.confirming = TRUE]
        /\ Shows(pane, peek)
     \/ /\ mode.confirming
        /\ mode' = [mode EXCEPT !.confirming = FALSE]
        /\ Shows(pane, peek)
     \/ /\ mode.confirming
        /\ LET p == WithNotes(pane, Taken(pane.notes, {n \in DOMAIN pane.notes : pane.notes[n].sent # 0}))
           IN  Shows(p, peek) /\ mode' = Reopened(mode, p)
  /\ UNCHANGED <<visual, jumps>> /\ Stays

\* `P` there.
PublishListed ==
  /\ mode.kind = "findings" /\ ~mode.confirming
  /\ OfferPublish(Normal)
  /\ Shows(pane, peek)
  /\ UNCHANGED <<visual, jumps>> /\ Stays

----------------------------------------------------------------------------
(* The forge answers *)

\* What is drawn is laid out again, whatever is on screen; the float is left as it is.
Lands(p, m) ==
  /\ pane' = Rebuilt(p)
  /\ mode' = m
  /\ peek' = IF peek = <<>> THEN peek ELSE <<[peek[1] EXCEPT !.landed = TRUE]>>
  /\ inflight' = NoCall
  /\ UNCHANGED <<visual, jumps, made>>

\* `notice`: over whatever is on screen.
Notice == [kind |-> "notice"]

\* `set_threads`: the notes its comments carry are on the request.
WithThreads(p, threads) ==
  LET Carrier(n) == {t \in DOMAIN threads : n.id \in threads[t].notes}
  IN  [p EXCEPT !.threads = threads,
        !.notes = [k \in DOMAIN p.notes |->
           IF p.notes[k].sent = 0 /\ Carrier(p.notes[k]) # {}
           THEN [p.notes[k] EXCEPT !.sent = threads[Min(Carrier(p.notes[k]))].id]
           ELSE p.notes[k]]]

\* The replies to the threads that are there, and a thread for each of the others.
Posted(threads, notes) ==
  LET Answers(id) == Taken(notes, {n \in DOMAIN notes : notes[n].reply = id})
      Ids(t) == {n.id : n \in Range(Answers(threads[t].id))}
      roots == Answers(0)
  IN  [t \in DOMAIN threads |->
        LET new == Answers(threads[t].id) IN
        [threads[t] EXCEPT !.comments = @ \o [n \in DOMAIN new |-> CommentOf(new[n].id)],
                           !.notes = @ \cup Ids(t),
                           !.mine = @ \cup {CommentOf(id) : id \in Ids(t)}]]
      \o [n \in DOMAIN roots |->
           LET c == CommentOf(roots[n].id) IN
           [id |-> c, at |-> roots[n].at, resolved |-> FALSE, comments |-> <<c>>,
            notes |-> {roots[n].id}, mine |-> {c}]]

\* `mark_published`: the note keeps the address of the comment it became.
Sent(p, landed) ==
  [p EXCEPT !.notes = [k \in DOMAIN p.notes |->
     IF p.notes[k].id \notin landed THEN p.notes[k]
     ELSE [p.notes[k] EXCEPT !.sent = IF p.notes[k].reply = 0 THEN CommentOf(p.notes[k].id)
                                      ELSE p.notes[k].reply]]]

Fails ==
  /\ inflight # NoCall
  /\ Lands(pane, Notice)
  /\ UNCHANGED request

Fetched ==
  /\ inflight.kind = "fetch"
  /\ Lands(WithThreads(pane, request), mode)
  /\ UNCHANGED request

Resolved(threads) ==
  [t \in DOMAIN threads |->
     IF threads[t].id = inflight.thread THEN [threads[t] EXCEPT !.resolved = inflight.to]
     ELSE threads[t]]

ResolveLands ==
  /\ inflight.kind = "resolve"
  /\ Lands([pane EXCEPT !.threads = Resolved(@)], mode)
  /\ request' = Resolved(request)

\* `record_publish`: all of the batch, or some and a notice; the threads fetched back
\* or not.
PublishLands ==
  /\ inflight.kind = "publish"
  /\ \E landed \in SUBSET inflight.batch, refetched \in BOOLEAN :
       LET sent == Taken(pane.notes, {n \in DOMAIN pane.notes : pane.notes[n].id \in landed})
           posted == Posted(request, sent)
           p == Sent(pane, landed)
       IN  /\ request' = posted
           /\ Lands(IF refetched THEN WithThreads(p, posted) ELSE p,
                    IF landed = inflight.batch THEN mode ELSE Notice)

EditLands ==
  /\ inflight.kind = "edit"
  /\ Lands(pane, mode)
  /\ UNCHANGED request

\* `delete_comment`: an empty thread goes with its last comment.
Gone(threads, comment) ==
  LET Left(t) == {c \in DOMAIN threads[t].comments : threads[t].comments[c] # comment}
  IN  Taken([t \in DOMAIN threads |->
              [threads[t] EXCEPT !.comments = Taken(@, Left(t)),
                                 !.notes = {n \in @ : CommentOf(n) # comment}]],
            {t \in DOMAIN threads : Left(t) # {}})

\* Mutant: the drafts under a thread go with its comment.
Linked_thread(note, own) == own.thread \in {note.sent, note.reply}

\* `links`
Linked(note, own) == note.sent # 0 /\ CommentOf(note.id) = own.comment

DeleteLands ==
  /\ inflight.kind = "delete"
  /\ \E own \in inflight.own :
       LET p == [pane EXCEPT !.threads = Gone(@, own.comment),
                             !.notes = Taken(@, {n \in DOMAIN @ : ~Linked(pane.notes[n], own)})]
       IN  Lands(p, Reopened(mode, p)) /\ request' = Gone(request, own.comment)

----------------------------------------------------------------------------

Init ==
  /\ pane = Rebuilt(
       [view |-> "groups", entry |-> [groups |-> 1, files |-> 1], unfolded |-> {}, folded |-> {},
        grown |-> [h \in Hunk |-> AsItIs], split |-> FALSE, notes |-> <<>>, threads |-> <<>>,
        opened |-> {}, rows |-> <<>>, cursor |-> 1, focus |-> "detail"])
  /\ mode = Normal /\ visual = <<>> /\ peek = <<>> /\ jumps = <<>>
  /\ inflight = [kind |-> "fetch"] /\ request = Threads /\ made = 0

Keys ==
  \/ Move \/ LeftPane \/ Fold \/ JumpToDeclaration \/ GoBack
  \/ Select \/ Close \/ EditAtCursor \/ ReplyAtCursor \/ Save \/ Leave
  \/ DeleteAtCursor \/ Call \/ Publish \/ \E yes \in BOOLEAN : Answer(yes)
  \/ Open \/ Shut \/ Jump \/ DeleteListed \/ ClearNotes \/ PublishListed

Answers == Fails \/ Fetched \/ ResolveLands \/ PublishLands \/ EditLands \/ DeleteLands

Next == Keys \/ Answers

Spec == Init /\ [][Next]_vars

----------------------------------------------------------------------------
(* Properties *)

\* What goes to the forge is what the question showed and a `y` answered, and it is
\* still everything there is to send: neither a note written behind the question nor
\* an answer that lands under it changes the batch (`offer_publish`, `start_publish`).
OnlyWhatWasAsked ==
  [][\A b \in {inflight'.kind} :
       b = "publish" /\ inflight.kind # "publish" =>
         /\ mode.kind = "publish" /\ inflight'.batch = mode.batch
         /\ mode.batch = BatchOf(pane)]_vars

\* The forge takes no words from the reader: an answer drops a note only when it is of
\* that note's comment deleted, as the reader asked; what is not on the request goes by
\* the reader's own key (`poll_forge`, `delete_comment`).
NotesGoByHand ==
  [][(inflight # NoCall /\ inflight' = NoCall) =>
       \A n \in Range(pane.notes) :
         \/ \E k \in Range(pane'.notes) : k.id = n.id
         \/ /\ inflight.kind = "delete" /\ n.sent # 0
            /\ \E own \in inflight.own : own.comment = CommentOf(n.id)]_vars

\* A new note is about what the reader was looking at when they pressed `c`, whatever
\* the forge answered while they wrote (`edit_at_cursor`, `add_finding`).
NotesAreFiledWhereAsked ==
  [][made' > made /\ mode.reply = 0 /\ mode.from = <<>> =>
       LET note == Last(pane'.notes).at
           row  == mode.asked
       IN  /\ note.file = row.file /\ note.hunk = row.hunk
           /\ row.kind = "line" => row[note.side] \in note.line .. note.end_line]_vars

=============================================================================
