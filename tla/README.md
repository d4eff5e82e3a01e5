# differential: a verification development

`dfr` takes a range of commits, cuts its diff into hunks, partitions the hunks into
*shape classes*, has a language model merge classes into groups, orders the groups
foundation-first, and shows the result: in a terminal reviewer that keeps notes and
reviewed marks and can send the notes to a pull request, or as a stack of synthetic
commits. This directory holds TLA+ modules of the parts where those promises can be
broken by an order of events nobody tested, the TLC runs that check them, and the
theorems proved about them with TLAPS.

Paths below are relative to `src/crates`.

## The system

| Component | State it keeps | Operations | What makes it correct |
|---|---|---|---|
| **Enumeration, classification** `engine/src/{parse,rename_view,shape}.rs`, `plan/enumerate.rs` | none; a view of files and hunks | parse two views of the diff, merge them, hash shapes | no hunk lost, duplicated or merged across tiers |
| **Dependency graph** `engine/src/artefact`, `symbols` | none | read symbols, resolve uses to definitions | an edge from a class to the class that declares what it uses |
| **Grouping** `engine/src/grouping` | the answer cache (one file per key, shared by processes) | ask or replay, parse, audit, relocation gate, assemble | whatever the model answers, every class is in one group and no focus change is demoted |
| **Ordering** `engine/src/ordering.rs` | none | topological walk with cycle breaking, class order, roles, pivots | a group after what it depends on; an edge given up only on account of a cycle |
| **Invariants, staging** `engine/src/{apply,tree,invariants}.rs`, `plan/staging.rs` | none | reconstruct, build a tree, compare, recount | nothing is rendered of a change that does not come out as it was |
| **Commit stack** `stack` | a scratch index, then a ref | emit commits, compare the tip, move the ref | each commit reads true, the tip is the head |
| **Review session** `engine/src/{review_session,review_state,store}.rs` | sidecar directory: `plans/`, `current`, `findings.jsonl`, `state.json`; the same in memory | open, re-anchor, add, edit, delete, clear, publish marks, cursor, layout | a note stays on its text, an acknowledged change is not lost |
| **Forge consumer** `engine/src/{forge,forgeio}.rs`, `tui/src/app/forge.rs` | fetched threads on disk and in memory; comments on the forge; one call in flight | fetch, match, heal, publish, reply, edit, delete, resolve | no note on the request twice, no address that is somebody else's |
| **Review identity** `engine/src/review_identity.rs`, `store.rs` | identities and aliases, a file each in a directory per review | resolve, adopt | what is typed again opens the review it opened before |
| **Subprocess** `engine/src/{subprocess,llmio}.rs` | three threads, three pipes and a child | run to an end under a deadline and a cancel flag | the call ends, and its answer is whole |
| **A run** `tui/src/{lib,picker,splash,launch}.rs`, `osc`, `vendor/terminal.rs` | picker, pipeline thread, splash, progress bar, the terminal, the queue of events | pick, prepare, cancel, open, lend the terminal, leave | nothing is left behind; the screen is what the model says |
| **Diff pane** `tui/src/{window,rows}.rs`, `app/state.rs`, `app/search.rs` | selection, folds, expansions, columns, cursor | select, fold, pull open, split, jump, go back | a row is what it says; nothing is hidden without an edge that opens it; a jump arrives |
| **Reviewer** `tui/src/app/{keys,forge,findings,peek,jumps}.rs` | the mode on screen, a selection, a float, a jump stack, the call in flight | keys and forge answers in any order | what is sent is what was asked; a note is filed where the reader stood |
| **Desk** `tui/src/app/{draw,text,config,help,command}.rs`, `keymap.rs`, `engine/src/config.rs` | lists with scroll and selection, dividers, key table, `:config` draft | keys, clicks, wheel, drags, resizes | what is clicked is what is drawn; the screen wears the config in force; a key does something |
| **CLI, themes** `cli`, `tui/src/theme`, `markdown.rs` | none | parse arguments, print, colour | outside this development |

How they meet. `engine/src/pipeline.rs` runs enumerate → classify → group → order and
passes a document on; the reviewer, `dfr findings` and the stack each consume it. The
reviewer's event loop owns a `ReviewSession` and one worker thread at a time for forge
calls, joined by a channel it polls between events. Nothing locks the sidecar directory or
the answer cache: a second `dfr` process reads and rewrites the same files, each write an
atomic rename. Git, the forge's command-line tools and the agent are subprocesses that may
fail, be killed at a deadline, or have their answer lost after they took effect.

What is hard here is therefore: processes over one directory without a lock; a crash
between two of the files a step writes; a forge call that took effect and was not heard
of; keys pressed while a call is out; a plan regenerated many times under a note; arbitrary
answers of a model; dependency cycles; pipes that fill; byte arithmetic at the ends of a
file; and state counted against a layout that has changed since. `PROJECT.json` lists these
as hazards, each at its line.

## The modules

### Notes and the request

**`Anchoring`** is where a note is: hunks, lines, `add_finding`'s anchor and the
re-anchoring of `review_state.rs` by digest, then by content, then by orphaning, as
operators over arbitrary plans. **`ReviewSession`** composes it with the sidecar: each
session opens in the file operations of `ReviewSession::open`, one per step, and every
mutation changes memory and then saves a whole file or fails to. **`NoteBook`** is what a
reader is promised of it: texts change when they are edited, and at no other time; a
session implements it.

**`Publish`** is the forge consumer: the request as it stands on the forge (GitHub or
GitLab, whose tools differ in how a batch is sent), the stored and the remembered notes and
threads, the findings list on screen, and the call in flight, whose worker runs one tool
invocation per step. `dfr findings --post` is the same call from a session that fetches
nothing first. Two fields are history and not the code's: a comment remembers in `from` the
note it was sent as, for the properties to compare with the addresses the records keep, and
in `bared` whether it has ever been without a marker, in which case only its words can say
whose it is.

**`RequestLines`** is where a line of a note is on the request's page, and back: `place`,
`other_side_line`, `in_request_diff`, `line_end`, `draft_note_position`, and what is read of
a thread (`parse_gh_thread`, `parse_discussion`). It stands on `Rebuild`, whose changes it
uses.

### From a range to a plan and a stack

**`Grouping`** and **`Ordering`** hold the pure passes: audit, relocation gate, assembly and
the reading plan; group edges, the ready set, cycle breaking, class order, roles, pivots.
**`Plan`** is the pipeline that calls them, over an answer cache other processes write and
clear. **`Walk`** is what the order promises: groups are emitted once each, ready ones
while there are any, and the edges recorded as given up are those that were.

**`Applier`** is `apply_hunks` over contents split at newlines (a content ends with the
empty line exactly when its bytes end with a newline, as in the code), and what git reports
between two contents: any alignment of equal lines to which none can be added, not only a
shortest one. **`Rebuild`** composes it with the three staging rules, the four invariants and
the emission of commits, up to the ref. Which hunks a commit carries is left open, since
`Plan` shows each hunk has one step.

### Around a review

**`Identity`** is which stored review a range, the picker's answer, a name or a request
opens: every file operation of `resolve` is a step, processes interleave and die between any
two, and branches move.

**`Subprocess`** is one child run to its end: three pipes of limited room, a thread of ours at
each, and the polling caller. **`Prepare`** is a run up to an open review (picker, pipeline
thread, progress channel, splash, bar, notification), and **`EventLoop`** what follows: events
drained in bursts, effects after them, the terminal lent to an editor.

### The reviewer

Three modules look at the reviewer at three distances, since its whole state is out of reach
of one run.

- **`Window`** (which lines are around a hunk), **`Rows`** (what is laid out in which order),
  **`Tree`** (the file list) and **`Pane`** (where a key or a jump leads) are operators;
  **`Reader`** is the pane in a reader's hands: every key that selects, folds, pulls open,
  lays out anew or jumps.
- **`Reviewer`** has every mode over that pane, and the forge's answers landing under
  whichever is open. Here a call does what it says, part of it, or nothing; what the forge may
  do to it is `Publish`'s.
- **`Keymap`**, **`Lists`**, **`Settings`**, **`Panes`** and **`Modals`** are the key table, the
  scroll arithmetic of each list, `:config`, the two panes with their divider, and what opens
  over them; **`Desk`** puts keys, clicks, notches, drags, resizes and landing answers over
  them. What an action does to rows, notes and folds is `Reviewer`'s; here a row is how long its
  text is, whether that wraps (prose always, a file's lines with `w`, chrome never) and whether a
  cursor may stand on it.

**`Sorting`** is what the code's sorts and filters yield, for `Grouping`, `Applier`, `Rows` and
`Reviewer`; **`FiniteInduction`** holds the induction facts the proofs share. The `MC…` modules give
constants their values; each `.cfg` is one run.

Left out of these modules, beside wording and layout: hashing (ids and digests are injective
except that equal hunks have equal digests), the sha in a GitLab line code, a forge tool that
outlives the process that ran it, note ids, which are taken to be distinct, sideways scroll,
and the contents of the floats. In the documents' terms: parsing git's records, the symbol
index, the JSON contract, a config file's TOML, themes, markdown, argument parsing, and the
probe of an agent are not modelled.

## The runs

| Run | Question | Bounds |
|---|---|---|
| `session_notes` | Does a note stay on its text, and do its words change only as a note book's? | one session, one note, two bodies, five plans of one branch: moved up, rewritten, a byte-identical twin ahead of it, reverted |
| `session_beside` | What can two processes over one directory lose? | two sessions (symmetric), one note, two plans, one mark, one cursor |
| `publish` | Does the request say what the record says, and do calls end? | either forge, one note or reply of two bodies beside somebody's thread, three comments in all, one by hand, one deletion there, refused calls |
| `publish_faults` | What can go up twice, or be given another note's address? | either forge; two notes in the same words on one line with refused calls, or one note with every loss: answers, drafts, saves, processes |
| `plan` | Is every hunk read once, in its tier, foundations first, whatever the answer? | four classes of six hunks, 64 graphs over two short and two long cycles and five changes with generated and moved classes; answers of three groups with an omission, repeated, stray and out of order |
| `rebuild` | Does each commit read true, is a change that keeps its kinds ever refused, and does a note get to its line and back? | every pair of contents of up to three lines over two words, every alignment; ten special entries (binary, mode flip, empty, link, submodule, absent) two paths at a time; every partition of the hunks; one line of request context |
| `rebuild_numbers` | Is an unchanged line named on GitLab by two numbers of one line? (no) | as `rebuild` |
| `identity` | Does what is typed again open the same review? | two processes (symmetric), a diamond of five commits, one branch, six spellings, three reviews |
| `prepare` | Are answers whole, does a run leave anything, do calls end? | pipes of one, an input of two, outputs of two and one, three commits, two sizes, queue and burst of two |
| `reader` | Is a row what it says, can all of a file be reached, do jumps land and lead back? | two files with four hunks (a deletion, an insertion, replacements) in two groups and a third without, context 1, step 2, three lines pulled in, three lines sought |
| `reviewer` | Can an answer landing under a mode send, file or lose something nobody asked for? | two files of one line in one group, a thread of two comments, one note, one place to go back to |
| `desk` | Is the screen the config in force, does every binding answer, is what is clicked what is drawn, does a divider follow the hand? | terminals of 90×16, 60×5, 50×11, 30×13; thirteen rows of two files under a header, five blocks, six findings, nine hits; two rebindable actions with good and bad keys |

Why these are enough. A note meets another only through files rewritten whole, so one note
beside two sessions shows every loss; twins need one other hunk with the same bytes. Two
notes are where matching by place or by words can confuse them. Three groups are the
smallest in which one can be behind a cycle it is not on, and four classes let a group hold
classes that use each other. Three lines with a blank one hold an insertion, a
replacement and a deletion together with each combination of final newlines, and lines that
repeat so that git has a choice. A diamond has two lines of work with a common commit and a
merge, the shapes in which the nearest review is a question. A pipe of one fills at once.
Four hunks of which two are empty on a side make every kind of gap. The three terminals are
one where everything fits, one where panes are at their floor and one too narrow for two.

**Bounds and constraints by name.** `Worlds` in `Publish`: what is lost, the words each note
may be in, and `most`, the comments there may be; with `MaxByHand` and `MaxGone`, comments
written and deleted on the page. `Wordings` is a symmetry of two bodies that are only
compared. `Markable` in `ReviewSession`: the marks that are followed. `MaxReviews` and the
constraint `Apart` in `identity`: what happens after two processes opened one spelling at the
same time is not explored. `MaxOutput`, `Input`, `Room`, `MaxQueue`, `Burst`, `Sizes` and
`Commits` in `prepare`. `MaxGrown`, `MostRevealed` and `Sought` in `Reader`, with the view
`WithoutCursor`: every step of `Reader` chooses the cursor's row anew, so states that differ
in it have the same successors. `MaxNotes`, `MostPlaces` and the constraint `Apart` in `reviewer`: a
selection, a float and a place to go back to, one at a time and only with nothing open, help
read while no call is out, and boxes opened with the diff in focus. The constraint `Near` in `desk`: how many things may be away from how a review opens at once, with
`Widths`, the places a divider is moved on from.

The deadlock check is off in `prepare`, `rebuild` and `rebuild_numbers`, where a run that has
ended, or a rebuild that has landed or was refused, is over. A process may always be started
again, and so may a plan: every other run checks that no state is stuck, which is where a walk
that had nothing to emit with groups left would show.

**Fairness.** `Publish` assumes weak fairness of the worker, because each tool it runs is
killed at `TOOL_TIMEOUT` and so each step ends, and of recording an answer, because the event
loop polls the channel on every turn whether or not a key was pressed. `EventLoop` assumes it
of our own threads and of nobody else: neither the child nor the clock nor the reader is ever
assumed to do anything. `CallsEnd` holds there except while a process the child left behind
keeps a pipe open (`Lingers`), which is what joining a reader thread waits on.

**What properties exempt.** `AtMostOnce` exempts a note the session was never told of
(`doubtful`: an answer or a save was lost after the comment was there). `LastWord` speaks of
notes in distinct words wherever a comment has been without its marker, since only words can
match those. `NothingLost` exempts sessions that overlapped. `SameReviewAgain` exempts a
spelling two processes opened at the same time (`clash`). `BackReturns` exempts a row that is
no longer there. `UnderThePointer` exempts a list that was resized under (`astray`) and
`ScreenIsTheConfig` a draft a notice took the place of (`lost`); both are described below.
`BindingsAnswer` exempts sequences with a reserved press in them, or that another key of their
own action begins (below); `DividerMoves` a footer's button of several presses, whose first may
end a sequence that was begun before it was clicked (`SeveralPresses`).

## What is proved

Each theorem holds for every value of the constants under the assumptions named in the
modules, so for any number of plans, notes, processes, classes or events, and any graph:
`PlansAssumption`, `SessionAssumption`, `AbsentAssumption` (digests are equal when hunks are,
ids are not shared), `PublishAssumption`, `ChangesAreChanges` and its neighbours in `Plan`
(an answer is any list of groups of any ids), `EntriesAreEntries`, `EditsAreEdits`,
`IdentityAssumption`, `NoneIsNoReview`, `SizeAssumption`, `PickerAssumption`,
`LoopAssumption`, `RowsAssumption`, `WindowAssumption`, `PaneAssumption`, `ReviewerAssumption`
(what the symbol index and the forge promise), `KeymapAssumption` (a word is respelt once),
`SettingsAssumption`, `PanesAssumption` (a hunk's header can be stood on, and so can a row under
each file's), `ModalsAssumption` (a search lands on such a row or above one), `DeskAssumption` (a
file gives every field a value and keys only what may be typed for them; screens and columns are
numbers). `PROJECT.json` lists the theorems; the argument of each module is:

- **`ReviewSessionProofs`.** The first part is lemmas about `Anchoring`: `ReanchorPlaced` says
  a note re-anchored to a plan is on a hunk of that plan, on the lines it remembers, or an
  orphan. `AnchorInv` says so of every note in memory and on disk together with which plan it
  was placed on; a session that has not re-anchored yet holds notes of an older plan, so the
  invariant speaks of both. From it come the type invariant (`TypesHold`), `NotesAreExplained`
  and `LiveNotesAreOnScreen`. `KeepInv`, of the disk against the memory of the one session that
  did not overlap with another, gives `NothingIsLost`. `AReviewIsANoteBook` is the refinement:
  every step is a note book's or a stutter.
- **`PublishProofs`.** `PublishKeepsTypes` carries what a call knows at each of its stages.
  `EveryAddressIsItsOwn` needs where each address came from (`Origin`): a fetched thread is the
  forge's or was (`Sound`), a record's address came from a thread with its marker or its words
  (`Copied`, `Named`) or from the answer to its own call (`Addressed`); nothing on the forge
  changes whose it is (`Grows`). `NoNoteGoesUpTwice` counts the comments that were sent as one
  note and are not `doubtful`: each is `Known` to the record, `Linked` by the running call, or
  `Waiting` in its batch, and no two at once (`Count`). `TheRequestHasTheLastWord` follows a
  note's words (`Faithful`): every comment, cached comment, fetched comment, draft and edit
  under way that carries a note's marker is the one its record addresses or the running call's
  own (`Tied`), the call is told only of what is there (`Told`, which needs that a fetch is
  still what the request says, `Mirrors`), and what is there says what the record says unless
  an edit's answer is still to be recorded (`Said`). A comment taken by its words needs one
  more: where no two notes share words, whatever is linked to a note speaks in that note's
  (`Worded`). It holds in the worlds that lose nothing; in the others `doubtful` would have to
  say which words were lost.
- **`PlanProofs`.** Of the abstract order (`Walk`): groups once each (`EachOnce`), after what they
  depend on unless the edge was given up (`DependenciesHonoured`), and an edge given up only
  while nothing was ready (`NoNeedlessBreak`), which is when a cycle is among the groups left
  (`StuckIsCyclic`, over finite graphs). Of a plan: every hunk of the change is in one place of
  the groups (`Parts`), and this is carried through audit, gate and assembly, whatever the
  answer and whatever another process put in the cache (`Held`), to groups that are
  `WellPlaced`. The loop of `Ordering` implements `Walk` (`APlanIsAWalk`), so its theorems hold
  of a plan; the class order and the reading plan are recursive functions, reasoned about by
  induction. From these: `EachHunkIsReadOnce`, `EveryClassInItsTier`, `FoundationsComeFirst`,
  `NoEdgeGivenUpNeedlessly` and the type invariant.
- **`RebuildProofs`.** The applier first (`ApplierIsExact`): for every two texts, every
  alignment git may report between them and any set of its hunks, applying these to the base
  yields what those lines read, and applying all of them the head's content. The report is
  read as runs between the lines that stay (`Lined`), the applier as a pass over its hunks
  (`Passes`), and the two are walked together run by run: `Written` says that what has been
  written and what is left of the base up to the end of a run are the words of the lines chosen
  so far. The end of the file is settled by the last run alone (`EndIsRight`), since no line
  before the last can lack a newline. Then the stack: the staged contents are those the hunks
  so far give (`Staged`), and from it `RefMovesOnlyToTheHead`, `StackReadsTrue` and
  `NoNeedlessRefusal`.
  Last the request's page, for every text change, alignment, width of context and note. A diff is
  its runs laid end to end (`Stands`), so down it each side's numbers count up, one for each
  line on the side (`Counted`), and the hunks are where their numbers say, in their words and with
  a line that stays between any two (`InDiff`). From that alone `SentIsThere` and `NotesComeBack`.
  The second needs the number on the other side: where the hunk that carries the shift has a line
  on the side it is the last above the line (`GovernsIsLast`), as a later one could only tie with
  it, and then it is the kind of hunk the property sets aside. So
  `ElsewhereBothNumbersAreOneLine` says that the run `rebuild_numbers` shows the one place where
  `other_side_line` goes wrong.
- **`IdentityProofs`.** `IdentityInv` says that of the processes between two file operations
  only one is at a given spelling unless they clashed, and that what the others have still to
  write is under other names. `OpensTheSameReview`, `ProgressIsReachable` and `NearestIsJoined`
  follow.
- **`TerminalProofs`.** Of a run, `RunInv` joins the child's pipes, the threads' buffers, the
  progress channel and what is on screen: every byte is in one of those places, and what is
  drawn is what the model was when it was drawn or an effect is still owed. It gives
  `RunKeepsTypes`, `AnswersAreWhole`, `NothingIsLeft`, `ReaderIsToldTrue` and `LoopIsInStep`. Of the
  desk, `DeskInvariant`: the keys are the config's, the config the file's and one a review opens
  under, and a draft may be run under but for the faults counted against its keys (so a save,
  which asks for none, is of one that opens). Each key, click and notch leaves this so and
  leaves the screen in what it should wear (`Kept`): what moves rows only (`Stays`), what opens
  or closes a box (`Turns`), what `:config` does to its draft (`Idle`), a resize key (`Shifts`)
  and a drag (`Drags`), each shown once and composed as the handlers compose them; a footer's
  button by induction over its presses. `TheScreenIsTheConfig` follows, and `TheDividerMoves` from
  how far each of these may move a divider. `TheBindingsAnswer` rests on `AcceptedAnswers`, of the
  key table alone: in a table without faults no key begins another of the same screens
  (`NoneBegins`), so the look-up's first match is the binding's own (`StartsOf`).
  `ThePointerIsTrue` has an invariant of its own, since what is drawn is only right if nothing
  moved a selection or took rows from it without moving the scroll. Of the panes (`PanesOK`): the
  entry of each list and the cursor are among the rows, and the stretch of rows from the scroll to
  them fits, counted with the layout the cursor was last followed in. Of what is open, or waits
  under help (`Settled`): its selection is an entry there is, whatever was deleted, cleared or
  searched for since; and that entry is within the rows its list has (`InWindow`), unless a resize
  or a click below the entries put it out (`astray`). Lengths of stretches are differences of
  prefix sums (`TallIsADifference`), a list with rules between its entries has each at its
  `Place` (`WithRulesLaid`), and `:config`, which counts no rules, keeps three lines more than its
  rows, of which two rules at most take two (`ConfigRoom`). Each handler is shown once to keep
  this (`Sees`, `Handles`, `Clicks`); from it the widget draws from the scroll it is handed
  (`ShownFromThere`) and a hit test finds what it draws (`HitIsDrawn`, `RuledDrawn`).
- **`ReviewerProofs`.** `ReviewerInvariant` is, for every change, plan, request and window: the rows
  say where they are (one that acts on a hunk names one of its own file), every note and every
  thread drawn is about a hunk, the question what to publish is open only with no call out and
  over all there is to send, and the composer holds what it was opened on. The layout is
  shown sound once (rows are laid end to end by folds, so by induction over a file's spans,
  hunks and notes), then kept by each key and each answer. `PublishedIsWhatWasAsked`,
  `NotesAreTheReaders` and `NotesAreFiledThere` follow from it step by step.
- **`FiniteInduction`.** A recursive function is shown to exist, then a property of it is proved
  by induction on its argument, from the least-number principle; the other modules use it
  where the library's theorems take an operator. `RankedNamesEach` says a sort by rank has each
  member once and in order, `TakenSelects` that what is taken of a sequence is its chosen
  members in their order, `FlattenLays` that flattening lays its sequences end to end.

Only model-checked:

- liveness under fairness (`CallsEnd` of `Publish` and of `EventLoop`), which the prover cannot
  state the enabling conditions of;
- `Reader`'s properties, which compare positions in a layout that is built anew at every step
  (`Rows`, `Window`).

## What was found while modelling

By a run. `other_side_line` (`engine/src/forge.rs`) takes the offset of a line from the end of
the last hunk before it. Git numbers the empty side of a pure insertion or deletion by the
line *before* it, so below one the other number is off by one; `rebuild_numbers` shows a line
GitLab is told of by two numbers that are not one line.

By reading, each met while writing the module named. They are not runs, since nothing in the
repository says the contrary in words a property can state, or the statement is about one
place.

*Notes and the request*

- `in_request_diff` has the same cause: around a hunk that is empty on the note's side it admits
  the line three and one before and leaves out the third after; GitHub then refuses the whole
  review.
- `spec/forge.md:253` says the hash of a GitLab line code is "shared by every added or deleted
  line"; `other_position` gives an offset into the paired hunk.
- Two notes linked to one comment: an edit through the second's row sends the second's marker
  and rewrites the first's record (`review_session.rs:156` and `:589`).
- A note orphaned by a plan is not revived by that plan's return when its content no longer
  matches (`review_state.rs:244-254`).
- A publish whose answer was lost is sent again by the next `P` (`forge.rs:874`;
  `spec/forge.md:184-186` speaks of it).
- The findings list opened before an answer lands deletes the record of a note that is on the
  request by then (`tui/src/app/keys.rs`, `review_session.rs:678`). The text of an edit saved while
  a call is out is lost (`keys.rs:901`).
- A moved range keeps its length and never consults `end_line_text`; of hunks equal byte for
  byte, a note may move to the other file's; two same-worded notes can be linked to one
  comment; a note rewritten while it is sent keeps its old words there; GitLab drafts left by
  a refused batch go out with the next.
- Two processes that write `findings.jsonl` lose one another's notes; an agent's unusable answer
  is kept as long as its key is (`grouping/mod.rs:353`).

*From a range to a stack*

- A change of type from file to symbolic link gains a newline if the link is stored without one
  (`apply.rs:41`), so the review is refused, against `spec/invariants.md:19`. Submodule to file
  and binary to link are refused at the tip (`plan/staging.rs:89-107`).
- A group behind a cycle it is not on can have its edge given up and be told it is on a cycle
  (`ordering.rs:337`; `plan/view.rs:22`).
- Two branches whose reviews have a common reviewed commit can be joined
  (`review_identity.rs:13`).
- A terminal error during the splash leaves the agent running (`tui/src/lib.rs:139`).

*The reviewer*

- `reveal_line` stops short when a hunk it crosses governs the edge (`search.rs:760`); a jump from
  a search folds the row it lands on if that was open (`search.rs:705`).
- A selection carried past a file header files the first file's lines on the second file's hunk
  (`edit_at_cursor`; `spec/tui.md:1032`).
- A failed call's notice takes the place of the composer and drops the draft
  (`spec/tui.md:648`), and of `:config`, whose draft is then neither saved nor discarded
  while the screen goes on wearing it (`engine/src/config.rs:5-6`).
- `FileListEntry.row_idx` and the peek float's key are row indices that a landing answer makes
  stale (`app/mod.rs:406`); `ctrl-o` keeps a tree row's index (`spec/tui.md:412-419`). Replies
  under a shut resolved thread cannot be reached; help over the findings list leaves without
  opening it again.

*The desk*

- A list resized while open keeps its scroll, and a click selects another entry than the one
  drawn (`text.rs:150-153`). A click on the findings footer's blank part selects the entry below
  the window; notes and footer of `:config` map to settings that are not drawn.
- A pending first press survives the mouse: `d`, a click, `d` deletes (`keymap.rs:463`). A click
  on the footer's `dd` acts on its first press. A reserved press inside a sequence is accepted
  by `Keymap::new` and can never be pressed; so is a key that another key of the same action
  begins (`keymap.rs:417` skips an action against itself), which acts twice. `keymap.rs:55` says of `close` that it is two rows;
  there is one.
- Two windows' `:config` replace each other's whole file; a `context_step` of 0 written by
  hand survives a save.
- `follow_cursor` counts its margin in rows, so with wrapped rows the cursor can leave the pane;
  a layout previewed from `:config` does not call it. On the first row it may stand on it pins the
  pane to the top (`state.rs:608-617`), so where the group's header is taller than the pane that
  row is below the fold (`CursorSeen` sets both aside).

## The plan

In order of what says most about the system:

1. done: the note's life (`Anchoring`, `ReviewSession`, `NoteBook`), the request (`Publish`), the
   plan (`Grouping`, `Ordering`, `Walk`, `Plan`), the stack (`Applier`, `Rebuild`), identity,
   the agent's call and a run (`Identity`, `Subprocess`, `Prepare`, `EventLoop`), and their
   proofs;
2. done: the request's lines, the pane, the reviewer and the desk, model-checked, and the proofs
   of all but the pane;
3. left: lemmas about `Window`'s spans and from them `Reader`'s invariants;
4. left: a module of the dependency graph (which use an edge is drawn for), then of the two
   views of a diff and their merge.
