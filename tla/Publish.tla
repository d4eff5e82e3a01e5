------------------------------ MODULE Publish ------------------------------
(***************************************************************************)
(* Sending findings to a pull or merge request                             *)
(* (crates/engine/src/forge.rs, forgeio.rs, review_session.rs;             *)
(* crates/tui/src/app/forge.rs; `publish` in crates/cli/src/lib.rs).       *)
(*                                                                         *)
(* The reviewer keeps one forge call in flight on a worker thread, and     *)
(* goes on writing and deleting notes while it is out.  The worker runs    *)
(* one tool invocation per step; each is answered, refused with no effect, *)
(* or takes effect and loses its answer (`TOOL_TIMEOUT` kills the tool).   *)
(* The answer is then recorded in up to three saves, any of which may      *)
(* fail, and the process may end between any two steps.                    *)
(* `dfr findings --post` is the same publish from a session that fetches   *)
(* nothing first.                                                          *)
(*                                                                         *)
(* Left out: where a line is in the request's diff, resolving threads,     *)
(* threads this plan has no line for, orphaned notes (never sent), a       *)
(* failed save of a note (module ReviewSession), and a tool that outlives  *)
(* the process that ran it.                                                *)
(***************************************************************************)
EXTENDS Integers, Sequences, FiniteSets, SequencesExt

CONSTANTS
  Kind,         \* which forges the request may be on: "github", "gitlab"
  NoteId, Body, Place,
  PlaceOf,      \* PlaceOf[i]: file, side and last line of note i
  Worlds,       \* the worlds a behaviour may be set in: a record of
                \*   lossy: an answer or a save may be lost, or a call cut off
                \*   words: words[i] are the bodies the reader gives note i
                \*   most: bound, comments ever on the request
  OutsideDiff,  \* the notes on lines the request's diff does not show
  Absent, NoNote,
  MaxByHand,    \* bound: comments the reader writes on the forge's own page
  MaxGone,      \* bound: comments gone before one more is deleted there
  Opened        \* the comments others had made when the review was first opened

Id == Nat \ {0}               \* a thread has its first comment's id
NoComment == 0

\* `Finding`: its words, the thread it answers, its address on the request.
Note == [body : Body, reply_to : Nat, upstream : Nat]

\* `RemoteComment`, in its `RemoteThread`.
Comment == [thread : Id, place : Place, author : {"me", "other"},
            marker : NoteId \cup {NoNote}, body : Body, live : BOOLEAN,
            from : NoteId \cup {NoNote},  \* history: the note it was sent as
            bared : BOOLEAN]              \* history: it has been without a marker

ASSUME PublishAssumption ==
  /\ Kind \subseteq {"github", "gitlab"} /\ PlaceOf \in [NoteId -> Place]
  /\ \A w \in Worlds : w.lossy \in BOOLEAN /\ w.words \in [NoteId -> SUBSET Body] /\ w.most \in Id
  /\ OutsideDiff \subseteq NoteId /\ MaxByHand \in Nat /\ MaxGone \in Nat
  /\ NoNote \notin NoteId /\ Absent \notin Note /\ Opened \in Seq(Comment)
  /\ \A c \in DOMAIN Opened : Opened[c].author = "other" /\ Opened[c].marker = NoNote
                              /\ Opened[c].from = NoNote /\ Opened[c].bared

VARIABLES
  world,       \* which of the worlds this is
  \* the request, on the forge
  kind,        \* which forge it is
  posted,      \* every comment ever made, by id
  drafts,      \* GitLab: draft notes not yet published
  \* the sidecar directory
  savedNote,   \* findings.jsonl
  savedCache,  \* comments.jsonl
  \* the session
  open,        \* "no", "tui" or "cli"
  note, cache, \* its findings, or Absent; fetched threads
  me,          \* it knows the reader's login
  listed,      \* the findings list on screen: its rows not marked published
  call,        \* the forge call in flight
  \* history
  doubtful,    \* notes sent of which no answer, or no save of a record, told
  raced,       \* notes edited or deleted while they were being sent
  used         \* notes ever written: an id is not given twice

forge   == <<world, kind, posted, drafts>>
disk    == <<savedNote, savedCache>>
session == <<open, note, cache, me, listed>>
history == <<doubtful, raced, used>>
vars    == <<forge, disk, session, call, history>>

----------------------------------------------------------------------------
(* The request *)

Live == {c \in DOMAIN posted : posted[c].live}
LiveOf(i) == {c \in Live : posted[c].marker = i}

\* What a fetch of the threads brings back.
Threads == [c \in Live |-> posted[c]]

NoThreads == <<>>

CommentOf(i, c, body, reply_to) ==
  [thread |-> IF reply_to = NoComment THEN c ELSE reply_to,
   place |-> PlaceOf[i], author |-> "me", marker |-> i, body |-> body, live |-> TRUE,
   from |-> i, bared |-> FALSE]

Roots(threads) ==
  {c \in DOMAIN threads : \A d \in DOMAIN threads :
      threads[d].thread = threads[c].thread => c <= d}

----------------------------------------------------------------------------
(* The session's records *)

Ids(notes) == {i \in NoteId : notes[i] # Absent}

\* A cached comment says it is note i's.
Carries(threads, i) == \E c \in DOMAIN threads : threads[c].marker = i

Unsent(notes) == {i \in Ids(notes) : notes[i].upstream = NoComment}

Candidates(notes, threads) == {i \in Unsent(notes) : ~Carries(threads, i)}

\* `publish_plan`: only GitHub is held to the lines its diff shows.
Comments(notes, threads) ==
  {i \in Candidates(notes, threads) :
     notes[i].reply_to = NoComment /\ ~(kind = "github" /\ i \in OutsideDiff)}
Replies(notes, threads) ==
  {i \in Candidates(notes, threads) :
     \E c \in DOMAIN threads : threads[c].thread = notes[i].reply_to}

Address(notes, i, c) == [notes EXCEPT ![i].upstream = c]

\* Mutant: left to the refetch.
MarkPublished_later(notes, sent) == notes

\* `mark_published`: what the answer names has an address.
MarkPublished(notes, sent) ==
  [i \in NoteId |->
     IF notes[i] # Absent /\ sent[i] # NoComment
     THEN [notes[i] EXCEPT !.upstream = sent[i]] ELSE notes[i]]

First(S) == CHOOSE c \in S : \A d \in S : c <= d

ByMarker(notes, threads) ==
  [i \in NoteId |->
     IF i \in Unsent(notes) /\ Carries(threads, i)
     THEN [notes[i] EXCEPT !.upstream = First({c \in DOMAIN threads : threads[c].marker = i})]
     ELSE notes[i]]

\* Comment c, which carries no marker, reads like note i.
Alike(i, c, notes, threads) ==
  /\ notes[i].upstream = NoComment /\ notes[i].body = threads[c].body
  /\ IF c \in Roots(threads)
     THEN notes[i].reply_to = NoComment /\ PlaceOf[i] = threads[c].place
     ELSE notes[i].reply_to = threads[c].thread

\* `heal_by_author`, at one comment: the first note it reads like is linked.
Heal(books, c) ==
  LET like == {i \in Ids(books.note) : Alike(i, c, books.note, books.cache)}
      i    == CHOOSE j \in like : TRUE
  IN  IF books.cache[c].marker # NoNote \/ books.cache[c].author # "me" \/ like = {}
      THEN books
      ELSE [note |-> Address(books.note, i, c), cache |-> [books.cache EXCEPT ![c].marker = i]]

\* The threads are healed in order, each by what those before it left.
Healed(books) ==
  LET threads == books.cache
      upto[c \in 0 .. Len(posted)] ==
        IF c = 0 THEN books ELSE IF c \in DOMAIN threads THEN Heal(upto[c - 1], c) ELSE upto[c - 1]
  IN  upto[Len(posted)]

\* `set_threads`: the fetch replaces the cache and addresses what it carries.
Reconcile(notes, threads, knows_me) ==
  LET books == [note |-> ByMarker(notes, threads), cache |-> threads]
  IN  IF knows_me THEN Healed(books) ELSE books

\* Comment c is the record i's: `links`.
Links(notes, threads, i, c) ==
  /\ notes[i] # Absent
  /\ notes[i].upstream = c \/ (c \in DOMAIN threads /\ threads[c].marker = i)

\* `own_comment`, `own_of_finding`: the reader may edit or delete comment c.
Own(notes, threads, knows_me, c) ==
  \/ knows_me /\ c \in DOMAIN threads /\ threads[c].author = "me"
  \/ \E i \in NoteId : Links(notes, threads, i, c)

\* Note i is on the request, live or as a draft.
There(i) == LiveOf(i) # {} \/ \E k \in DOMAIN drafts : drafts[k].marker = i

\* Notes there of which the records do not know.
Unknown(notes) == {i \in Unsent(notes) : There(i)}

----------------------------------------------------------------------------
(* The call in flight *)

NoCall == [kind |-> "none", stage |-> "answered",
           batch |-> [i \in NoteId |-> Absent],   \* publish: the notes as they were at `P`
           comments |-> {}, replies |-> {}, drafted |-> {}, base |-> NoComment,
           sent |-> [i \in NoteId |-> NoComment], \* `Sent::published`
           target |-> NoComment, text |-> Absent, linked |-> NoNote,
           has_threads |-> FALSE, fetched |-> NoThreads, err |-> FALSE]

Publishing(notes, threads) ==
  [NoCall EXCEPT !.kind = "publish", !.stage = "head", !.batch = notes,
                 !.comments = Comments(notes, threads), !.replies = Replies(notes, threads)]

Batch == call.comments \cup call.replies

Room(c, n) ==
  Len(posted) + Len(drafts) + Cardinality(c.comments \cup c.replies) + n <= world.most

\* What a tool invocation comes back with; a lost one took effect.
Answers == {"ok", "refused"} \cup (IF world.lossy THEN {"lost"} ELSE {})

\* Whether a save succeeds, or the process outlives it.
Saves == IF world.lossy THEN BOOLEAN ELSE {TRUE}

StepTo(stage) == call' = [call EXCEPT !.stage = stage]
Fail == call' = [call EXCEPT !.stage = "answered", !.err = TRUE]

\* Mutant: the same call is tried again.
Stop_retrying == UNCHANGED call

\* `stop`: an error is returned only while nothing is known to have gone up.
Stop ==
  IF call.sent = NoCall.sent /\ (kind = "github" => call.comments = {})
  THEN Fail ELSE StepTo("refetch")

\* The comments of a batch, as the request numbers them.
Posting(S) ==
  [k \in 1 .. Cardinality(S) |->
     LET i == SetToSeq(S)[k] IN CommentOf(i, Len(posted) + k, call.batch[i].body, NoComment)]

\* Mutant: matched by place instead of by marker.
Matched_by_place(S) ==
  [i \in NoteId |->
     LET hits == {c \in Live : c > call.base /\ posted[c].place = PlaceOf[i]}
     IN  IF i \in S /\ hits # {} THEN First(hits) ELSE call.sent[i]]

\* `match_published`, `match_gitlab_published`.
Matched(S) ==
  [i \in NoteId |->
     LET hits == {c \in LiveOf(i) : c > call.base}
     IN  IF i \in S /\ hits # {} THEN First(hits) ELSE call.sent[i]]

AfterReplies ==
  CASE kind = "github"                         -> "threads"
    [] kind = "gitlab" /\ call.comments = {}   -> "refetch"
    [] kind = "gitlab" /\ call.comments # {}   -> "drafts"

ToReplies == IF call.replies = {} THEN AfterReplies ELSE "replies"

\* `publish`: ask where the request is.  It is refused if someone pushed, or
\* nobody answers.
CheckHead ==
  /\ call.stage = "head"
  /\ \/ Fail
     \/ StepTo(IF kind = "github" /\ call.comments # {} THEN "send" ELSE ToReplies)
  /\ UNCHANGED forge

\* GitHub: one review holds every new comment.
SendReview ==
  /\ call.stage = "send"
  /\ \E a \in Answers :
       /\ posted' = IF a = "refused" THEN posted ELSE posted \o Posting(call.comments)
       /\ IF a = "ok"
          THEN call' = [call EXCEPT !.stage = "list", !.base = Len(posted)]
          ELSE Fail
  /\ UNCHANGED drafts

ListReview ==
  /\ call.stage = "list"
  /\ \/ call' = [call EXCEPT !.stage = ToReplies, !.sent = Matched(call.comments)]
     \/ StepTo("refetch")
  /\ UNCHANGED forge

\* Replies go one by one, each into a thread that must still be there.
SendReply ==
  /\ call.stage = "replies"
  /\ \E i \in call.replies, a \in Answers :
       LET thread == call.batch[i].reply_to
           left   == {j \in call.replies \ {i} : call.sent[j] = NoComment}
       IN
       /\ call.sent[i] = NoComment
       /\ a # "refused" => \E c \in Live : posted[c].thread = thread
       /\ posted' = IF a = "refused" THEN posted
                    ELSE Append(posted, CommentOf(i, Len(posted) + 1, call.batch[i].body, thread))
       /\ IF a = "ok"
          THEN call' = [call EXCEPT !.sent[i] = Len(posted) + 1,
                                    !.stage = IF left = {} THEN AfterReplies ELSE "replies"]
          ELSE Stop
  /\ UNCHANGED drafts

\* GitLab: each new comment is drafted ...
Draft ==
  /\ call.stage = "drafts"
  /\ \E i \in call.comments \ call.drafted, a \in Answers :
       LET drafted == call.drafted \cup {i} IN
       /\ drafts' = IF a = "refused" THEN drafts
                    ELSE Append(drafts, [marker |-> i, body |-> call.batch[i].body])
       /\ IF a = "ok"
          THEN call' = [call EXCEPT !.drafted = drafted,
                                    !.stage = IF drafted = call.comments THEN "bulk" ELSE "drafts"]
          ELSE Stop
  /\ UNCHANGED posted

\* ... and one call publishes every draft on the request, an earlier batch's too.
BulkPublish ==
  /\ call.stage = "bulk"
  /\ \E a \in Answers :
       /\ IF a = "refused" THEN UNCHANGED <<posted, drafts>>
          ELSE /\ posted' = posted \o [k \in 1 .. Len(drafts) |->
                    CommentOf(drafts[k].marker, Len(posted) + k, drafts[k].body, NoComment)]
               /\ drafts' = <<>>
       /\ IF a = "ok" THEN StepTo("threads") ELSE Stop

\* The adapter's own fetch, which names what it sent.
FetchBack ==
  /\ call.stage = "threads"
  /\ \/ call' = [call EXCEPT !.stage = "answered", !.has_threads = TRUE, !.fetched = Threads,
                             !.sent = IF kind = "gitlab" THEN Matched(call.comments) ELSE @]
     \/ StepTo("refetch")
  /\ UNCHANGED forge

\* `forge.threads`: a fetch, or the refetch after a publish that brought none.
FetchThreads ==
  /\ call.stage = "refetch"
  /\ \/ call' = [call EXCEPT !.stage = "answered", !.has_threads = TRUE, !.fetched = Threads]
     \/ call' = [call EXCEPT !.stage = "answered", !.err = call.kind = "fetch"]
  /\ UNCHANGED forge

\* An edit or a deletion of a comment, which must still be there.
Act ==
  /\ call.stage = "act"
  /\ \E a \in Answers :
       /\ a # "refused" => call.target \in Live
       /\ posted' = IF a = "refused" THEN posted
                    ELSE IF call.kind = "delete" THEN [posted EXCEPT ![call.target].live = FALSE]
                    ELSE [posted EXCEPT ![call.target].body = call.text,
                                        ![call.target].marker = call.linked,
                                        ![call.target].bared = @ \/ call.linked = NoNote]
       /\ IF a = "ok" THEN StepTo("answered") ELSE Fail
  /\ UNCHANGED drafts

Worker ==
  /\ \/ CheckHead \/ SendReview \/ ListReview \/ SendReply \/ Draft \/ BulkPublish
     \/ FetchBack \/ FetchThreads \/ Act
  /\ UNCHANGED <<world, kind, disk, session, history>>

----------------------------------------------------------------------------
(* The reviewer *)

\* Keys reach the diff only while no list covers it.
InDiff == open = "tui" /\ listed = {}
Ready == InDiff /\ call = NoCall

SetNotes(notes) == note' = notes /\ savedNote' = notes

Races(i) == raced' = IF i \in Batch THEN raced \cup {i} ELSE raced

Begin(c) == call' = c /\ UNCHANGED <<forge, disk, session, history>>

NoNotes == [i \in NoteId |-> Absent]

\* The reviewer opens on the request's head, and fetches at once.
OpenReview ==
  /\ open = "no" /\ open' = "tui"
  /\ note' = savedNote /\ cache' = savedCache
  /\ call' = [NoCall EXCEPT !.kind = "fetch", !.stage = "refetch"]
  /\ UNCHANGED <<forge, disk, me, listed, history>>

\* `dfr findings --post`.
PostFromCli ==
  LET batch == Publishing(savedNote, savedCache) IN
  /\ open = "no" /\ open' = "cli"
  /\ note' = savedNote /\ cache' = savedCache
  /\ batch.comments \cup batch.replies # {} /\ Room(batch, 0)
  /\ call' = batch
  /\ UNCHANGED <<forge, disk, me, listed, history>>

AddNote(i, b, t) ==
  /\ InDiff /\ i \notin used /\ used' = used \cup {i}
  /\ t # NoComment => \E c \in DOMAIN cache : cache[c].thread = t
  /\ SetNotes([note EXCEPT ![i] = [body |-> b, reply_to |-> t, upstream |-> NoComment]])
  /\ UNCHANGED <<forge, savedCache, open, cache, me, listed, call, doubtful, raced>>

\* Mutant: the record rewritten whether or not the forge holds the comment.
EditNote_published(i, b) ==
  /\ InDiff /\ i \in Ids(note)
  /\ SetNotes([note EXCEPT ![i].body = b])
  /\ Races(i)
  /\ UNCHANGED <<forge, savedCache, open, cache, me, listed, call, doubtful, used>>

\* `rewrite_finding` of a note with no address.
EditNote(i, b) ==
  /\ InDiff /\ i \in Unsent(note)
  /\ SetNotes([note EXCEPT ![i].body = b])
  /\ Races(i)
  /\ UNCHANGED <<forge, savedCache, open, cache, me, listed, call, doubtful, used>>

\* `dd` on a note in the diff: its address decides, as it is now.
DeleteNote(i) ==
  /\ InDiff /\ i \in Unsent(note)
  /\ SetNotes([note EXCEPT ![i] = Absent])
  /\ Races(i)
  /\ UNCHANGED <<forge, savedCache, open, cache, me, listed, call, doubtful, used>>

OpenList ==
  /\ InDiff /\ listed' = Unsent(note)
  /\ UNCHANGED <<forge, disk, open, note, cache, me, call, history>>

CloseList ==
  /\ listed # {} /\ listed' = {}
  /\ UNCHANGED <<forge, disk, open, note, cache, me, call, history>>

\* `dd` in the list: what the row said when the list was opened decides.
DeleteListed(i) ==
  /\ i \in listed
  /\ SetNotes([note EXCEPT ![i] = Absent])
  /\ listed' = Unsent(note')
  /\ Races(i)
  /\ UNCHANGED <<forge, savedCache, open, cache, me, call, doubtful, used>>

\* `D`, from the list: every note with no address goes.
ClearNotes ==
  /\ listed # {}
  /\ SetNotes([i \in NoteId |-> IF i \in Unsent(note) THEN Absent ELSE note[i]])
  /\ listed' = {}
  /\ raced' = raced \cup (Batch \cap Unsent(note))
  /\ UNCHANGED <<forge, savedCache, open, cache, me, call, doubtful, used>>

StartFetch == Ready /\ Begin([NoCall EXCEPT !.kind = "fetch", !.stage = "refetch"])

StartPublish ==
  LET batch == Publishing(note, cache) IN
  /\ Ready /\ batch.comments \cup batch.replies # {} /\ Room(batch, 0)
  /\ Begin(batch)

\* The record a comment of the reader's is linked to.
LinkedTo(c) ==
  LET linked == {i \in NoteId : Links(note, cache, i, c)}
  IN  IF linked = {} THEN {NoNote} ELSE linked

StartEdit(c, b) ==
  /\ Ready /\ Own(note, cache, me, c)
  /\ \E i \in LinkedTo(c) :
       /\ i # NoNote => b \in world.words[i]
       /\ Begin([NoCall EXCEPT !.kind = "edit", !.stage = "act",
                               !.target = c, !.text = b, !.linked = i])

StartDelete(c) ==
  /\ Ready /\ Own(note, cache, me, c)
  /\ Begin([NoCall EXCEPT !.kind = "delete", !.stage = "act", !.target = c])

----------------------------------------------------------------------------
(* Recording the answer: `poll_forge`, `record_publish` *)

\* What went up and the answer does not name.
Unnamed == {i \in Batch : There(i) /\ call.sent[i] = NoComment /\ ~Carries(call.fetched, i)}

CallIsOver(saved) ==
  /\ call' = NoCall
  /\ doubtful' = doubtful \cup Unnamed
                 \cup (IF saved THEN {} ELSE Unknown(savedNote'))
  /\ UNCHANGED <<forge, open, raced, used>>

Answered(kinds) == open # "no" /\ call.stage = "answered" /\ call.kind \in kinds

RecordError ==
  /\ Answered({"fetch", "publish", "edit", "delete"}) /\ call.err
  /\ UNCHANGED <<disk, note, cache, me, listed>> /\ CallIsOver(TRUE)

\* The answer first, then the threads, then the notes the threads address.
\* A save that fails ends it, with memory ahead of the disk.
RecordThreads ==
  /\ Answered({"fetch", "publish"}) /\ ~call.err
  /\ me' \in (IF open = "tui" /\ call.kind = "fetch" THEN {me, TRUE} ELSE {me})
  /\ \E m \in Saves, t \in Saves, h \in Saves :
       LET marked == MarkPublished(note, call.sent)
           books  == IF call.has_threads THEN Reconcile(marked, call.fetched, me')
                     ELSE [note |-> marked, cache |-> cache]
           first  == m \/ marked = note
           second == first /\ call.has_threads /\ t
           third  == second /\ h /\ books.note # marked
       IN
       /\ note'  = IF first THEN books.note ELSE marked
       /\ cache' = IF first THEN books.cache ELSE cache
       /\ savedCache' = IF second THEN books.cache ELSE savedCache
       /\ savedNote'  = IF third THEN books.note
                        ELSE IF m /\ marked # note THEN marked ELSE savedNote
       /\ CallIsOver(m /\ t /\ h)
  /\ UNCHANGED listed

\* `edit_comment`: the cached comment follows, then the record.
RecordEdit ==
  /\ Answered({"edit"}) /\ ~call.err
  /\ \E t \in Saves, h \in Saves :
       LET c      == call.target
           cached == c \in DOMAIN cache
           threads == IF cached THEN [cache EXCEPT ![c].body = call.text] ELSE cache
           linked == {i \in NoteId : Links(note, cache, i, c)}
       IN
       /\ cache' = threads
       /\ savedCache' = IF cached /\ t THEN threads ELSE savedCache
       /\ \/ cached /\ ~t /\ UNCHANGED <<note, savedNote>>
          \/ (cached => t) /\ linked = {} /\ UNCHANGED <<note, savedNote>>
          \/ /\ cached => t
             /\ \E i \in linked :
                  /\ note' = [note EXCEPT ![i].body = call.text]
                  /\ savedNote' = IF h THEN note' ELSE savedNote
  /\ UNCHANGED <<me, listed>>
  /\ CallIsOver(TRUE)

\* `delete_comment`: the cached comment goes, then every record linked to it.
RecordDelete ==
  /\ Answered({"delete"}) /\ ~call.err
  /\ \E t \in Saves, h \in Saves :
       LET c      == call.target
           cached == c \in DOMAIN cache
           threads == [d \in DOMAIN cache \ {c} |-> cache[d]]
           kept   == [i \in NoteId |-> IF Links(note, cache, i, c) THEN Absent ELSE note[i]]
       IN
       /\ cache' = threads
       /\ savedCache' = IF cached /\ t THEN threads ELSE savedCache
       /\ IF cached /\ ~t THEN UNCHANGED <<note, savedNote>>
          ELSE note' = kept /\ savedNote' = IF h /\ kept # note THEN kept ELSE savedNote
  /\ listed' = IF listed = {} THEN {} ELSE Unsent(note')
  /\ UNCHANGED me
  /\ CallIsOver(TRUE)

Record == RecordError \/ RecordThreads \/ RecordEdit \/ RecordDelete

----------------------------------------------------------------------------
(* The process ends; the forge goes on *)

Quit ==
  /\ open # "no" /\ (world.lossy \/ call = NoCall)
  /\ open' = "no" /\ note' = NoNotes /\ cache' = NoThreads /\ me' = FALSE /\ listed' = {}
  /\ call' = NoCall
  /\ doubtful' = doubtful \cup {i \in Batch : There(i)}
  /\ UNCHANGED <<forge, disk, raced, used>>

WebDelete(c) ==
  /\ c \in Live /\ Len(posted) - Cardinality(Live) < MaxGone
  /\ posted' = [posted EXCEPT ![c].live = FALSE]
  /\ UNCHANGED <<world, kind, drafts, disk, session, call, history>>

\* The reader comments on the forge's own page.
WebComment(b, p) ==
  /\ Room(call, 1)
  /\ Cardinality({c \in DOMAIN posted : posted[c].author = "me" /\ posted[c].marker = NoNote})
       < MaxByHand
  /\ posted' = Append(posted, [thread |-> Len(posted) + 1, place |-> p, author |-> "me",
                               marker |-> NoNote, body |-> b, live |-> TRUE, from |-> NoNote,
                               bared |-> TRUE])
  /\ UNCHANGED <<world, kind, drafts, disk, session, call, history>>

----------------------------------------------------------------------------

Init ==
  /\ world \in Worlds /\ kind \in Kind /\ posted = Opened /\ drafts = <<>>
  /\ savedNote = NoNotes /\ savedCache = NoThreads
  /\ open = "no" /\ note = NoNotes /\ cache = NoThreads /\ me = FALSE /\ listed = {}
  /\ call = NoCall
  /\ doubtful = {} /\ raced = {} /\ used = {}

\* What the reader has to say.
Spoken == UNION {world.words[i] : i \in NoteId}

Reader ==
  \/ OpenReview \/ PostFromCli \/ StartFetch \/ StartPublish \/ OpenList \/ CloseList \/ ClearNotes
  \/ \E i \in NoteId :
       \/ DeleteNote(i) \/ DeleteListed(i)
       \/ \E b \in world.words[i] :
            EditNote(i, b) \/ \E t \in {NoComment} \cup DOMAIN cache : AddNote(i, b, t)
  \/ \E c \in DOMAIN posted : StartDelete(c) \/ \E b \in Spoken : StartEdit(c, b)

Outside ==
  \/ \E c \in DOMAIN posted : WebDelete(c)
  \/ \E b \in Body, p \in Place : WebComment(b, p)

Next == Worker \/ Record \/ Reader \/ Quit \/ Outside

\* Every tool invocation ends within `TOOL_TIMEOUT`; the loop polls each turn.
Fairness == WF_vars(Worker) /\ WF_vars(Record)

Spec == Init /\ [][Next]_vars /\ Fairness

----------------------------------------------------------------------------
(* Properties *)

\* A note has been sent twice to the request, and not deleted there, only if no
\* answer, or no save of its record, once told that it was there:
\* `record_publish` keeps whatever the answer or the refetch names, through any
\* later fetch, edit and restart, and `publish_plan` consults the records.
AtMostOnce ==
  \A i \in NoteId : Cardinality({c \in Live : posted[c].from = i}) > 1 => i \in doubtful

\* A record's address is a comment made from that note, or one of the reader's
\* that went by no marker once and was taken by its words: it never names
\* somebody else's comment, nor one that has always been another note's
\* (`match_published`, `set_threads`, `heal_by_author`).
AddressIsItsOwn ==
  \A i \in Ids(note) : note[i].upstream # NoComment =>
    LET c == posted[note[i].upstream] IN c.author = "me" /\ (c.from = i \/ c.bared)

\* No two notes are ever in the same words.
Distinct == \A i \in NoteId : \A j \in NoteId \ {i} : world.words[i] \cap world.words[j] = {}

\* Between calls the request says what the stored record says, unless the note
\* was changed while it was being sent or is one nobody knew was there: an edit
\* goes to the forge first and the record follows its answer.  A comment taken
\* by its words may be taken by two notes in the same words, of which an edit
\* reaches one.
LastWord ==
  call = NoCall /\ ~world.lossy =>
    \A i \in NoteId \ (doubtful \cup raced) : \A c \in LiveOf(i) :
      savedNote[i] # Absent /\ (posted[c].bared => Distinct) => posted[c].body = savedNote[i].body

\* A forge call ends, whatever is refused, lost or part-way through.
CallsEnd == call # NoCall ~> call = NoCall
============================================================================
