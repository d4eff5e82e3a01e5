---------------------------- MODULE PublishProofs ----------------------------
(***************************************************************************)
(* What is proved of module Publish, for every number of notes, comments   *)
(* and calls, on either forge, with answers and saves lost or not.         *)
(*                                                                         *)
(* `Types` is the type invariant, strengthened by what a call knows at     *)
(* each stage.  `Origin` says where every address, marker and cached copy  *)
(* comes from; `AddressIsItsOwn` follows.  `Count` says that a note that   *)
(* is on the request and not in doubt is there once and known to the       *)
(* records, or still the call's (`Known`), that the stored notes follow    *)
(* those in memory (`Linked`), and that what a call has still to send is   *)
(* not on the request (`Waiting`); `AtMostOnce` follows.                   *)
(* `Faithful`, where nothing is lost, follows the words of a note to every *)
(* place they get to: whatever carries its marker is what its record has   *)
(* the address of, or the running call's own (`Tied`), a call is told of a *)
(* note's only comment (`Told`), notes that share no words keep to their   *)
(* own (`Worded`), and what is on the request is what the record says or   *)
(* an edit that is out (`Said`); `LastWord` follows.                       *)
(***************************************************************************)
EXTENDS Publish, FiniteInduction, FiniteSetTheorems, SequenceTheorems

----------------------------------------------------------------------------
(* Types *)

Notes == [NoteId -> Note \cup {Absent}]
DraftNote == [marker : NoteId, body : Body]
Fetches == UNION {[D -> Comment] : D \in SUBSET Id}

Sending == {"head", "send", "list", "replies", "drafts", "bulk", "threads"}
Stages == Sending \cup {"refetch", "act", "answered"}
Calls ==
  [kind : {"none", "publish", "fetch", "edit", "delete"}, stage : Stages,
   batch : Notes, comments : SUBSET NoteId, replies : SUBSET NoteId, drafted : SUBSET NoteId,
   base : Nat, sent : [NoteId -> Nat], target : Nat, text : Body \cup {Absent},
   linked : NoteId \cup {NoNote}, has_threads : BOOLEAN, fetched : Fetches, err : BOOLEAN]

IsFetch(T) == T \in Fetches /\ DOMAIN T \subseteq DOMAIN posted

ForgeTypes ==
  /\ world \in Worlds /\ kind \in {"github", "gitlab"}
  /\ posted \in Seq(Comment) /\ drafts \in Seq(DraftNote)
RecordTypes ==
  /\ note \in Notes /\ savedNote \in Notes /\ IsFetch(cache) /\ IsFetch(savedCache)
  /\ IsFiniteSet(used) /\ used \subseteq NoteId
  /\ Ids(note) \subseteq used /\ Ids(savedNote) \subseteq used
CallTypes ==
  /\ call \in Calls /\ IsFetch(call.fetched)
  /\ call.stage \in Sending => call.kind = "publish"
  /\ call.stage = "act" => call.kind \in {"edit", "delete"}
  /\ call.kind = "edit" => call.text \in Body
  /\ call.kind \in {"edit", "delete"} => call.target \in DOMAIN posted
  /\ call.kind # "publish" => Batch = {}
  /\ Batch \subseteq used
  /\ \A i \in Batch : call.batch[i] # Absent
  /\ \A i \in call.comments : call.batch[i].reply_to = NoComment
  /\ \A i \in call.replies : call.batch[i].reply_to # NoComment
  /\ ~call.has_threads => call.fetched = NoThreads
  /\ call.err => call.sent = NoCall.sent /\ ~call.has_threads
  /\ call.stage # "answered" => ~call.err /\ ~call.has_threads
  /\ call.stage \in {"head", "send"} \/ call.kind # "publish" => call.sent = NoCall.sent
Types == ForgeTypes /\ RecordTypes /\ CallTypes

LEMMA EmptyFetch == NoThreads \in Fetches /\ DOMAIN NoThreads = {}
<1>1. NoThreads = [c \in {} |-> CHOOSE x : FALSE]
  BY DEF NoThreads
<1>2. NoThreads \in [{} -> Comment]
  BY <1>1
<1> QED BY <1>2 DEF Fetches

LEMMA NoCallType ==
  /\ NoCall \in Calls /\ NoCall.comments = {} /\ NoCall.replies = {} /\ NoCall.kind = "none"
  /\ NoCall.stage = "answered" /\ ~NoCall.err /\ ~NoCall.has_threads /\ NoCall.fetched = NoThreads
  /\ NoCall.sent = [i \in NoteId |-> 0] /\ NoCall.target = 0 /\ NoCall.linked = NoNote
  /\ NoCall.batch = NoNotes /\ NoNotes \in Notes
<1>1. NoNotes \in Notes
  BY DEF NoNotes, Notes
<1>2. [i \in NoteId |-> Absent] \in Notes /\ [i \in NoteId |-> NoComment] \in [NoteId -> Nat]
  BY DEF Notes, NoComment
<1>3. NoCall \in Calls
  BY <1>2, EmptyFetch DEF NoCall, Calls, Stages, Sending, NoComment
<1> QED BY <1>1, <1>3 DEF NoCall, NoComment, NoNotes

\* What a step of the worker leaves of its call.
Kept(d) ==
  /\ d \in Calls /\ d.kind = call.kind /\ d.batch = call.batch /\ d.comments = call.comments
  /\ d.replies = call.replies /\ d.target = call.target /\ d.text = call.text
  /\ d.linked = call.linked
Steady(d) == Kept(d) /\ d.drafted = call.drafted /\ d.base = call.base

LEMMA StepToKeeps ==
  ASSUME call \in Calls, NEW s \in Stages, StepTo(s)
  PROVE  Steady(call') /\ call'.stage = s /\ call'.sent = call.sent /\ call'.err = call.err
         /\ call'.has_threads = call.has_threads /\ call'.fetched = call.fetched
BY DEF StepTo, Steady, Kept, Calls

LEMMA FailKeeps ==
  ASSUME call \in Calls, Fail
  PROVE  Steady(call') /\ call'.stage = "answered" /\ call'.sent = call.sent /\ call'.err
         /\ call'.has_threads = call.has_threads /\ call'.fetched = call.fetched
BY DEF Fail, Steady, Kept, Calls, Stages

----------------------------------------------------------------------------
(* What the request holds *)

LEMMA CommentType ==
  ASSUME NEW i \in NoteId, NEW c \in Id, NEW body \in Body, NEW r \in Nat
  PROVE  LET x == CommentOf(i, c, body, r) IN
         /\ x \in Comment /\ x.author = "me" /\ x.marker = i /\ x.from = i /\ ~x.bared
         /\ x.body = body /\ x.live
BY PublishAssumption DEF CommentOf, Comment, Id, NoComment

\* Comments are never taken off the request's list, and keep who wrote them and
\* what they were sent as.
Grows ==
  /\ DOMAIN posted \subseteq DOMAIN posted'
  /\ \A c \in DOMAIN posted :
       /\ posted'[c].author = posted[c].author /\ posted'[c].from = posted[c].from
       /\ posted[c].bared => posted'[c].bared

LEMMA UnchangedGrows ==
  ASSUME UNCHANGED posted
  PROVE  Grows
BY DEF Grows

LEMMA Longer ==
  ASSUME posted \in Seq(Comment), NEW new \in Seq(Comment), posted' = posted \o new
  PROVE  /\ posted' \in Seq(Comment) /\ Grows /\ Len(posted') = Len(posted) + Len(new)
         /\ \A c \in DOMAIN posted : posted'[c] = posted[c]
         /\ \A c \in DOMAIN posted' :
              c \in DOMAIN posted \/ (\E k \in 1 .. Len(new) : c = Len(posted) + k)
         /\ \A k \in 1 .. Len(new) :
              Len(posted) + k \in DOMAIN posted' /\ posted'[Len(posted) + k] = new[k]
<1>1. posted' \in Seq(Comment) /\ Len(posted') = Len(posted) + Len(new)
  BY ConcatProperties
<1>2. \A c \in DOMAIN posted : posted'[c] = posted[c]
  BY ConcatProperties
<1>3. \A k \in 1 .. Len(new) :
        Len(posted) + k \in DOMAIN posted' /\ posted'[Len(posted) + k] = new[k]
  <2>1. \A c \in 1 .. Len(posted) + Len(new) :
          posted'[c] = IF c <= Len(posted) THEN posted[c] ELSE new[c - Len(posted)]
    BY ConcatProperties
  <2>2. DOMAIN posted' = 1 .. Len(posted) + Len(new) /\ Len(posted) \in Nat /\ Len(new) \in Nat
    BY <1>1
  <2> QED BY <2>1, <2>2
<1>4. \A c \in DOMAIN posted' :
        c \in DOMAIN posted \/ (\E k \in 1 .. Len(new) : c = Len(posted) + k)
  <2> SUFFICES ASSUME NEW c \in 1 .. Len(posted) + Len(new), c > Len(posted)
               PROVE  c - Len(posted) \in 1 .. Len(new) /\ c = Len(posted) + (c - Len(posted))
    BY <1>1
  <2>1. Len(posted) \in Nat /\ Len(new) \in Nat
    OBVIOUS
  <2> QED BY <2>1
<1>5. DOMAIN posted \subseteq DOMAIN posted'
  BY <1>1
<1> QED BY <1>1, <1>2, <1>3, <1>4, <1>5 DEF Grows

LEMMA OneMore ==
  ASSUME posted \in Seq(Comment), NEW x \in Comment, posted' = Append(posted, x)
  PROVE  /\ posted' \in Seq(Comment) /\ Grows /\ Len(posted') = Len(posted) + 1
         /\ \A c \in DOMAIN posted : posted'[c] = posted[c]
         /\ DOMAIN posted' = DOMAIN posted \cup {Len(posted) + 1}
         /\ posted'[Len(posted) + 1] = x
BY DEF Grows

LEMMA NumbersOf ==
  ASSUME NEW S, IsFiniteSet(S)
  PROVE  /\ Cardinality(S) \in Nat /\ SetToSeq(S) \in [1 .. Cardinality(S) -> S]
         /\ \A k, l \in 1 .. Cardinality(S) : SetToSeq(S)[k] = SetToSeq(S)[l] => k = l
<1>1. Cardinality(S) \in Nat /\ ExistsBijection(1 .. Cardinality(S), S)
  BY FS_CardinalityType
<1>2. PICK f \in [1 .. Cardinality(S) -> S] : IsInjective(f)
  BY <1>1 DEF ExistsBijection, Bijection, Injection
<1>3. SetToSeq(S) \in [1 .. Cardinality(S) -> S] /\ IsInjective(SetToSeq(S))
  BY <1>2 DEF SetToSeq
<1> QED BY <1>1, <1>3 DEF IsInjective

\* The comments of a batch are its notes', one each.
LEMMA PostingType ==
  ASSUME NEW S \in SUBSET NoteId, IsFiniteSet(S), \A i \in S : call.batch[i] \in Note,
         posted \in Seq(Comment)
  PROVE  LET new == Posting(S) IN
         /\ new \in Seq(Comment)
         /\ \A k \in 1 .. Len(new) :
              /\ new[k].from \in S /\ new[k].marker = new[k].from /\ new[k].author = "me"
              /\ ~new[k].bared /\ new[k].body = call.batch[new[k].from].body
         /\ \A k, l \in 1 .. Len(new) : new[k].from = new[l].from => k = l
<1> DEFINE N == Cardinality(S)
           f == SetToSeq(S)
           new == [k \in 1 .. N |-> CommentOf(f[k], Len(posted) + k, call.batch[f[k]].body, NoComment)]
<1>1. N \in Nat /\ f \in [1 .. N -> S] /\ \A k, l \in 1 .. N : f[k] = f[l] => k = l
  BY NumbersOf
<1>2. new = Posting(S)
  BY DEF Posting
<1> HIDE DEF f, N
<1>3. ASSUME NEW k \in 1 .. N
      PROVE  /\ new[k] \in Comment /\ new[k].from = f[k] /\ new[k].marker = f[k]
             /\ new[k].author = "me" /\ ~new[k].bared /\ new[k].body = call.batch[f[k]].body
  <2>1. f[k] \in NoteId /\ Len(posted) + k \in Id /\ call.batch[f[k]].body \in Body /\ NoComment \in Nat
    BY <1>1 DEF Id, Note, NoComment
  <2>2. new[k] = CommentOf(f[k], Len(posted) + k, call.batch[f[k]].body, NoComment)
    BY <1>1
  <2> HIDE DEF new
  <2> QED BY <2>1, <2>2, CommentType
<1>4. new \in Seq(Comment) /\ Len(new) = N
  <2>1. new \in [1 .. N -> Comment]
    BY <1>3
  <2> HIDE DEF new
  <2> QED BY <2>1, <1>1
<1> HIDE DEF new
<1>5. \A k \in 1 .. Len(new) : f[k] \in S
  BY <1>1, <1>4
<1> QED BY <1>1, <1>2, <1>3, <1>4, <1>5

\* What a fetch brings back is what is there.
LEMMA ThreadsType ==
  ASSUME posted \in Seq(Comment)
  PROVE  IsFetch(Threads) /\ \A c \in DOMAIN Threads : Threads[c] = posted[c] /\ posted[c].live
<1>1. Live \subseteq DOMAIN posted /\ DOMAIN posted \subseteq Id /\ \A c \in Live : posted[c].live
  BY DEF Live, Id
<1>2. \A c \in Live : posted[c] \in Comment
  BY <1>1
<1>3. Threads \in [Live -> Comment] /\ DOMAIN Threads = Live
  BY <1>2 DEF Threads
<1> QED BY <1>1, <1>3 DEF IsFetch, Fetches, Threads

----------------------------------------------------------------------------
(* The worker keeps the types *)

LEMMA RecordsOutliveTheForge ==
  ASSUME RecordTypes, Grows, UNCHANGED <<savedNote, savedCache, note, cache, used>>
  PROVE  RecordTypes'
BY DEF RecordTypes, IsFetch, Grows, Ids

\* What a worker's step has to do for its call to stay well-typed.
CallMoves ==
  /\ Kept(call') /\ IsFetch(call.fetched)'
  /\ call'.stage \in Sending => call.stage \in Sending
  /\ call'.stage # "act"
  /\ ~call'.has_threads => call'.fetched = NoThreads
  /\ call'.err => call'.sent = NoCall.sent /\ ~call'.has_threads
  /\ call'.stage # "answered" => ~call'.err /\ ~call'.has_threads
  /\ call'.stage \in {"head", "send"} \/ call.kind # "publish" => call'.sent = NoCall.sent

LEMMA CallMovesTypes ==
  ASSUME CallTypes, Grows, CallMoves, UNCHANGED used
  PROVE  CallTypes'
<1> USE DEF CallTypes, CallMoves, Kept, Batch
<1>1. NoCall' = NoCall
  BY DEF NoCall, NoThreads
<1>2. NoThreads' = NoThreads
  BY DEF NoThreads
<1>3. (call.kind \in {"edit", "delete"} => call.target \in DOMAIN posted)'
  BY DEF Grows
<1>4. (call.stage \in Sending => call.kind = "publish")' /\ (call.stage = "act" => call.kind \in {"edit", "delete"})'
  BY DEF Sending
<1>5. call' \in Calls /\ IsFetch(call.fetched)'
  OBVIOUS
<1>6. /\ (call.kind = "edit" => call.text \in Body)'
      /\ (call.kind # "publish" => Batch = {})' /\ (Batch \subseteq used)'
  OBVIOUS
<1>7. (\A i \in Batch : call.batch[i] # Absent)'
      /\ (\A i \in call.comments : call.batch[i].reply_to = NoComment)'
      /\ (\A i \in call.replies : call.batch[i].reply_to # NoComment)'
  BY DEF NoComment
<1>8. (~call.has_threads => call.fetched = NoThreads)'
      /\ (call.err => call.sent = NoCall.sent /\ ~call.has_threads)'
      /\ (call.stage # "answered" => ~call.err /\ ~call.has_threads)'
      /\ (call.stage \in {"head", "send"} \/ call.kind # "publish" => call.sent = NoCall.sent)'
  BY <1>1, <1>2
<1> QED BY <1>3, <1>4, <1>5, <1>6, <1>7, <1>8

LEMMA StageTypes ==
  ASSUME CallTypes, Grows, NEW s \in Stages \ {"act", "head", "send"}, call.stage # "answered",
         s \in Sending => call.stage \in Sending, StepTo(s)
  PROVE  CallMoves
BY StepToKeeps DEF CallTypes, CallMoves, Steady, Kept, IsFetch, Grows

LEMMA FailTypes ==
  ASSUME CallTypes, Grows, call.stage # "answered",
         call.sent = NoCall.sent, Fail
  PROVE  CallMoves
BY FailKeeps DEF CallTypes, CallMoves, Steady, Kept, IsFetch, Grows, Sending

LEMMA StopTypes ==
  ASSUME CallTypes, Grows, call.stage \in Sending, Stop
  PROVE  CallMoves
<1>1. CASE call.sent = NoCall.sent /\ Fail
  BY <1>1, FailTypes DEF Sending
<1>2. CASE StepTo("refetch")
  BY <1>2, StageTypes DEF Stages, Sending
<1> QED BY <1>1, <1>2 DEF Stop

LEMMA AfterRepliesStage ==
  ASSUME kind \in {"github", "gitlab"}
  PROVE  AfterReplies \in {"threads", "refetch", "drafts"}
         /\ ToReplies \in {"threads", "refetch", "drafts", "replies"}
BY DEF AfterReplies, ToReplies

LEMMA StayTypes ==
  ASSUME Types, UNCHANGED <<world, kind, posted, drafts, disk, session, history>>, CallMoves
  PROVE  Types' /\ Grows /\ Kept(call')
<1>1. Grows /\ UNCHANGED <<savedNote, savedCache, note, cache, used>>
  BY UnchangedGrows DEF disk, session, history
<1> QED BY <1>1, RecordsOutliveTheForge, CallMovesTypes DEF Types, ForgeTypes, CallMoves

LEMMA CheckHeadTypes ==
  ASSUME Types, CheckHead, UNCHANGED <<world, kind, disk, session, history>>
  PROVE  Types' /\ Grows /\ Kept(call')
<1>0. UNCHANGED <<world, kind, posted, drafts, disk, session, history>> /\ CallTypes /\ Grows
      /\ call.stage = "head" /\ call.sent = NoCall.sent /\ call \in Calls
  BY UnchangedGrows DEF CheckHead, forge, Types, CallTypes
<1>1. CASE Fail
  BY <1>0, <1>1, FailTypes, StayTypes
<1>2. CASE StepTo("send")
  <2>1. CallMoves
    BY <1>0, <1>2, StepToKeeps DEF CallTypes, CallMoves, Steady, Kept, IsFetch, Grows, Sending, Stages
  <2> QED BY <1>0, <2>1, StayTypes
<1>3. CASE StepTo(ToReplies)
  <2>1. ToReplies \in Stages \ {"act", "head", "send"} /\ ToReplies \in Stages
    BY AfterRepliesStage DEF Types, ForgeTypes, Stages, Sending
  <2>2. PICK s \in Stages \ {"act", "head", "send"} : s = ToReplies
    BY <2>1
  <2>3. StepTo(s)
    BY <1>3, <2>2
  <2>4. CallMoves
    BY <1>0, <2>3, StageTypes DEF Sending
  <2> QED BY <1>0, <2>4, StayTypes
<1> QED BY <1>0, <1>1, <1>2, <1>3 DEF CheckHead

LEMMA MovesTypes ==
  ASSUME Types, UNCHANGED <<world, kind, disk, session, history>>, Grows,
         posted' \in Seq(Comment), drafts' \in Seq(DraftNote), CallMoves
  PROVE  Types' /\ Kept(call')
<1>1. UNCHANGED <<savedNote, savedCache, note, cache, used>>
  BY DEF disk, session, history
<1> QED BY <1>1, RecordsOutliveTheForge, CallMovesTypes DEF Types, ForgeTypes, CallMoves

LEMMA BatchNotes ==
  ASSUME Types
  PROVE  /\ IsFiniteSet(call.comments) /\ call.comments \in SUBSET NoteId /\ call.replies \in SUBSET NoteId
         /\ \A i \in Batch : call.batch[i] \in Note
         /\ \A i \in call.comments : call.batch[i] \in Note
<1>1. call \in Calls /\ IsFiniteSet(used) /\ Batch \subseteq used /\ call.comments \subseteq Batch
  BY DEF Types, CallTypes, RecordTypes, Batch
<1>2. \A i \in Batch : call.batch[i] \in Note
  BY <1>1 DEF Types, CallTypes, Calls, Notes, Batch
<1>3. IsFiniteSet(call.comments)
  BY <1>1, FS_Subset
<1> QED BY <1>1, <1>2, <1>3 DEF Calls

LEMMA SendReviewTypes ==
  ASSUME Types, SendReview, UNCHANGED <<world, kind, disk, session, history>>
  PROVE  Types' /\ Grows /\ Kept(call')
<1>0. CallTypes /\ call \in Calls /\ call.stage = "send" /\ call.sent = NoCall.sent /\ ~call.has_threads
      /\ posted \in Seq(Comment) /\ drafts \in Seq(DraftNote) /\ UNCHANGED drafts
  BY DEF SendReview, Types, CallTypes, ForgeTypes
<1>1. Posting(call.comments) \in Seq(Comment)
  BY <1>0, BatchNotes, PostingType
<1>2. posted' \in Seq(Comment) /\ Grows
  <2>1. CASE UNCHANGED posted
    BY <1>0, <2>1, UnchangedGrows
  <2>2. CASE posted' = posted \o Posting(call.comments)
    BY <1>0, <1>1, <2>2, Longer
  <2> QED BY <2>1, <2>2 DEF SendReview
<1>3. CallMoves
  <2>1. CASE Fail
    BY <1>0, <1>2, <2>1, FailTypes
  <2>2. CASE call' = [call EXCEPT !.stage = "list", !.base = Len(posted)]
    <3>0. PICK n \in Nat : call' = [call EXCEPT !.stage = "list", !.base = n]
      BY <1>0, <2>2, LenProperties
    <3>1. Kept(call') /\ call'.stage = "list" /\ call'.sent = call.sent /\ call'.err = call.err
          /\ call'.has_threads = call.has_threads /\ call'.fetched = call.fetched
      BY <1>0, <3>0 DEF Kept, Calls, Stages, Sending
    <3> QED BY <1>0, <1>2, <3>1 DEF CallTypes, CallMoves, IsFetch, Grows, Sending
  <2> QED BY <2>1, <2>2 DEF SendReview
<1> QED BY <1>0, <1>2, <1>3, MovesTypes

LEMMA MatchedType ==
  ASSUME Types, NEW S
  PROVE  Matched(S) \in [NoteId -> Nat]
         /\ \A i \in NoteId : \/ Matched(S)[i] = call.sent[i]
                              \/ i \in S /\ Matched(S)[i] \in LiveOf(i)
<1>0. call.sent \in [NoteId -> Nat] /\ Live \subseteq Nat
  BY DEF Types, CallTypes, Calls, ForgeTypes, Live
<1>1. ASSUME NEW i \in NoteId
      PROVE  /\ Matched(S)[i] = call.sent[i] \/ (i \in S /\ Matched(S)[i] \in LiveOf(i))
             /\ Matched(S)[i] \in Nat
  <2> DEFINE hits == {c \in LiveOf(i) : c > call.base}
  <2>1. Matched(S)[i] = IF i \in S /\ hits # {} THEN First(hits) ELSE call.sent[i]
    BY DEF Matched
  <2>2. ASSUME hits # {} PROVE First(hits) \in hits
    <3>1. hits \subseteq Nat
      BY <1>0 DEF LiveOf
    <3> HIDE DEF hits
    <3>2. \E x \in hits : \A y \in hits : x <= y
      BY <2>2, <3>1, LeastNat
    <3> QED BY <3>2 DEF First
  <2>3. hits \subseteq LiveOf(i) /\ LiveOf(i) \subseteq Nat
    BY <1>0 DEF LiveOf
  <2> HIDE DEF hits
  <2> QED BY <1>0, <2>1, <2>2, <2>3
<1>2. DOMAIN Matched(S) = NoteId
  BY DEF Matched
<1>3. Matched(S) = [i \in NoteId |-> Matched(S)[i]]
  BY DEF Matched
<1> QED BY <1>1, <1>3

LEMMA ListReviewTypes ==
  ASSUME Types, ListReview, UNCHANGED <<world, kind, disk, session, history>>
  PROVE  Types' /\ Grows /\ Kept(call')
<1>0. CallTypes /\ call \in Calls /\ call.stage = "list" /\ UNCHANGED <<posted, drafts>> /\ Grows
      /\ posted \in Seq(Comment) /\ drafts \in Seq(DraftNote) /\ ~call.has_threads /\ ~call.err
  BY UnchangedGrows DEF ListReview, Types, CallTypes, ForgeTypes, forge
<1>1. CallMoves
  <2>1. CASE StepTo("refetch")
    BY <1>0, <2>1, StageTypes DEF Stages, Sending
  <2>2. CASE call' = [call EXCEPT !.stage = ToReplies, !.sent = Matched(call.comments)]
    <3>1. ToReplies \in {"threads", "refetch", "drafts", "replies"}
      BY AfterRepliesStage DEF Types, ForgeTypes
    <3>2. Matched(call.comments) \in [NoteId -> Nat]
      BY MatchedType
    <3>3. PICK s \in {"threads", "refetch", "drafts", "replies"}, m \in [NoteId -> Nat] :
            call' = [call EXCEPT !.stage = s, !.sent = m]
      BY <2>2, <3>1, <3>2
    <3>4. Kept(call') /\ call'.stage = s /\ call'.err = call.err
          /\ call'.has_threads = call.has_threads /\ call'.fetched = call.fetched
      BY <1>0, <3>3 DEF Kept, Calls, Stages, Sending
    <3> QED BY <1>0, <3>4 DEF CallTypes, CallMoves, IsFetch, Grows, Sending
  <2> QED BY <2>1, <2>2 DEF ListReview
<1> QED BY <1>0, <1>1, MovesTypes

LEMMA SendReplyTypes ==
  ASSUME Types, SendReply, UNCHANGED <<world, kind, disk, session, history>>
  PROVE  Types' /\ Grows /\ Kept(call')
<1>0. CallTypes /\ call \in Calls /\ call.stage = "replies" /\ UNCHANGED drafts
      /\ posted \in Seq(Comment) /\ drafts \in Seq(DraftNote) /\ ~call.has_threads /\ ~call.err
  BY DEF SendReply, Types, CallTypes, ForgeTypes
<1> DEFINE Reply(i) == CommentOf(i, Len(posted) + 1, call.batch[i].body, call.batch[i].reply_to)
<1>1. PICK i \in call.replies, a \in Answers :
        /\ posted' = IF a = "refused" THEN posted ELSE Append(posted, Reply(i))
        /\ IF a = "ok"
           THEN call' = [call EXCEPT !.sent[i] = Len(posted) + 1,
                  !.stage = IF {j \in call.replies \ {i} : call.sent[j] = NoComment} = {}
                            THEN AfterReplies ELSE "replies"]
           ELSE Stop
  BY DEF SendReply
<1>2. Reply(i) \in Comment
  <2>1. i \in NoteId /\ call.batch[i] \in Note /\ Len(posted) + 1 \in Id
    BY <1>0, BatchNotes DEF Batch, Id
  <2> QED BY <2>1, CommentType DEF Note
<1>3. posted' \in Seq(Comment) /\ Grows
  <2>1. CASE UNCHANGED posted
    BY <1>0, <2>1, UnchangedGrows
  <2>2. CASE posted' = Append(posted, Reply(i))
    <3> HIDE DEF Reply
    <3> QED BY <1>0, <1>2, <2>2, OneMore
  <2> QED BY <1>1, <2>1, <2>2
<1>4. CallMoves
  <2>1. CASE Stop
    BY <1>0, <1>3, <2>1, StopTypes DEF Sending
  <2>2. CASE a = "ok"
    <3>1. AfterReplies \in {"threads", "refetch", "drafts"}
      BY AfterRepliesStage DEF Types, ForgeTypes
    <3>a. PICK s \in {"threads", "refetch", "drafts", "replies"} :
            s = IF {j \in call.replies \ {i} : call.sent[j] = NoComment} = {}
                THEN AfterReplies ELSE "replies"
      BY <3>1
    <3>b. PICK n \in Nat : n = Len(posted) + 1
      BY <1>0
    <3>2. call' = [call EXCEPT !.sent[i] = n, !.stage = s]
      BY <1>1, <2>2, <3>a, <3>b
    <3>3. i \in NoteId
      BY BatchNotes
    <3>4. Kept(call') /\ call'.stage = s /\ call'.err = call.err
          /\ call'.has_threads = call.has_threads /\ call'.fetched = call.fetched
      <4>1. [call.sent EXCEPT ![i] = n] \in [NoteId -> Nat]
        BY <1>0 DEF Calls
      <4>2. PICK m \in [NoteId -> Nat] : call' = [call EXCEPT !.sent = m, !.stage = s]
        BY <3>2, <4>1
      <4> QED BY <1>0, <4>2 DEF Kept, Calls, Stages, Sending
    <3> QED BY <1>0, <1>3, <3>4 DEF CallTypes, CallMoves, IsFetch, Grows, Sending
  <2> QED BY <1>1, <2>1, <2>2
<1> QED BY <1>0, <1>3, <1>4, MovesTypes

LEMMA DraftTypes ==
  ASSUME Types, Draft, UNCHANGED <<world, kind, disk, session, history>>
  PROVE  Types' /\ Grows /\ Kept(call')
<1>0. CallTypes /\ call \in Calls /\ call.stage = "drafts" /\ UNCHANGED posted /\ Grows
      /\ posted \in Seq(Comment) /\ drafts \in Seq(DraftNote) /\ ~call.has_threads /\ ~call.err
  BY UnchangedGrows DEF Draft, Types, CallTypes, ForgeTypes
<1>1. PICK i \in call.comments, a \in Answers :
        /\ drafts' = IF a = "refused" THEN drafts
                     ELSE Append(drafts, [marker |-> i, body |-> call.batch[i].body])
        /\ IF a = "ok"
           THEN call' = [call EXCEPT !.drafted = call.drafted \cup {i},
                  !.stage = IF call.drafted \cup {i} = call.comments THEN "bulk" ELSE "drafts"]
           ELSE Stop
  BY DEF Draft
<1>2. i \in NoteId /\ call.batch[i] \in Note
  BY BatchNotes
<1>3. drafts' \in Seq(DraftNote)
  <2>1. [marker |-> i, body |-> call.batch[i].body] \in DraftNote
    BY <1>2 DEF DraftNote, Note
  <2> QED BY <1>0, <1>1, <2>1, AppendProperties
<1>4. CallMoves
  <2>1. CASE Stop
    BY <1>0, <2>1, StopTypes DEF Sending
  <2>2. CASE a = "ok"
    <3>1. PICK s \in {"bulk", "drafts"}, D \in SUBSET NoteId :
            call' = [call EXCEPT !.drafted = D, !.stage = s]
      BY <1>0, <1>1, <1>2, <2>2 DEF Calls
    <3>2. Kept(call') /\ call'.stage = s /\ call'.err = call.err
          /\ call'.has_threads = call.has_threads /\ call'.fetched = call.fetched
      BY <1>0, <3>1 DEF Kept, Calls, Stages, Sending
    <3> QED BY <1>0, <3>2 DEF CallTypes, CallMoves, IsFetch, Grows, Sending
  <2> QED BY <1>1, <2>1, <2>2
<1> QED BY <1>0, <1>3, <1>4, MovesTypes

\* What one call puts up of the drafts.
OfDrafts ==
  [k \in 1 .. Len(drafts) |->
     CommentOf(drafts[k].marker, Len(posted) + k, drafts[k].body, NoComment)]

LEMMA OfDraftsType ==
  ASSUME posted \in Seq(Comment), drafts \in Seq(DraftNote)
  PROVE  /\ OfDrafts \in Seq(Comment) /\ Len(OfDrafts) = Len(drafts)
         /\ \A k \in 1 .. Len(drafts) :
              /\ OfDrafts[k].from = drafts[k].marker /\ OfDrafts[k].marker = drafts[k].marker
              /\ OfDrafts[k].author = "me" /\ ~OfDrafts[k].bared /\ OfDrafts[k].from \in NoteId
<1>1. ASSUME NEW k \in 1 .. Len(drafts)
      PROVE  /\ OfDrafts[k] \in Comment
             /\ OfDrafts[k].from = drafts[k].marker /\ OfDrafts[k].marker = drafts[k].marker
             /\ OfDrafts[k].author = "me" /\ ~OfDrafts[k].bared /\ OfDrafts[k].from \in NoteId
  <2>1. drafts[k] \in DraftNote /\ Len(posted) + k \in Id
    BY DEF Id
  <2>2. OfDrafts[k] = CommentOf(drafts[k].marker, Len(posted) + k, drafts[k].body, NoComment)
    BY DEF OfDrafts
  <2>3. drafts[k].marker \in NoteId /\ drafts[k].body \in Body /\ NoComment \in Nat
    BY <2>1 DEF DraftNote, NoComment
  <2> QED BY <2>1, <2>2, <2>3, CommentType
<1>2. OfDrafts \in [1 .. Len(drafts) -> Comment]
  <2>1. OfDrafts = [k \in 1 .. Len(drafts) |-> OfDrafts[k]]
    BY DEF OfDrafts
  <2> QED BY <1>1, <2>1
<1>3. Len(drafts) \in Nat
  OBVIOUS
<1>4. OfDrafts \in Seq(Comment) /\ Len(OfDrafts) = Len(drafts)
  BY <1>2, <1>3
<1> QED BY <1>1, <1>4

LEMMA BulkPublishTypes ==
  ASSUME Types, BulkPublish, UNCHANGED <<world, kind, disk, session, history>>
  PROVE  Types' /\ Grows /\ Kept(call')
<1>0. CallTypes /\ call \in Calls /\ call.stage = "bulk"
      /\ posted \in Seq(Comment) /\ drafts \in Seq(DraftNote)
  BY DEF BulkPublish, Types, CallTypes, ForgeTypes
<1>1. PICK a \in Answers :
        /\ IF a = "refused" THEN UNCHANGED <<posted, drafts>>
           ELSE posted' = posted \o OfDrafts /\ drafts' = <<>>
        /\ IF a = "ok" THEN StepTo("threads") ELSE Stop
  BY DEF BulkPublish, OfDrafts
<1>2. posted' \in Seq(Comment) /\ Grows /\ drafts' \in Seq(DraftNote)
  <2>1. CASE UNCHANGED <<posted, drafts>>
    BY <1>0, <2>1, UnchangedGrows
  <2>2. CASE posted' = posted \o OfDrafts /\ drafts' = <<>>
    BY <1>0, <2>2, OfDraftsType, Longer, EmptySeq
  <2> QED BY <1>1, <2>1, <2>2
<1>3. CallMoves
  <2>1. CASE Stop
    BY <1>0, <1>2, <2>1, StopTypes DEF Sending
  <2>2. CASE StepTo("threads")
    BY <1>0, <1>2, <2>2, StageTypes DEF Stages, Sending
  <2> QED BY <1>1, <2>1, <2>2
<1> QED BY <1>0, <1>2, <1>3, MovesTypes

\* An answer that brings the threads, and what of the batch it names.
LEMMA BringsThreads ==
  ASSUME Types, call.stage # "answered", NEW m \in [NoteId -> Nat],
         m = call.sent \/ call.kind = "publish", Grows,
         call' = [call EXCEPT !.stage = "answered", !.has_threads = TRUE, !.fetched = Threads, !.sent = m]
  PROVE  CallMoves
<1>0. CallTypes /\ call \in Calls /\ ~call.err /\ Threads \in Fetches /\ posted \in Seq(Comment)
  BY ThreadsType DEF Types, CallTypes, ForgeTypes, IsFetch
<1>1. Kept(call') /\ call'.stage = "answered" /\ call'.err = call.err /\ call'.sent = m
      /\ call'.has_threads = TRUE /\ call'.fetched = Threads
  <2>1. PICK T \in Fetches : T = Threads
    BY <1>0
  <2>2. call' = [call EXCEPT !.stage = "answered", !.has_threads = TRUE, !.fetched = T, !.sent = m]
    BY <2>1
  <2> QED BY <1>0, <2>1, <2>2 DEF Kept, Calls, Stages
<1>2. IsFetch(call.fetched)'
  <2>1. DOMAIN Threads \subseteq DOMAIN posted
    BY <1>0, ThreadsType DEF IsFetch
  <2> QED BY <1>0, <1>1, <2>1 DEF IsFetch, Grows
<1> QED BY <1>0, <1>1, <1>2 DEF CallTypes, CallMoves, Sending

LEMMA FetchBackTypes ==
  ASSUME Types, FetchBack, UNCHANGED <<world, kind, disk, session, history>>
  PROVE  Types' /\ Grows /\ Kept(call')
<1>0. CallTypes /\ call \in Calls /\ call.stage = "threads" /\ call.kind = "publish" /\ UNCHANGED <<posted, drafts>>
      /\ Grows /\ posted \in Seq(Comment) /\ drafts \in Seq(DraftNote)
  BY UnchangedGrows DEF FetchBack, Types, CallTypes, ForgeTypes, forge, Sending
<1>1. CallMoves
  <2>1. CASE StepTo("refetch")
    BY <1>0, <2>1, StageTypes DEF Stages, Sending
  <2>2. CASE call' = [call EXCEPT !.stage = "answered", !.has_threads = TRUE, !.fetched = Threads,
                        !.sent = IF kind = "gitlab" THEN Matched(call.comments) ELSE @]
    <3>1. PICK m \in [NoteId -> Nat] : m = IF kind = "gitlab" THEN Matched(call.comments) ELSE call.sent
      BY <1>0, MatchedType DEF Calls
    <3> QED BY <1>0, <2>2, <3>1, BringsThreads
  <2> QED BY <2>1, <2>2 DEF FetchBack
<1> QED BY <1>0, <1>1, MovesTypes

LEMMA FetchThreadsTypes ==
  ASSUME Types, FetchThreads, UNCHANGED <<world, kind, disk, session, history>>
  PROVE  Types' /\ Grows /\ Kept(call')
<1>0. CallTypes /\ call \in Calls /\ call.stage = "refetch" /\ UNCHANGED <<posted, drafts>>
      /\ Grows /\ posted \in Seq(Comment) /\ drafts \in Seq(DraftNote)
  BY UnchangedGrows DEF FetchThreads, Types, CallTypes, ForgeTypes, forge
<1>1. CallMoves
  <2>1. CASE call' = [call EXCEPT !.stage = "answered", !.err = call.kind = "fetch"]
    <3>0. PICK e \in BOOLEAN : e <=> call.kind = "fetch"
      OBVIOUS
    <3>1. call' = [call EXCEPT !.stage = "answered", !.err = e]
      BY <2>1, <3>0
    <3>2. Kept(call') /\ call'.stage = "answered" /\ call'.err = e /\ call'.sent = call.sent
          /\ call'.has_threads = call.has_threads /\ call'.fetched = call.fetched
      BY <1>0, <3>1 DEF Kept, Calls, Stages
    <3>3. e => call.sent = NoCall.sent
      BY <1>0, <3>0 DEF CallTypes
    <3> QED BY <1>0, <3>2, <3>3 DEF CallTypes, CallMoves, IsFetch, Grows, Sending
  <2>2. CASE call' = [call EXCEPT !.stage = "answered", !.has_threads = TRUE, !.fetched = Threads]
    <3>1. PICK m \in [NoteId -> Nat] : m = call.sent
      BY <1>0 DEF Calls
    <3>2. call' = [call EXCEPT !.stage = "answered", !.has_threads = TRUE, !.fetched = Threads, !.sent = m]
      BY <1>0, <2>2, <3>1 DEF Calls
    <3> QED BY <1>0, <3>1, <3>2, BringsThreads
  <2> QED BY <2>1, <2>2 DEF FetchThreads
<1> QED BY <1>0, <1>1, MovesTypes

\* The comment an edit or a deletion is about, afterwards.
ActedOn ==
  IF call.kind = "delete" THEN [posted[call.target] EXCEPT !.live = FALSE]
  ELSE [posted[call.target] EXCEPT !.body = call.text, !.marker = call.linked,
                                   !.bared = @ \/ call.linked = NoNote]

LEMMA ActedType ==
  ASSUME Types, call.stage = "act"
  PROVE  /\ ActedOn \in Comment /\ call.target \in DOMAIN posted
         /\ ActedOn.author = posted[call.target].author /\ ActedOn.from = posted[call.target].from
         /\ posted[call.target].bared => ActedOn.bared
         /\ call.kind = "edit" /\ call.linked = NoNote => ActedOn.bared
         /\ call.kind = "edit" => ActedOn.marker = call.linked
         /\ ActedOn.live => posted[call.target].live
         /\ call.kind = "delete" => ActedOn.marker = posted[call.target].marker
         /\ call.kind = "delete" => ActedOn.bared = posted[call.target].bared
<1>1. call \in Calls /\ call.target \in DOMAIN posted /\ posted[call.target] \in Comment
      /\ call.kind \in {"edit", "delete"} /\ (call.kind = "edit" => call.text \in Body)
  BY DEF Types, CallTypes, ForgeTypes
<1>2. CASE call.kind = "delete"
  BY <1>1, <1>2 DEF ActedOn, Comment
<1>3. CASE call.kind = "edit"
  <2>1. PICK b \in BOOLEAN : b <=> (posted[call.target].bared \/ call.linked = NoNote)
    OBVIOUS
  <2>2. ActedOn = [posted[call.target] EXCEPT !.body = call.text, !.marker = call.linked, !.bared = b]
    BY <1>3, <2>1 DEF ActedOn
  <2>3. call.linked \in NoteId \cup {NoNote}
    BY <1>1 DEF Calls
  <2> QED BY <1>1, <1>3, <2>1, <2>2, <2>3 DEF Comment
<1> QED BY <1>1, <1>2, <1>3

LEMMA ActMoves ==
  ASSUME Types, Act
  PROVE  posted' = posted \/ posted' = [posted EXCEPT ![call.target] = ActedOn]
<1>1. call.kind \in {"edit", "delete"} /\ call.target \in DOMAIN posted /\ posted \in Seq(Comment)
      /\ posted[call.target] \in Comment
  BY DEF Types, CallTypes, ForgeTypes, Act
<1> QED BY <1>1 DEF Act, ActedOn, Comment

LEMMA ActTypes ==
  ASSUME Types, Act, UNCHANGED <<world, kind, disk, session, history>>
  PROVE  Types' /\ Grows /\ Kept(call')
<1>0. CallTypes /\ call \in Calls /\ call.stage = "act" /\ UNCHANGED drafts
      /\ posted \in Seq(Comment) /\ drafts \in Seq(DraftNote) /\ call.kind # "publish"
  BY DEF Act, Types, CallTypes, ForgeTypes
<1>1. posted' \in Seq(Comment) /\ Grows
  <2>1. CASE UNCHANGED posted
    BY <1>0, <2>1, UnchangedGrows
  <2>2. CASE posted' = [posted EXCEPT ![call.target] = ActedOn]
    BY <1>0, <2>2, ActedType DEF Grows
  <2> QED BY <2>1, <2>2, ActMoves
<1>2. CallMoves
  <2>1. CASE StepTo("answered")
    BY <1>0, <1>1, <2>1, StageTypes DEF Stages, Sending
  <2>2. CASE Fail
    BY <1>0, <1>1, <2>2, FailTypes DEF CallTypes
  <2> QED BY <2>1, <2>2 DEF Act
<1> QED BY <1>0, <1>1, <1>2, MovesTypes

LEMMA WorkerTypes ==
  ASSUME Types, Worker
  PROVE  Types' /\ Grows /\ Kept(call')
BY CheckHeadTypes, SendReviewTypes, ListReviewTypes, SendReplyTypes, DraftTypes, BulkPublishTypes,
   FetchBackTypes, FetchThreadsTypes, ActTypes DEF Worker

----------------------------------------------------------------------------
(* What a fetch does to the records *)

LEMMA MarkPublishedType ==
  ASSUME NEW notes \in Notes, NEW sent \in [NoteId -> Nat]
  PROVE  /\ MarkPublished(notes, sent) \in Notes
         /\ \A i \in NoteId :
              MarkPublished(notes, sent)[i] =
                IF notes[i] # Absent /\ sent[i] # NoComment
                THEN [notes[i] EXCEPT !.upstream = sent[i]] ELSE notes[i]
<1>1. ASSUME NEW i \in NoteId, notes[i] # Absent
      PROVE  [notes[i] EXCEPT !.upstream = sent[i]] \in Note
  BY <1>1 DEF Notes, Note
<1>2. \A i \in NoteId : notes[i] \in Note \cup {Absent}
  BY DEF Notes
<1> QED BY <1>1, <1>2 DEF MarkPublished, Notes

LEMMA ByMarkerType ==
  ASSUME NEW notes \in Notes, NEW T \in Fetches
  PROVE  /\ ByMarker(notes, T) \in Notes
         /\ \A i \in NoteId :
              \/ ByMarker(notes, T)[i] = notes[i] /\ ~(i \in Unsent(notes) /\ Carries(T, i))
              \/ /\ i \in Unsent(notes)
                 /\ \E c \in DOMAIN T :
                      T[c].marker = i /\ ByMarker(notes, T)[i] = [notes[i] EXCEPT !.upstream = c]
<1>1. DOMAIN T \subseteq Id
  BY DEF Fetches
<1>2. ASSUME NEW i \in NoteId, i \in Unsent(notes), Carries(T, i)
      PROVE  \E c \in DOMAIN T :
               T[c].marker = i /\ ByMarker(notes, T)[i] = [notes[i] EXCEPT !.upstream = c]
  <2> DEFINE hits == {c \in DOMAIN T : T[c].marker = i}
  <2>1. hits # {} /\ hits \subseteq Nat
    BY <1>1, <1>2 DEF Carries, Id
  <2>2. First(hits) \in hits
    <3> HIDE DEF hits
    <3>1. \E x \in hits : \A y \in hits : x <= y
      BY <2>1, LeastNat
    <3> QED BY <3>1 DEF First
  <2>3. ByMarker(notes, T)[i] = [notes[i] EXCEPT !.upstream = First(hits)]
    BY <1>2 DEF ByMarker
  <2> QED BY <2>2, <2>3
<1>3. ASSUME NEW i \in NoteId, ~(i \in Unsent(notes) /\ Carries(T, i))
      PROVE  ByMarker(notes, T)[i] = notes[i]
  BY <1>3 DEF ByMarker
<1>4. \A i \in NoteId : notes[i] \in Note \cup {Absent}
  BY DEF Notes
<1>5. ASSUME NEW i \in NoteId PROVE ByMarker(notes, T)[i] \in Note \cup {Absent}
  <2>1. CASE i \in Unsent(notes) /\ Carries(T, i)
    <3>1. notes[i] \in Note
      BY <1>4, <2>1 DEF Unsent, Ids
    <3>2. PICK c \in DOMAIN T : ByMarker(notes, T)[i] = [notes[i] EXCEPT !.upstream = c]
      BY <1>2, <2>1
    <3> QED BY <1>1, <3>1, <3>2 DEF Note, Id
  <2>2. CASE ~(i \in Unsent(notes) /\ Carries(T, i))
    BY <1>3, <1>4, <2>2
  <2> QED BY <2>1, <2>2
<1>6. ByMarker(notes, T) \in Notes
  <2>1. ByMarker(notes, T) = [i \in NoteId |-> ByMarker(notes, T)[i]]
    BY DEF ByMarker
  <2> QED BY <1>5, <2>1 DEF Notes
<1> QED BY <1>2, <1>3, <1>6

\* Comment c, which goes by no marker and is the reader's, is taken for note i,
\* which had no address.
Takes(b, notes, T, i, c) ==
  /\ notes[i] # Absent /\ notes[i].upstream = NoComment /\ T[c].body = notes[i].body
  /\ T[c].marker = NoNote /\ T[c].author = "me"
  /\ b.note[i] = [notes[i] EXCEPT !.upstream = c]
  /\ b.cache[c] = [T[c] EXCEPT !.marker = i]
Heals(b, notes, T) ==
  /\ b.note \in Notes /\ b.cache \in [DOMAIN T -> Comment]
  /\ \A i \in NoteId : b.note[i] = notes[i] \/ \E c \in DOMAIN T : Takes(b, notes, T, i, c)
  /\ \A c \in DOMAIN T : b.cache[c] = T[c] \/ \E i \in NoteId : Takes(b, notes, T, i, c)

Books(T) == [note : Notes, cache : [DOMAIN T -> Comment]]

LEMMA HealStep ==
  ASSUME NEW T \in Fetches, NEW notes \in Notes, NEW b \in Books(T), Heals(b, notes, T),
         NEW c \in DOMAIN T
  PROVE  Heal(b, c) \in Books(T) /\ Heals(Heal(b, c), notes, T)
<1> DEFINE like == {j \in Ids(b.note) : Alike(j, c, b.note, b.cache)}
           i == CHOOSE j \in like : TRUE
           n == Heal(b, c)
<1>0. b.note \in Notes /\ b.cache \in [DOMAIN T -> Comment] /\ T \in [DOMAIN T -> Comment] /\ DOMAIN T \subseteq Id
  BY DEF Books, Fetches
<1>1. CASE n = b
  BY <1>1
<1>2. CASE b.cache[c].marker = NoNote /\ b.cache[c].author = "me" /\ like # {}
  <2>1. n = [note |-> Address(b.note, i, c), cache |-> [b.cache EXCEPT ![c].marker = i]]
    BY <1>2 DEF Heal
  <2>2. i \in like
    BY <1>2
  <2>3. i \in NoteId /\ b.note[i] # Absent /\ b.note[i].upstream = NoComment /\ b.note[i].body = b.cache[c].body
    BY <2>2 DEF Alike, Ids
  <2> HIDE DEF i, like
  <2>4. b.note[i] \in Note /\ c \in Id /\ b.cache[c] \in Comment
    BY <1>0, <2>3 DEF Notes
  <2>5. b.cache[c] = T[c]
    <3> SUFFICES ASSUME NEW j \in NoteId, Takes(b, notes, T, j, c) PROVE FALSE
      BY DEF Heals
    <3>1. b.cache[c].marker = j
      BY <1>0 DEF Takes, Comment
    <3> QED BY <1>2, <3>1, PublishAssumption
  <2>6. b.note[i] = notes[i]
    <3> SUFFICES ASSUME NEW d \in DOMAIN T, Takes(b, notes, T, i, d) PROVE FALSE
      BY <2>3 DEF Heals
    <3>1. notes[i] \in Note /\ d \in Id
      BY <1>0, <2>3 DEF Notes, Takes
    <3>2. b.note[i].upstream = d
      BY <3>1 DEF Takes, Note
    <3> QED BY <2>3, <3>1, <3>2 DEF Id, NoComment
  <2>7. /\ n.note = [b.note EXCEPT ![i] = [notes[i] EXCEPT !.upstream = c]]
        /\ n.cache = [b.cache EXCEPT ![c] = [T[c] EXCEPT !.marker = i]]
    BY <1>0, <2>1, <2>3, <2>5, <2>6 DEF Address, Notes
  <2>8. [notes[i] EXCEPT !.upstream = c] \in Note /\ [T[c] EXCEPT !.marker = i] \in Comment
    BY <2>3, <2>4, <2>5, <2>6 DEF Note, Comment, Id
  <2>9. n.note \in Notes /\ n.cache \in [DOMAIN T -> Comment]
    BY <1>0, <2>3, <2>7, <2>8 DEF Notes
  <2>10. n \in Books(T)
    BY <2>1, <2>9 DEF Books
  <2> HIDE DEF n
  <2>11. Takes(n, notes, T, i, c)
    <3>1. n.note[i] = [notes[i] EXCEPT !.upstream = c] /\ n.cache[c] = [T[c] EXCEPT !.marker = i]
      BY <1>0, <2>3, <2>7 DEF Notes
    <3> QED BY <1>2, <2>3, <2>5, <2>6, <3>1 DEF Takes
  <2>12. ASSUME NEW j \in NoteId, NEW d \in DOMAIN T, Takes(b, notes, T, j, d)
         PROVE  Takes(n, notes, T, j, d)
    <3>1. d # c
      <4>1. b.cache[d].marker = j
        BY <1>0, <2>12 DEF Takes, Comment
      <4> QED BY <1>2, <4>1, PublishAssumption
    <3>2. j # i
      <4>1. j = i => b.note[i].upstream = d /\ d \in Id
        BY <1>0, <2>4, <2>6, <2>12 DEF Takes, Note
      <4> QED BY <2>3, <4>1 DEF Id, NoComment
    <3>3. n.note[j] = b.note[j] /\ n.cache[d] = b.cache[d]
      BY <1>0, <2>7, <3>1, <3>2 DEF Notes
    <3> QED BY <2>12, <3>3 DEF Takes
  <2>13. ASSUME NEW j \in NoteId
         PROVE  n.note[j] = notes[j] \/ \E d \in DOMAIN T : Takes(n, notes, T, j, d)
    <3>1. CASE j = i
      BY <2>11, <3>1
    <3>2. CASE j # i /\ b.note[j] = notes[j]
      BY <1>0, <2>7, <3>2 DEF Notes
    <3>3. CASE \E d \in DOMAIN T : Takes(b, notes, T, j, d)
      BY <2>12, <3>3
    <3> QED BY <3>1, <3>2, <3>3 DEF Heals
  <2>14. ASSUME NEW d \in DOMAIN T
         PROVE  n.cache[d] = T[d] \/ \E j \in NoteId : Takes(n, notes, T, j, d)
    <3>1. CASE d = c
      BY <2>3, <2>11, <3>1
    <3>2. CASE d # c /\ b.cache[d] = T[d]
      BY <1>0, <2>7, <3>2
    <3>3. CASE \E j \in NoteId : Takes(b, notes, T, j, d)
      BY <2>12, <3>3
    <3> QED BY <3>1, <3>2, <3>3 DEF Heals
  <2>15. Heals(n, notes, T)
    BY <2>9, <2>13, <2>14 DEF Heals
  <2> QED BY <2>10, <2>15 DEF n
<1> QED BY <1>1, <1>2 DEF Heal

\* The pass over the threads, as the recursive function it is.
HealPass(f, books) ==
  [c \in 0 .. Len(posted) |->
     IF c = 0 THEN books ELSE IF c \in DOMAIN books.cache THEN Heal(f[c - 1], c) ELSE f[c - 1]]

LEMMA HealedHeals ==
  ASSUME NEW T \in Fetches, NEW notes \in Notes, posted \in Seq(Comment)
  PROVE  Heals(Healed([note |-> notes, cache |-> T]), notes, T)
<1> DEFINE N == Len(posted)
           b0 == [note |-> notes, cache |-> T]
           V == {b \in Books(T) : Heals(b, notes, T)}
           G == [n \in Nat |-> [b \in V |-> IF n \in DOMAIN T THEN Heal(b, n) ELSE b]]
           Def(f) == HealPass(f, b0)
           pass == CHOOSE f : f = Def(f)
<1>1. N \in Nat /\ T \in [DOMAIN T -> Comment]
  BY DEF Fetches
<1>2. b0 \in V
  BY <1>1 DEF Books, Heals
<1>3. \A b \in V, n \in DOMAIN T : Heal(b, n) \in V
  BY HealStep
<1>4. G \in Steps(V)
  <2>1. \A n \in Nat : [b \in V |-> IF n \in DOMAIN T THEN Heal(b, n) ELSE b] \in [V -> V]
    <3> HIDE DEF V
    <3> QED BY <1>3
  <2> HIDE DEF V
  <2> QED BY <2>1 DEF Steps
<1>5. PICK f : IsPass(f, N, V, b0, G)
  <2> HIDE DEF N, V, b0, G
  <2> QED BY <1>1, <1>2, <1>4, Recursion
<1>6. f \in [0 .. N -> V] /\ f[0] = b0 /\ \A n \in 1 .. N : f[n] = G[n][f[n - 1]]
  BY <1>5 DEF IsPass
<1>7. \A n \in 1 .. N : f[n] = IF n \in DOMAIN T THEN Heal(f[n - 1], n) ELSE f[n - 1]
  <2> SUFFICES ASSUME NEW n \in 1 .. N
               PROVE  f[n] = IF n \in DOMAIN T THEN Heal(f[n - 1], n) ELSE f[n - 1]
    OBVIOUS
  <2>1. n \in Nat /\ n - 1 \in 0 .. N
    BY <1>1
  <2>2. f[n - 1] \in V
    <3> HIDE DEF V
    <3> QED BY <1>6, <2>1
  <2>3. G[n][f[n - 1]] = IF n \in DOMAIN T THEN Heal(f[n - 1], n) ELSE f[n - 1]
    <3> HIDE DEF V
    <3> QED BY <2>1, <2>2
  <2> HIDE DEF G
  <2> QED BY <1>6, <2>3
<1>8. f = Def(f)
  <2>1. DOMAIN b0.cache = DOMAIN T
    OBVIOUS
  <2>2. ASSUME NEW n \in 0 .. N
        PROVE  f[n] = IF n = 0 THEN b0 ELSE IF n \in DOMAIN b0.cache THEN Heal(f[n - 1], n) ELSE f[n - 1]
    <3>1. n = 0 \/ n \in 1 .. N
      BY <1>1
    <3> HIDE DEF b0
    <3> QED BY <1>6, <1>7, <2>1, <3>1
  <2>3. f = [n \in 0 .. N |-> f[n]]
    <3> HIDE DEF V
    <3> QED BY <1>6
  <2>4. f = [n \in 0 .. N |-> IF n = 0 THEN b0 ELSE IF n \in DOMAIN b0.cache THEN Heal(f[n - 1], n) ELSE f[n - 1]]
    <3> HIDE DEF b0
    <3> QED BY <2>2, <2>3
  <2> QED BY <2>4 DEF HealPass
<1>9. pass = Def(pass)
  <2> HIDE DEF Def
  <2> QED BY <1>8
<1>10. \A n \in 0 .. N : pass[n] \in V
  <2> DEFINE X == {n \in 0 .. N : pass[n] \in V}
  <2>1. \A n \in 0 .. N :
          pass[n] = IF n = 0 THEN b0 ELSE IF n \in DOMAIN T THEN Heal(pass[n - 1], n) ELSE pass[n - 1]
    <3> HIDE DEF pass
    <3> QED BY <1>9 DEF HealPass
  <2>2. 0 \in X
    <3> HIDE DEF V, pass, b0
    <3> QED BY <1>1, <1>2, <2>1
  <2>3. ASSUME NEW n \in 0 .. (N - 1), n \in X PROVE n + 1 \in X
    <3>1. n + 1 \in 0 .. N /\ n + 1 # 0 /\ (n + 1) - 1 = n
      BY <1>1
    <3>2. pass[n] \in V
      BY <2>3
    <3>3. pass[n + 1] = IF n + 1 \in DOMAIN T THEN Heal(pass[n], n + 1) ELSE pass[n]
      <4> HIDE DEF V, pass, b0
      <4> QED BY <2>1, <3>1
    <3> HIDE DEF V, pass
    <3> QED BY <1>3, <3>1, <3>2, <3>3
  <2> HIDE DEF X
  <2>4. \A n \in 0 .. N : n \in X
    BY <1>1, <2>2, <2>3, ByInduction
  <2> QED BY <2>4 DEF X
<1>11. Healed(b0) = pass[N]
  BY DEF Healed, HealPass
<1>12. N \in 0 .. N
  BY <1>1
<1> HIDE DEF pass
<1> QED BY <1>10, <1>11, <1>12

LEMMA ReconcileHeals ==
  ASSUME NEW T \in Fetches, NEW notes \in Notes, posted \in Seq(Comment), NEW me1
  PROVE  Heals(Reconcile(notes, T, me1), ByMarker(notes, T), T)
<1>1. ByMarker(notes, T) \in Notes
  BY ByMarkerType
<1>2. CASE me1
  BY <1>1, <1>2, HealedHeals DEF Reconcile
<1>3. CASE ~me1
  <2>1. Reconcile(notes, T, me1) = [note |-> ByMarker(notes, T), cache |-> T]
    BY <1>3 DEF Reconcile
  <2>2. T \in [DOMAIN T -> Comment]
    BY DEF Fetches
  <2> QED BY <1>1, <2>1, <2>2 DEF Heals
<1> QED BY <1>2, <1>3

\* What an answered fetch or publish leaves: `marked` after `mark_published`,
\* `healed` and `cached` after `set_threads`.
Marks(marked) ==
  \A i \in NoteId :
    \/ marked[i] = note[i] /\ (note[i] = Absent \/ call.sent[i] = NoComment)
    \/ /\ note[i] # Absent /\ call.sent[i] # NoComment
       /\ marked[i] = [note[i] EXCEPT !.upstream = call.sent[i]]
Addresses(marked, healed) ==
  \A i \in NoteId :
    \/ healed[i] = marked[i] /\ ~(i \in Unsent(marked) /\ Carries(call.fetched, i))
    \/ /\ i \in Unsent(marked)
       /\ \E c \in DOMAIN call.fetched :
            /\ healed[i] = [marked[i] EXCEPT !.upstream = c]
            /\ \/ call.fetched[c].marker = i
               \/ call.fetched[c].marker = NoNote /\ call.fetched[c].author = "me"
Relabels(cached) ==
  /\ DOMAIN cached = DOMAIN call.fetched
  /\ \A c \in DOMAIN cached :
       \/ cached[c] = call.fetched[c]
       \/ /\ call.fetched[c].marker = NoNote /\ call.fetched[c].author = "me"
          /\ \E i \in NoteId : cached[c] = [call.fetched[c] EXCEPT !.marker = i]
Saved(marked, healed, cached, m, t, h) ==
  /\ marked \in Notes /\ healed \in Notes /\ cached \in Fetches
  /\ Marks(marked) /\ Addresses(marked, healed) /\ (Relabels(cached) \/ cached = cache)
  /\ \/ note' = healed /\ (m \/ marked = note)
     \/ note' = marked /\ ~m
  /\ cache' \in {cached, cache} /\ savedCache' \in {cached, savedCache}
  /\ \/ savedNote' = healed /\ note' = healed
     \/ savedNote' = marked /\ m /\ (t /\ h => healed = marked)
     \/ savedNote' = savedNote /\ (m => marked = note /\ (t /\ h => healed = marked))
  /\ CallIsOver(m /\ t /\ h)

LEMMA MarksNotes ==
  ASSUME Types
  PROVE  MarkPublished(note, call.sent) \in Notes /\ Marks(MarkPublished(note, call.sent))
<1>1. note \in Notes /\ call.sent \in [NoteId -> Nat]
  BY DEF Types, RecordTypes, CallTypes, Calls
<1> QED BY <1>1, MarkPublishedType DEF Marks

LEMMA HealsNotes ==
  ASSUME Types, NEW marked \in Notes, NEW b, Heals(b, ByMarker(marked, call.fetched), call.fetched)
  PROVE  /\ b.note \in Notes /\ b.cache \in Fetches /\ DOMAIN b.cache = DOMAIN call.fetched
         /\ Addresses(marked, b.note) /\ Relabels(b.cache)
<1> DEFINE T == call.fetched
           byM == ByMarker(marked, T)
<1>1. T \in Fetches /\ T \in [DOMAIN T -> Comment] /\ DOMAIN T \subseteq Id
  BY DEF Types, CallTypes, Calls, Fetches
<1>2. byM \in Notes
      /\ \A i \in NoteId :
              \/ byM[i] = marked[i] /\ ~(i \in Unsent(marked) /\ Carries(T, i))
              \/ /\ i \in Unsent(marked)
                 /\ \E c \in DOMAIN T :
                      T[c].marker = i /\ byM[i] = [marked[i] EXCEPT !.upstream = c]
  <2>1. T \in Fetches /\ marked \in Notes
    BY <1>1
  <2> HIDE DEF T
  <2> QED BY ONLY <2>1, ByMarkerType
<1>3. b.note \in Notes /\ b.cache \in [DOMAIN T -> Comment]
      /\ (\A i \in NoteId : b.note[i] = byM[i] \/ \E c \in DOMAIN T : Takes(b, byM, T, i, c))
      /\ (\A c \in DOMAIN T : b.cache[c] = T[c] \/ \E i \in NoteId : Takes(b, byM, T, i, c))
  BY DEF Heals
<1> HIDE DEF byM, T
<1>4. b.cache \in Fetches /\ DOMAIN b.cache = DOMAIN T
  BY <1>1, <1>3 DEF Fetches
<1>5. Relabels(b.cache)
  <2>1. ASSUME NEW c \in DOMAIN T
        PROVE  \/ b.cache[c] = T[c]
               \/ /\ T[c].marker = NoNote /\ T[c].author = "me"
                  /\ \E i \in NoteId : b.cache[c] = [T[c] EXCEPT !.marker = i]
    <3>1. CASE \E i \in NoteId : Takes(b, byM, T, i, c)
      BY <3>1 DEF Takes
    <3> QED BY <1>3, <3>1
  <2> QED BY <1>4, <2>1 DEF Relabels, T
<1>6. ASSUME NEW i \in NoteId
      PROVE \/ b.note[i] = marked[i] /\ ~(i \in Unsent(marked) /\ Carries(T, i))
            \/ /\ i \in Unsent(marked)
               /\ \E c \in DOMAIN T :
                   /\ b.note[i] = [marked[i] EXCEPT !.upstream = c]
                   /\ T[c].marker = i \/ (T[c].marker = NoNote /\ T[c].author = "me")
  <2>1. CASE b.note[i] = byM[i]
    BY <1>2, <2>1
  <2>2. CASE b.note[i] # byM[i]
    <3>1. PICK c \in DOMAIN T : Takes(b, byM, T, i, c)
      BY <1>3, <2>2
    <3>2. byM[i].upstream = NoComment /\ byM[i] # Absent /\ T[c].marker = NoNote /\ T[c].author = "me"
          /\ b.note[i] = [byM[i] EXCEPT !.upstream = c]
      BY <3>1 DEF Takes
    <3>3. byM[i] = marked[i]
      <4> SUFFICES ASSUME NEW d \in DOMAIN T, byM[i] = [marked[i] EXCEPT !.upstream = d],
                          i \in Unsent(marked)
                   PROVE  FALSE
        BY <1>2
      <4>1. marked[i] \in Note
        BY DEF Unsent, Ids, Notes
      <4>2. d # 0
        BY <1>1 DEF Id
      <4> QED BY <3>2, <4>1, <4>2 DEF Note, NoComment
    <3>4. i \in Unsent(marked)
      BY <3>2, <3>3 DEF Unsent, Ids
    <3> QED BY <3>2, <3>3, <3>4
  <2> QED BY <2>1, <2>2
<1>7. Addresses(marked, b.note)
  BY <1>6 DEF Addresses, T
<1> QED BY <1>3, <1>4, <1>5, <1>7 DEF T

LEMMA RecordThreadsSaves ==
  ASSUME Types, RecordThreads
  PROVE  \E marked, healed, cached : \E m, t, h \in BOOLEAN : Saved(marked, healed, cached, m, t, h)
<1>1. PICK m \in Saves, t \in Saves, h \in Saves :
       LET marked == MarkPublished(note, call.sent)
           books  == IF call.has_threads THEN Reconcile(marked, call.fetched, me')
                     ELSE [note |-> marked, cache |-> cache]
           first  == m \/ marked = note
           second == first /\ call.has_threads /\ t
           third  == second /\ h /\ books.note # marked
       IN
       /\ note'  = IF first THEN books.note ELSE marked
       /\ cache' = IF first THEN books.cache ELSE cache
       /\ savedCache' = IF second THEN books.cache ELSE savedCache
       /\ savedNote'  = IF third THEN books.note
                        ELSE IF m /\ marked # note THEN marked ELSE savedNote
       /\ CallIsOver(m /\ t /\ h)
  BY DEF RecordThreads
<1>2. m \in BOOLEAN /\ t \in BOOLEAN /\ h \in BOOLEAN
  BY DEF Saves
<1>3. PICK marked : marked = MarkPublished(note, call.sent)
  OBVIOUS
<1>4. marked \in Notes /\ Marks(marked)
  BY <1>3, MarksNotes
<1>5. PICK books : books = IF call.has_threads THEN Reconcile(marked, call.fetched, me')
                           ELSE [note |-> marked, cache |-> cache]
  OBVIOUS
<1>6. call.fetched \in Fetches /\ posted \in Seq(Comment) /\ cache \in Fetches
  BY DEF Types, ForgeTypes, RecordTypes, CallTypes, IsFetch
<1>7. books.note \in Notes /\ books.cache \in Fetches /\ Addresses(marked, books.note)
      /\ (Relabels(books.cache) \/ books.cache = cache)
      /\ (~call.has_threads => books.note = marked)
  <2>1. CASE call.has_threads
    <3>1. Heals(books, ByMarker(marked, call.fetched), call.fetched)
      BY <1>4, <1>5, <1>6, <2>1, ReconcileHeals
    <3> QED BY <1>4, <2>1, <3>1, HealsNotes
  <2>2. CASE ~call.has_threads
    <3>1. books.note = marked /\ books.cache = cache
      BY <1>5, <2>2
    <3>2. ~Carries(call.fetched, 0) /\ \A i \in NoteId : ~Carries(call.fetched, i)
      BY <2>2, EmptyFetch DEF Types, CallTypes, Carries
    <3> QED BY <1>4, <1>6, <3>1, <3>2 DEF Addresses
  <2> QED BY <2>1, <2>2
<1>8. /\ note'  = IF m \/ marked = note THEN books.note ELSE marked
      /\ cache' = IF m \/ marked = note THEN books.cache ELSE cache
      /\ savedCache' = IF (m \/ marked = note) /\ call.has_threads /\ t THEN books.cache ELSE savedCache
      /\ savedNote'  = IF (m \/ marked = note) /\ call.has_threads /\ t /\ h /\ books.note # marked
                       THEN books.note
                       ELSE IF m /\ marked # note THEN marked ELSE savedNote
      /\ CallIsOver(m /\ t /\ h)
  BY <1>1, <1>3, <1>5
<1>9. Saved(marked, books.note, books.cache, m, t, h)
  <2>1. \/ note' = books.note /\ (m \/ marked = note)
        \/ note' = marked /\ ~m
    BY <1>2, <1>8
  <2>2. cache' \in {books.cache, cache} /\ savedCache' \in {books.cache, savedCache}
    BY <1>8
  <2>3. \/ savedNote' = books.note /\ note' = books.note
        \/ savedNote' = marked /\ m /\ (t /\ h => books.note = marked)
        \/ savedNote' = savedNote /\ (m => marked = note /\ (t /\ h => books.note = marked))
    BY <1>2, <1>7, <1>8
  <2> QED BY <1>4, <1>7, <1>8, <2>1, <2>2, <2>3 DEF Saved
<1> QED BY <1>2, <1>9

----------------------------------------------------------------------------
(* The session keeps the types *)

LEMMA NoCallTypes ==
  ASSUME call' = NoCall
  PROVE  CallTypes'
<1>1. NoCall' = NoCall /\ NoThreads' = NoThreads
  BY DEF NoCall, NoThreads
<1>2. IsFetch(call.fetched)'
  BY NoCallType, EmptyFetch DEF IsFetch
<1> QED BY <1>1, <1>2, NoCallType DEF CallTypes, Batch, Sending

\* The forge stands still and the call ends or stays.
LEMMA ForgeStandsTypes ==
  ASSUME Types, UNCHANGED forge
  PROVE  ForgeTypes' /\ Grows /\ DOMAIN posted' = DOMAIN posted
BY UnchangedGrows DEF Types, ForgeTypes, forge

LEMMA CallStaysTypes ==
  ASSUME Types, Grows, UNCHANGED call, used \subseteq used'
  PROVE  CallTypes'
<1>1. NoCall' = NoCall /\ NoThreads' = NoThreads
  BY DEF NoCall, NoThreads
<1> USE DEF Types, CallTypes
<1>2. call' = call /\ IsFetch(call.fetched)' /\ Batch' = Batch
  BY DEF IsFetch, Grows, Batch
<1>3. (call.kind \in {"edit", "delete"} => call.target \in DOMAIN posted)'
  BY <1>2 DEF Grows
<1>4. (\A i \in call.replies : call.batch[i].reply_to # NoComment)'
      /\ (\A i \in call.comments : call.batch[i].reply_to = NoComment)'
  BY <1>2 DEF NoComment
<1> QED BY <1>1, <1>2, <1>3, <1>4

LEMMA EndTypes ==
  ASSUME Types, note' \in Notes, savedNote' \in Notes, Ids(note') \subseteq Ids(note) \cup Ids(savedNote),
         Ids(savedNote') \subseteq Ids(note) \cup Ids(savedNote),
         IsFetch(cache'), IsFetch(savedCache'), call' = NoCall, UNCHANGED <<forge, used>>
  PROVE  Types'
<1>1. ForgeTypes' /\ DOMAIN posted' = DOMAIN posted /\ used' = used
  BY ForgeStandsTypes
<1>2. CallTypes'
  BY NoCallTypes
<1>3. Ids(note)' = Ids(note') /\ Ids(savedNote)' = Ids(savedNote')
  BY DEF Ids
<1>4. RecordTypes'
  BY <1>1, <1>3 DEF Types, RecordTypes, IsFetch
<1> QED BY <1>1, <1>2, <1>4 DEF Types

LEMMA ReaddressedIds ==
  ASSUME NEW a \in Notes, NEW b \in Notes,
         \A i \in NoteId : b[i] = a[i] \/ (a[i] # Absent /\ \E c : b[i] = [a[i] EXCEPT !.upstream = c])
  PROVE  Ids(b) \subseteq Ids(a)
BY DEF Ids, Notes

LEMMA MarkedIds ==
  ASSUME Types, NEW marked \in Notes, Marks(marked)
  PROVE  Ids(marked) \subseteq Ids(note)
BY DEF Ids, Marks

LEMMA HealedIds ==
  ASSUME NEW marked \in Notes, NEW healed \in Notes, Addresses(marked, healed)
  PROVE  Ids(healed) \subseteq Ids(marked)
BY DEF Ids, Addresses, Unsent

LEMMA RecordThreadsTypes ==
  ASSUME Types, RecordThreads
  PROVE  Types'
<1>1. PICK marked, healed, cached : \E m, t, h \in BOOLEAN : Saved(marked, healed, cached, m, t, h)
  BY RecordThreadsSaves
<1>2. /\ marked \in Notes /\ healed \in Notes /\ cached \in Fetches
      /\ Marks(marked) /\ Addresses(marked, healed) /\ (Relabels(cached) \/ cached = cache)
      /\ note' \in {healed, marked}
      /\ cache' \in {cached, cache} /\ savedCache' \in {cached, savedCache}
      /\ savedNote' \in {healed, marked, savedNote}
      /\ call' = NoCall /\ UNCHANGED <<forge, used>>
  BY <1>1 DEF Saved, CallIsOver
<1>3. Ids(marked) \subseteq Ids(note) /\ Ids(healed) \subseteq Ids(note)
  BY <1>2, MarkedIds, HealedIds
<1>4. IsFetch(cached) /\ IsFetch(cache) /\ IsFetch(savedCache) /\ savedNote \in Notes
  BY <1>2 DEF Types, RecordTypes, CallTypes, IsFetch, Relabels
<1> QED BY <1>2, <1>3, <1>4, EndTypes

LEMMA RecordErrorTypes ==
  ASSUME Types, RecordError
  PROVE  Types'
<1>1. UNCHANGED <<note, savedNote, cache, savedCache>> /\ call' = NoCall /\ UNCHANGED <<forge, used>>
  BY DEF RecordError, CallIsOver, disk
<1>2. note \in Notes /\ savedNote \in Notes /\ IsFetch(cache) /\ IsFetch(savedCache)
  BY DEF Types, RecordTypes
<1> QED BY <1>1, <1>2, EndTypes

\* The cached comment an edit rewrites.
Rewritten == [cache EXCEPT ![call.target].body = call.text]

LEMMA RewrittenType ==
  ASSUME Types, call.kind = "edit", call.target \in DOMAIN cache
  PROVE  IsFetch(Rewritten) /\ DOMAIN Rewritten = DOMAIN cache
<1>1. call.text \in Body /\ cache \in [DOMAIN cache -> Comment] /\ DOMAIN cache \subseteq Id
      /\ DOMAIN cache \subseteq DOMAIN posted
  BY DEF Types, CallTypes, RecordTypes, IsFetch, Fetches
<1>2. [cache[call.target] EXCEPT !.body = call.text] \in Comment
  BY <1>1 DEF Comment
<1>3. Rewritten \in [DOMAIN cache -> Comment]
  BY <1>1, <1>2 DEF Rewritten
<1> QED BY <1>1, <1>3 DEF IsFetch, Fetches

\* An edit that is answered, as it is recorded.
Edited(i) == [note EXCEPT ![i].body = call.text]
EditSaves ==
  /\ call' = NoCall /\ UNCHANGED <<forge, used, open, raced, me, listed>>
  /\ \/ call.target \in DOMAIN cache /\ cache' = Rewritten /\ savedCache' \in {Rewritten, savedCache}
     \/ UNCHANGED <<cache, savedCache>>
  /\ \/ UNCHANGED <<note, savedNote>>
     \/ \E i \in NoteId :
          /\ note[i] # Absent /\ note' = Edited(i) /\ savedNote' \in {note', savedNote}

LEMMA RecordEditSaves ==
  ASSUME RecordEdit
  PROVE  call.kind = "edit" /\ EditSaves
<1>1. PICK t \in Saves, h \in Saves :
       LET c      == call.target
           cached == c \in DOMAIN cache
           threads == IF cached THEN [cache EXCEPT ![c].body = call.text] ELSE cache
           linked == {i \in NoteId : Links(note, cache, i, c)}
       IN
       /\ cache' = threads
       /\ savedCache' = IF cached /\ t THEN threads ELSE savedCache
       /\ \/ cached /\ ~t /\ UNCHANGED <<note, savedNote>>
          \/ (cached => t) /\ linked = {} /\ UNCHANGED <<note, savedNote>>
          \/ /\ cached => t
             /\ \E i \in linked :
                  /\ note' = [note EXCEPT ![i].body = call.text]
                  /\ savedNote' = IF h THEN note' ELSE savedNote
  BY DEF RecordEdit
<1>2. \/ call.target \in DOMAIN cache /\ cache' = Rewritten /\ savedCache' \in {Rewritten, savedCache}
      \/ UNCHANGED <<cache, savedCache>>
  BY <1>1 DEF Rewritten
<1>3. \/ UNCHANGED <<note, savedNote>>
      \/ \E i \in NoteId :
          /\ note[i] # Absent /\ note' = Edited(i) /\ savedNote' \in {note', savedNote}
  BY <1>1 DEF Edited, Links
<1>4. call.kind = "edit" /\ call' = NoCall /\ UNCHANGED <<forge, used, open, raced, me, listed>>
  BY DEF RecordEdit, CallIsOver, Answered
<1> QED BY <1>2, <1>3, <1>4 DEF EditSaves

LEMMA EditedType ==
  ASSUME Types, NEW i \in NoteId, note[i] # Absent, NEW b \in Body
  PROVE  LET N == [note EXCEPT ![i].body = b] IN
         /\ N \in Notes /\ Ids(N) = Ids(note)
         /\ \A j \in NoteId : (N[j] = Absent <=> note[j] = Absent)
                              /\ (N[j] # Absent => N[j].upstream = note[j].upstream
                                                   /\ N[j].reply_to = note[j].reply_to)
<1>1. note \in Notes /\ note[i] \in Note
  BY DEF Types, RecordTypes, Notes
<1>2. [note[i] EXCEPT !.body = b] \in Note /\ [note[i] EXCEPT !.body = b] # Absent
  BY <1>1, PublishAssumption DEF Note
<1> QED BY <1>1, <1>2 DEF Notes, Ids, Note

LEMMA RecordEditTypes ==
  ASSUME Types, RecordEdit
  PROVE  Types'
<1>1. EditSaves /\ call.kind = "edit" /\ call.text \in Body
  BY RecordEditSaves DEF Types, CallTypes
<1>2. note \in Notes /\ savedNote \in Notes /\ IsFetch(cache) /\ IsFetch(savedCache)
  BY DEF Types, RecordTypes
<1>3. IsFetch(cache') /\ IsFetch(savedCache')
  BY <1>1, <1>2, RewrittenType DEF EditSaves
<1>4. CASE UNCHANGED <<note, savedNote>>
  BY <1>1, <1>2, <1>3, <1>4, EndTypes DEF EditSaves
<1>5. CASE \E i \in NoteId :
          /\ note[i] # Absent /\ note' = Edited(i) /\ savedNote' \in {note', savedNote}
  <2>1. PICK i \in NoteId : note[i] # Absent /\ note' = Edited(i) /\ savedNote' \in {note', savedNote}
    BY <1>5
  <2>2. note' \in Notes /\ Ids(note') = Ids(note)
    BY <1>1, <2>1, EditedType DEF Edited
  <2> QED BY <1>1, <1>2, <1>3, <2>1, <2>2, EndTypes DEF EditSaves
<1> QED BY <1>1, <1>4, <1>5 DEF EditSaves

\* A deletion that is answered, as it is recorded.
DeleteSaves ==
  /\ call' = NoCall /\ UNCHANGED <<forge, used, open, raced, me>>
  /\ \E S \in SUBSET DOMAIN cache :
       cache' = [d \in S |-> cache[d]] /\ savedCache' \in {cache', savedCache}
  /\ \/ UNCHANGED <<note, savedNote>>
     \/ \E G \in SUBSET NoteId :
          /\ note' = [i \in NoteId |-> IF i \in G THEN Absent ELSE note[i]]
          /\ savedNote' \in {note', savedNote}

LEMMA RecordDeleteSaves ==
  ASSUME RecordDelete
  PROVE  DeleteSaves
<1>1. PICK t \in Saves, h \in Saves :
       LET c      == call.target
           cached == c \in DOMAIN cache
           threads == [d \in DOMAIN cache \ {c} |-> cache[d]]
           kept   == [i \in NoteId |-> IF Links(note, cache, i, c) THEN Absent ELSE note[i]]
       IN
       /\ cache' = threads
       /\ savedCache' = IF cached /\ t THEN threads ELSE savedCache
       /\ IF cached /\ ~t THEN UNCHANGED <<note, savedNote>>
          ELSE note' = kept /\ savedNote' = IF h /\ kept # note THEN kept ELSE savedNote
  BY DEF RecordDelete
<1>2. \E S \in SUBSET DOMAIN cache :
        cache' = [d \in S |-> cache[d]] /\ savedCache' \in {cache', savedCache}
  <2>1. DOMAIN cache \ {call.target} \in SUBSET DOMAIN cache
    OBVIOUS
  <2>2. cache' = [d \in DOMAIN cache \ {call.target} |-> cache[d]] /\ savedCache' \in {cache', savedCache}
    BY <1>1
  <2> QED BY <2>1, <2>2
<1>3. \/ UNCHANGED <<note, savedNote>>
      \/ \E G \in SUBSET NoteId :
          /\ note' = [i \in NoteId |-> IF i \in G THEN Absent ELSE note[i]]
          /\ savedNote' \in {note', savedNote}
  <2> DEFINE G == {i \in NoteId : Links(note, cache, i, call.target)}
  <2>1. \/ UNCHANGED <<note, savedNote>>
        \/ /\ note' = [i \in NoteId |-> IF Links(note, cache, i, call.target) THEN Absent ELSE note[i]]
           /\ savedNote' \in {note', savedNote}
    BY <1>1
  <2>2. [i \in NoteId |-> IF Links(note, cache, i, call.target) THEN Absent ELSE note[i]]
        = [i \in NoteId |-> IF i \in G THEN Absent ELSE note[i]]
    OBVIOUS
  <2>3. G \in SUBSET NoteId
    OBVIOUS
  <2> HIDE DEF G
  <2> QED BY <2>1, <2>2, <2>3
<1>4. call' = NoCall /\ UNCHANGED <<forge, used, open, raced, me>>
  BY DEF RecordDelete, CallIsOver
<1> QED BY <1>2, <1>3, <1>4 DEF DeleteSaves

LEMMA RestrictedFetch ==
  ASSUME NEW T, IsFetch(T), NEW S \in SUBSET DOMAIN T
  PROVE  IsFetch([d \in S |-> T[d]])
<1>1. T \in [DOMAIN T -> Comment] /\ DOMAIN T \subseteq Id /\ DOMAIN T \subseteq DOMAIN posted
  BY DEF IsFetch, Fetches
<1>2. [d \in S |-> T[d]] \in [S -> Comment] /\ S \in SUBSET Id
  BY <1>1
<1> QED BY <1>1, <1>2 DEF IsFetch, Fetches

LEMMA ClearedType ==
  ASSUME NEW notes \in Notes, NEW G
  PROVE  LET N == [i \in NoteId |-> IF i \in G THEN Absent ELSE notes[i]] IN
         N \in Notes /\ Ids(N) \subseteq Ids(notes)
BY DEF Notes, Ids

LEMMA RecordDeleteTypes ==
  ASSUME Types, RecordDelete
  PROVE  Types'
<1>1. DeleteSaves
  BY RecordDeleteSaves
<1>2. note \in Notes /\ savedNote \in Notes /\ IsFetch(cache) /\ IsFetch(savedCache)
  BY DEF Types, RecordTypes
<1>3. IsFetch(cache') /\ IsFetch(savedCache')
  BY <1>1, <1>2, RestrictedFetch DEF DeleteSaves
<1>4. note' \in Notes /\ Ids(note') \subseteq Ids(note) /\ savedNote' \in {note', savedNote}
  BY <1>1, <1>2, ClearedType DEF DeleteSaves
<1> QED BY <1>1, <1>2, <1>3, <1>4, EndTypes DEF DeleteSaves

LEMMA RecordKeepsTypes ==
  ASSUME Types, Record
  PROVE  Types'
BY RecordThreadsTypes, RecordErrorTypes, RecordEditTypes, RecordDeleteTypes DEF Record

LEMMA PublishingTypes ==
  ASSUME NEW notes \in Notes, NEW T, IsFetch(T), kind \in {"github", "gitlab"}
  PROVE  LET d == Publishing(notes, T) IN
         /\ d \in Calls /\ d.kind = "publish" /\ d.stage = "head" /\ d.batch = notes /\ d.drafted = {}
         /\ d.comments = Comments(notes, T) /\ d.replies = Replies(notes, T)
         /\ d.sent = NoCall.sent /\ ~d.err /\ ~d.has_threads /\ d.fetched = NoThreads
         /\ d.comments \subseteq Unsent(notes) /\ d.replies \subseteq Unsent(notes)
         /\ \A i \in d.comments : notes[i].reply_to = NoComment /\ ~Carries(T, i)
         /\ \A i \in d.replies : notes[i].reply_to # NoComment /\ ~Carries(T, i)
<1> DEFINE d == Publishing(notes, T)
           C == Comments(notes, T)
           R == Replies(notes, T)
<1>1. C \subseteq Unsent(notes) /\ R \subseteq Unsent(notes) /\ \A i \in C \cup R : ~Carries(T, i)
  BY DEF Comments, Replies, Candidates
<1>2. \A i \in C : notes[i].reply_to = NoComment
  BY DEF Comments
<1>3. \A i \in R : notes[i].reply_to # NoComment
  <2>1. \A c \in DOMAIN T : T[c].thread \in Id
    BY DEF IsFetch, Fetches, Comment
  <2> QED BY <2>1 DEF Replies, Id, NoComment
<1>4. C \in SUBSET NoteId /\ R \in SUBSET NoteId
  BY <1>1 DEF Unsent, Ids
<1> HIDE DEF C, R
<1>5. d = [NoCall EXCEPT !.kind = "publish", !.stage = "head", !.batch = notes, !.comments = C, !.replies = R]
  BY DEF Publishing, C, R
<1> HIDE DEF d
<1>6. d \in Calls
  BY <1>4, <1>5, NoCallType DEF Calls, Stages, Sending
<1>7. d.kind = "publish" /\ d.stage = "head" /\ d.batch = notes /\ d.comments = C /\ d.replies = R
      /\ d.sent = NoCall.sent /\ ~d.err /\ ~d.has_threads /\ d.fetched = NoThreads /\ d.drafted = {}
  <2>1. NoCall.drafted = {}
    BY DEF NoCall
  <2> QED BY <1>5, <2>1, NoCallType DEF Calls
<1> QED BY <1>1, <1>2, <1>3, <1>6, <1>7 DEF d, C, R

LEMMA StartsPublishTypes ==
  ASSUME NEW notes \in Notes, NEW T, IsFetch(T), kind \in {"github", "gitlab"}, posted \in Seq(Comment),
         call' = Publishing(notes, T), Ids(notes) \subseteq used, UNCHANGED <<forge, used>>
  PROVE  CallTypes'
<1> DEFINE d == Publishing(notes, T)
<1>1. /\ d \in Calls /\ d.kind = "publish" /\ d.stage = "head" /\ d.batch = notes
      /\ d.comments = Comments(notes, T) /\ d.replies = Replies(notes, T)
      /\ d.sent = NoCall.sent /\ ~d.err /\ ~d.has_threads /\ d.fetched = NoThreads
      /\ d.comments \subseteq Unsent(notes) /\ d.replies \subseteq Unsent(notes)
      /\ \A i \in d.comments : notes[i].reply_to = NoComment
      /\ \A i \in d.replies : notes[i].reply_to # NoComment
  BY PublishingTypes
<1>2. NoCall' = NoCall /\ NoThreads' = NoThreads /\ call' = d /\ used' = used /\ posted' = posted
  BY DEF NoCall, NoThreads, forge
<1> HIDE DEF d
<1>3. IsFetch(call.fetched)'
  BY <1>1, <1>2, EmptyFetch DEF IsFetch
<1>4. (Batch \subseteq used)' /\ (\A i \in Batch : call.batch[i] # Absent)'
  BY <1>1, <1>2 DEF Batch, Unsent, Ids
<1>5. (\A i \in call.comments : call.batch[i].reply_to = NoComment)'
      /\ (\A i \in call.replies : call.batch[i].reply_to # NoComment)'
  BY <1>1, <1>2 DEF NoComment
<1>6. call'.kind = "publish" /\ call'.stage = "head" /\ call' \in Calls
      /\ call'.sent = NoCall.sent /\ ~call'.err /\ ~call'.has_threads /\ call'.fetched = NoThreads
  BY <1>1, <1>2
<1> QED BY <1>2, <1>3, <1>4, <1>5, <1>6 DEF CallTypes

\* A call which is no publish.
Single(d) ==
  /\ d \in Calls /\ d.comments = {} /\ d.replies = {} /\ d.sent = NoCall.sent
  /\ ~d.err /\ ~d.has_threads /\ d.fetched = NoThreads /\ d.batch = NoNotes
  /\ \/ d.kind = "fetch" /\ d.stage = "refetch"
     \/ d.kind = "edit" /\ d.stage = "act" /\ d.text \in Body /\ d.target \in DOMAIN posted
     \/ d.kind = "delete" /\ d.stage = "act" /\ d.target \in DOMAIN posted

LEMMA SinglesAre ==
  ASSUME posted \in Seq(Comment)
  PROVE  /\ Single([NoCall EXCEPT !.kind = "fetch", !.stage = "refetch"])
         /\ \A c \in DOMAIN posted :
              /\ Single([NoCall EXCEPT !.kind = "delete", !.stage = "act", !.target = c])
              /\ \A b \in Body, i \in NoteId \cup {NoNote} :
                   Single([NoCall EXCEPT !.kind = "edit", !.stage = "act",
                                         !.target = c, !.text = b, !.linked = i])
<1>1. DOMAIN posted \subseteq Nat
  OBVIOUS
<1>2. Single([NoCall EXCEPT !.kind = "fetch", !.stage = "refetch"])
  BY NoCallType DEF Single, Calls, Stages, Sending
<1>3. ASSUME NEW c \in DOMAIN posted
      PROVE  Single([NoCall EXCEPT !.kind = "delete", !.stage = "act", !.target = c])
  BY <1>1, NoCallType DEF Single, Calls, Stages, Sending
<1>4. ASSUME NEW c \in DOMAIN posted, NEW b \in Body, NEW i \in NoteId \cup {NoNote}
      PROVE  Single([NoCall EXCEPT !.kind = "edit", !.stage = "act", !.target = c, !.text = b, !.linked = i])
  BY <1>1, NoCallType DEF Single, Calls, Stages, Sending
<1> QED BY <1>2, <1>3, <1>4

LEMMA SingleTypes ==
  ASSUME Single(call'), UNCHANGED forge
  PROVE  CallTypes'
<1>1. NoCall' = NoCall /\ NoThreads' = NoThreads /\ posted' = posted
  BY DEF NoCall, NoThreads, forge
<1>2. Batch' = {} /\ call' \in Calls
  BY DEF Single, Batch
<1>3. IsFetch(call.fetched)'
  BY EmptyFetch DEF Single, IsFetch
<1>4. call'.stage \notin Sending /\ call'.stage # "answered" /\ call'.kind # "publish"
      /\ (call.stage = "act" => call.kind \in {"edit", "delete"})'
  BY DEF Single, Sending
<1>5. (call.kind = "edit" => call.text \in Body)'
      /\ (call.kind \in {"edit", "delete"} => call.target \in DOMAIN posted)'
  BY <1>1 DEF Single
<1>6. call'.comments = {} /\ call'.replies = {} /\ call'.sent = NoCall.sent
      /\ ~call'.err /\ ~call'.has_threads /\ call'.fetched = NoThreads
  BY DEF Single
<1> QED BY <1>1, <1>2, <1>3, <1>4, <1>5, <1>6 DEF CallTypes, Sending

\* The disk and the notes stay what they are, in memory or read back.
LEMMA OpenTypes ==
  ASSUME Types, note' \in {note, savedNote, NoNotes}, cache' \in {cache, savedCache, NoThreads},
         UNCHANGED <<forge, disk, used>>, CallTypes'
  PROVE  Types'
<1>1. ForgeTypes' /\ DOMAIN posted' = DOMAIN posted
  BY ForgeStandsTypes
<1>2. note \in Notes /\ savedNote \in Notes /\ Ids(note) \subseteq used /\ Ids(savedNote) \subseteq used
      /\ IsFetch(cache) /\ IsFetch(savedCache) /\ used \subseteq NoteId /\ IsFiniteSet(used)
  BY DEF Types, RecordTypes
<1>3. NoNotes \in Notes /\ Ids(NoNotes) = {} /\ IsFetch(NoThreads)
  BY NoCallType, EmptyFetch DEF Ids, NoNotes, IsFetch
<1>4. UNCHANGED <<savedNote, savedCache, used>> /\ Ids(note)' = Ids(note') /\ Ids(savedNote)' = Ids(savedNote')
  BY DEF disk, Ids
<1>5. Ids(note') \subseteq used /\ note' \in Notes /\ IsFetch(cache')
  BY <1>2, <1>3
<1>6. RecordTypes'
  BY <1>1, <1>2, <1>4, <1>5 DEF RecordTypes, IsFetch
<1> QED BY <1>1, <1>6 DEF Types

\* A change to the notes, saved with it.
LEMMA WriteTypes ==
  ASSUME Types, NEW notes \in Notes, SetNotes(notes), Ids(notes) \subseteq used', used \subseteq used',
         IsFiniteSet(used'), used' \subseteq NoteId, UNCHANGED <<forge, cache, savedCache, call>>
  PROVE  Types'
<1>1. ForgeTypes' /\ DOMAIN posted' = DOMAIN posted /\ Grows
  BY ForgeStandsTypes
<1>2. CallTypes'
  BY <1>1, CallStaysTypes
<1>3. Ids(note)' = Ids(notes) /\ Ids(savedNote)' = Ids(notes) /\ note' = notes /\ savedNote' = notes
  BY DEF Ids, SetNotes
<1>4. RecordTypes'
  BY <1>1, <1>3 DEF Types, RecordTypes, IsFetch
<1> QED BY <1>1, <1>2, <1>4 DEF Types

LEMMA AddNoteTypes ==
  ASSUME Types, NEW i \in NoteId, NEW b \in Body, NEW t \in Nat, AddNote(i, b, t)
  PROVE  Types'
<1> DEFINE N == [note EXCEPT ![i] = [body |-> b, reply_to |-> t, upstream |-> NoComment]]
<1>1. note \in Notes /\ [body |-> b, reply_to |-> t, upstream |-> NoComment] \in Note
      /\ Ids(note) \subseteq used /\ used \subseteq NoteId /\ IsFiniteSet(used)
  BY DEF Types, RecordTypes, Note, NoComment
<1>2. N \in Notes /\ Ids(N) \subseteq Ids(note) \cup {i}
  BY <1>1 DEF Notes, Ids
<1>3. SetNotes(N) /\ used' = used \cup {i} /\ UNCHANGED <<forge, cache, savedCache, call>>
  BY DEF AddNote
<1>4. IsFiniteSet(used') /\ used' \subseteq NoteId /\ used \subseteq used' /\ Ids(N) \subseteq used'
  BY <1>1, <1>2, <1>3, FS_AddElement
<1> HIDE DEF N
<1> QED BY <1>2, <1>3, <1>4, WriteTypes

LEMMA RewriteTypes ==
  ASSUME Types, NEW notes \in Notes, SetNotes(notes), Ids(notes) \subseteq Ids(note),
         UNCHANGED <<forge, cache, savedCache, call, used>>
  PROVE  Types'
<1>1. Ids(note) \subseteq used /\ used \subseteq NoteId /\ IsFiniteSet(used) /\ used' = used
  BY DEF Types, RecordTypes
<1> QED BY <1>1, WriteTypes

LEMMA EditNoteTypes ==
  ASSUME Types, NEW i \in NoteId, NEW b \in Body, EditNote(i, b)
  PROVE  Types'
<1> DEFINE N == [note EXCEPT ![i].body = b]
<1>1. note[i] # Absent
  BY DEF EditNote, Unsent, Ids
<1>2. N \in Notes /\ Ids(N) = Ids(note)
  BY <1>1, EditedType
<1>3. SetNotes(N) /\ UNCHANGED <<forge, cache, savedCache, call, used>>
  BY DEF EditNote
<1> HIDE DEF N
<1> QED BY <1>2, <1>3, RewriteTypes

\* Notes G go.
Without(G) == [i \in NoteId |-> IF i \in G THEN Absent ELSE note[i]]

LEMMA RemoveTypes ==
  ASSUME Types, NEW G, SetNotes(Without(G)), UNCHANGED <<forge, cache, savedCache, call, used>>
  PROVE  Types'
<1>1. Without(G) \in Notes /\ Ids(Without(G)) \subseteq Ids(note)
  BY ClearedType DEF Types, RecordTypes, Without
<1> QED BY <1>1, RewriteTypes

\* Deleting one note, in the diff or in the list, or all that have no address.
LEMMA RemovalsRemove ==
  ASSUME Types,
         \/ ClearNotes
         \/ \E i \in NoteId : DeleteNote(i) \/ DeleteListed(i)
  PROVE  /\ UNCHANGED <<forge, savedCache, open, cache, me, call, doubtful, used>>
         /\ \E G \in SUBSET NoteId : SetNotes(Without(G))
<1>1. CASE ClearNotes
  <2>1. SetNotes(Without(Unsent(note))) /\ Unsent(note) \in SUBSET NoteId
    BY <1>1 DEF ClearNotes, Without, Unsent, Ids
  <2>2. UNCHANGED <<forge, savedCache, open, cache, me, call, doubtful, used>>
    BY <1>1 DEF ClearNotes
  <2> QED BY <2>1, <2>2
<1>2. ASSUME NEW i \in NoteId, DeleteNote(i) \/ DeleteListed(i)
      PROVE  /\ UNCHANGED <<forge, savedCache, open, cache, me, call, doubtful, used>>
             /\ \E G \in SUBSET NoteId : SetNotes(Without(G))
  <2>1. SetNotes([note EXCEPT ![i] = Absent])
    BY <1>2 DEF DeleteNote, DeleteListed
  <2>2. Without({i}) = [note EXCEPT ![i] = Absent]
    BY DEF Without, Types, RecordTypes, Notes
  <2>3. UNCHANGED <<forge, savedCache, open, cache, me, call, doubtful, used>>
    BY <1>2 DEF DeleteNote, DeleteListed
  <2>4. {i} \in SUBSET NoteId
    OBVIOUS
  <2> QED BY <2>1, <2>2, <2>3, <2>4
<1> QED BY <1>1, <1>2

\* What each action of the reader is, to the types.
LEMMA ReaderTypes ==
  ASSUME Types, Reader
  PROVE  Types'
<1>0. /\ note \in Notes /\ savedNote \in Notes /\ IsFetch(cache) /\ IsFetch(savedCache)
      /\ kind \in {"github", "gitlab"} /\ posted \in Seq(Comment) /\ world \in Worlds
      /\ Ids(note) \subseteq used /\ Ids(savedNote) \subseteq used
  BY DEF Types, RecordTypes, ForgeTypes
<1>1. CASE OpenReview
  <2>1. UNCHANGED <<forge, disk, used>> /\ note' = savedNote /\ cache' = savedCache
        /\ call' = [NoCall EXCEPT !.kind = "fetch", !.stage = "refetch"]
    BY <1>1 DEF OpenReview, history
  <2>2. CallTypes'
    BY <1>0, <2>1, SinglesAre, SingleTypes
  <2> QED BY <2>1, <2>2, OpenTypes
<1>2. CASE PostFromCli
  <2>1. UNCHANGED <<forge, disk, used>> /\ note' = savedNote /\ cache' = savedCache
        /\ call' = Publishing(savedNote, savedCache)
    BY <1>2 DEF PostFromCli, history
  <2>2. CallTypes'
    BY <1>0, <2>1, StartsPublishTypes
  <2> QED BY <2>1, <2>2, OpenTypes
<1>3. CASE StartFetch \/ StartPublish \/ \E c \in DOMAIN posted : StartDelete(c) \/ \E b \in Spoken : StartEdit(c, b)
  <2>1. ASSUME UNCHANGED <<forge, disk, session, history>>, CallTypes'
        PROVE  Types'
    <3>1. note' = note /\ cache' = cache /\ UNCHANGED <<forge, disk, used>>
      BY <2>1 DEF session, history
    <3> QED BY <2>1, <3>1, OpenTypes
  <2>2. CASE StartFetch
    <3>1. call' = [NoCall EXCEPT !.kind = "fetch", !.stage = "refetch"]
          /\ UNCHANGED <<forge, disk, session, history>>
      BY <2>2 DEF StartFetch, Begin
    <3> QED BY <1>0, <2>1, <3>1, SinglesAre, SingleTypes
  <2>3. CASE StartPublish
    <3>1. call' = Publishing(note, cache) /\ UNCHANGED <<forge, disk, session, history>> /\ UNCHANGED <<forge, used>>
      BY <2>3 DEF StartPublish, Begin, history
    <3>2. CallTypes'
      BY <1>0, <3>1, StartsPublishTypes
    <3> QED BY <2>1, <3>1, <3>2
  <2>4. ASSUME NEW c \in DOMAIN posted, StartDelete(c) PROVE Types'
    <3>1. call' = [NoCall EXCEPT !.kind = "delete", !.stage = "act", !.target = c]
          /\ UNCHANGED <<forge, disk, session, history>>
      BY <2>4 DEF StartDelete, Begin
    <3> QED BY <1>0, <2>1, <3>1, SinglesAre, SingleTypes
  <2>5. ASSUME NEW c \in DOMAIN posted, NEW b \in Spoken, StartEdit(c, b) PROVE Types'
    <3>1. b \in Body
      BY <1>0, PublishAssumption DEF Spoken
    <3>2. PICK i \in LinkedTo(c) :
            call' = [NoCall EXCEPT !.kind = "edit", !.stage = "act", !.target = c, !.text = b, !.linked = i]
            /\ UNCHANGED <<forge, disk, session, history>>
      BY <2>5 DEF StartEdit, Begin
    <3>3. i \in NoteId \cup {NoNote}
      BY DEF LinkedTo
    <3> QED BY <1>0, <2>1, <3>1, <3>2, <3>3, SinglesAre, SingleTypes
  <2> QED BY <1>3, <2>2, <2>3, <2>4, <2>5
<1>4. CASE OpenList \/ CloseList
  <2>1. UNCHANGED <<forge, disk, used>> /\ note' = note /\ cache' = cache /\ call' = call
    BY <1>4 DEF OpenList, CloseList, history
  <2>2. CallTypes'
    BY <2>1, ForgeStandsTypes, CallStaysTypes
  <2> QED BY <2>1, <2>2, OpenTypes
<1>5. CASE ClearNotes \/ \E i \in NoteId : DeleteNote(i) \/ DeleteListed(i)
  BY <1>5, RemovalsRemove, RemoveTypes
<1>6. ASSUME NEW i \in NoteId, NEW b \in world.words[i], EditNote(i, b) \/ \E t \in {NoComment} \cup DOMAIN cache : AddNote(i, b, t)
      PROVE  Types'
  <2>1. b \in Body
    BY <1>0, PublishAssumption
  <2>2. {NoComment} \cup DOMAIN cache \subseteq Nat
    BY <1>0 DEF IsFetch, Fetches, Id, NoComment
  <2> QED BY <1>6, <2>1, <2>2, EditNoteTypes, AddNoteTypes
<1> QED BY <1>1, <1>2, <1>3, <1>4, <1>5, <1>6 DEF Reader

LEMMA QuitTypes ==
  ASSUME Types, Quit
  PROVE  Types'
<1>1. UNCHANGED <<forge, disk, used>> /\ note' = NoNotes /\ cache' = NoThreads /\ call' = NoCall
  BY DEF Quit
<1> QED BY <1>1, NoCallTypes, OpenTypes

LEMMA OutsideTypes ==
  ASSUME Types, Outside
  PROVE  Types' /\ Grows
<1>0. posted \in Seq(Comment) /\ RecordTypes /\ CallTypes
  BY DEF Types, ForgeTypes
<1>1. UNCHANGED <<world, kind, drafts, disk, session, call, history>>
  BY DEF Outside, WebDelete, WebComment
<1>2. UNCHANGED <<savedNote, savedCache, note, cache, used, call>>
  BY <1>1 DEF disk, session, history
<1>3. posted' \in Seq(Comment) /\ Grows
  <2>1. ASSUME NEW c \in DOMAIN posted, posted' = [posted EXCEPT ![c].live = FALSE]
        PROVE  posted' \in Seq(Comment) /\ Grows
    <3>1. posted[c] \in Comment /\ [posted[c] EXCEPT !.live = FALSE] \in Comment
      <4>1. posted[c] \in Comment
        BY <1>0
      <4>2. PICK x \in Comment : x = posted[c]
        BY <4>1
      <4>3. [x EXCEPT !.live = FALSE] \in Comment
        BY DEF Comment
      <4> QED BY <4>1, <4>2, <4>3
    <3>2. posted' = [posted EXCEPT ![c] = [posted[c] EXCEPT !.live = FALSE]]
      BY <1>0, <2>1
    <3>3. posted' \in Seq(Comment) /\ DOMAIN posted' = DOMAIN posted
      BY <1>0, <3>1, <3>2
    <3>4. [posted[c] EXCEPT !.live = FALSE].author = posted[c].author
          /\ [posted[c] EXCEPT !.live = FALSE].from = posted[c].from
          /\ [posted[c] EXCEPT !.live = FALSE].bared = posted[c].bared
      BY <3>1 DEF Comment
    <3> QED BY <3>2, <3>3, <3>4 DEF Grows
  <2>2. ASSUME NEW b \in Body, NEW p \in Place,
               posted' = Append(posted, [thread |-> Len(posted) + 1, place |-> p, author |-> "me",
                               marker |-> NoNote, body |-> b, live |-> TRUE, from |-> NoNote,
                               bared |-> TRUE])
        PROVE  posted' \in Seq(Comment) /\ Grows
    <3>1. [thread |-> Len(posted) + 1, place |-> p, author |-> "me", marker |-> NoNote, body |-> b,
           live |-> TRUE, from |-> NoNote, bared |-> TRUE] \in Comment
      <4>1. Len(posted) + 1 \in Id
        BY <1>0 DEF Id
      <4> QED BY <4>1 DEF Comment
    <3> QED BY <1>0, <2>2, <3>1, OneMore
  <2> QED BY <2>1, <2>2 DEF Outside, WebDelete, WebComment
<1>4. RecordTypes'
  BY <1>0, <1>2, <1>3, RecordsOutliveTheForge
<1>5. CallTypes'
  BY <1>2, <1>3, CallStaysTypes
<1> QED BY <1>1, <1>3, <1>4, <1>5 DEF Types, ForgeTypes

LEMMA InitTypes == Init => Types
<1> SUFFICES ASSUME Init PROVE Types
  OBVIOUS
<1>1. NoNotes \in Notes /\ Ids(NoNotes) = {} /\ IsFetch(NoThreads)
  BY NoCallType, EmptyFetch DEF Ids, NoNotes, IsFetch
<1>2. ForgeTypes
  BY PublishAssumption DEF Init, ForgeTypes
<1>3. RecordTypes
  BY <1>1, FS_EmptySet DEF Init, RecordTypes
<1>4. CallTypes
  <2>1. call = NoCall
    BY DEF Init
  <2> QED BY <1>1, <2>1, NoCallType, EmptyFetch DEF CallTypes, Batch, Sending
<1> QED BY <1>2, <1>3, <1>4 DEF Types

LEMMA NextTypes ==
  ASSUME Types, [Next]_vars
  PROVE  Types' /\ Grows
<1>1. CASE UNCHANGED vars
  <2>1. UNCHANGED <<forge, disk, used>> /\ note' = note /\ cache' = cache /\ call' = call
    BY <1>1 DEF vars, session, history
  <2>2. CallTypes' /\ Grows
    BY <2>1, ForgeStandsTypes, CallStaysTypes
  <2> QED BY <2>1, <2>2, OpenTypes
<1>2. CASE Record \/ Reader \/ Quit
  <2>1. UNCHANGED forge
    BY <1>2 DEF Record, RecordError, RecordThreads, RecordEdit, RecordDelete, CallIsOver, Reader, OpenReview,
       PostFromCli, StartFetch, StartPublish, OpenList, CloseList, ClearNotes, DeleteNote, DeleteListed,
       EditNote, AddNote, StartDelete, StartEdit, Begin, Quit
  <2> QED BY <1>2, <2>1, ForgeStandsTypes, RecordKeepsTypes, ReaderTypes, QuitTypes
<1> QED BY <1>1, <1>2, WorkerTypes, OutsideTypes DEF Next

----------------------------------------------------------------------------
(* What a step of the worker puts up, and what it learns *)

\* A comment as it goes up.
Newly(x) == x.author = "me" /\ x.marker = x.from /\ x.from \in NoteId /\ ~x.bared

LEMMA StepKeepsAnswer ==
  ASSUME call \in Calls, (\E s : StepTo(s)) \/ Fail \/ Stop
  PROVE  call'.sent = call.sent /\ call'.fetched = call.fetched /\ call'.drafted = call.drafted
BY DEF StepTo, Fail, Stop, Calls

LEMMA WorkerPosts ==
  ASSUME Types, Worker
  PROVE  \/ UNCHANGED posted
         \/ \E new \in Seq(Comment) : posted' = posted \o new /\ \A k \in 1 .. Len(new) : Newly(new[k])
         \/ call.stage = "act" /\ posted' = [posted EXCEPT ![call.target] = ActedOn]
<1>0. posted \in Seq(Comment) /\ drafts \in Seq(DraftNote) /\ call \in Calls
  BY DEF Types, ForgeTypes, CallTypes
<1>1. CASE CheckHead \/ ListReview \/ Draft \/ FetchBack \/ FetchThreads
  BY <1>1 DEF CheckHead, ListReview, Draft, FetchBack, FetchThreads, forge
<1>2. CASE SendReview
  <2>1. CASE posted' = posted \o Posting(call.comments)
    <3>1. Posting(call.comments) \in Seq(Comment)
          /\ \A k \in 1 .. Len(Posting(call.comments)) : Newly(Posting(call.comments)[k])
      BY <1>0, BatchNotes, PostingType DEF Newly
    <3> QED BY <2>1, <3>1
  <2> QED BY <1>2, <2>1 DEF SendReview
<1>3. CASE SendReply
  <2>1. PICK i \in call.replies :
          \/ UNCHANGED posted
          \/ posted' = Append(posted, CommentOf(i, Len(posted) + 1, call.batch[i].body, call.batch[i].reply_to))
    BY <1>3 DEF SendReply
  <2>2. PICK x : x = CommentOf(i, Len(posted) + 1, call.batch[i].body, call.batch[i].reply_to)
    OBVIOUS
  <2>3. i \in NoteId /\ call.batch[i] \in Note /\ Len(posted) + 1 \in Id
    BY <1>0, BatchNotes DEF Batch, Id
  <2>4. x \in Comment /\ Newly(x)
    BY <2>2, <2>3, CommentType DEF Note, Newly
  <2>5. UNCHANGED posted \/ posted' = posted \o <<x>>
    BY <1>0, <2>1, <2>2, <2>4
  <2>6. <<x>> \in Seq(Comment) /\ \A k \in 1 .. Len(<<x>>) : Newly(<<x>>[k])
    BY <2>4
  <2> QED BY <2>5, <2>6
<1>4. CASE BulkPublish
  <2>1. UNCHANGED posted \/ posted' = posted \o OfDrafts
    BY <1>4 DEF BulkPublish, OfDrafts
  <2>2. OfDrafts \in Seq(Comment) /\ \A k \in 1 .. Len(OfDrafts) : Newly(OfDrafts[k])
    BY <1>0, OfDraftsType DEF Newly
  <2> QED BY <2>1, <2>2
<1>5. CASE Act
  BY <1>5, ActMoves DEF Act
<1> QED BY <1>1, <1>2, <1>3, <1>4, <1>5 DEF Worker

\* What the call says of note i: nothing new, a live comment that carries the
\* note's marker, or the comment that has just gone up for it.
Learns(i) ==
  \/ call'.sent[i] = call.sent[i]
  \/ call'.sent[i] \in LiveOf(i)
  \/ /\ call'.sent[i] \in DOMAIN posted'
     /\ posted'[call'.sent[i]].from = i /\ posted'[call'.sent[i]].author = "me"

LEMMA WorkerLearns ==
  ASSUME Types, Worker
  PROVE  call'.fetched \in {call.fetched, Threads} /\ \A i \in NoteId : Learns(i)
<1>0. posted \in Seq(Comment) /\ drafts \in Seq(DraftNote) /\ call \in Calls
  BY DEF Types, ForgeTypes, CallTypes
<1>1. ASSUME call'.sent = call.sent, call'.fetched = call.fetched
      PROVE  call'.fetched \in {call.fetched, Threads} /\ \A i \in NoteId : Learns(i)
  BY <1>1 DEF Learns
<1>2. CASE CheckHead \/ BulkPublish \/ Act
  <2>1. (\E s : StepTo(s)) \/ Fail \/ Stop
    BY <1>2 DEF CheckHead, BulkPublish, Act
  <2> QED BY <1>0, <1>1, <2>1, StepKeepsAnswer
<1>3. CASE SendReview
  <2>1. CASE Fail
    BY <1>0, <1>1, <2>1, StepKeepsAnswer
  <2>2. CASE call' = [call EXCEPT !.stage = "list", !.base = Len(posted)]
    BY <1>0, <1>1, <2>2 DEF Calls
  <2> QED BY <1>3, <2>1, <2>2 DEF SendReview
<1>4. CASE ListReview
  <2>1. CASE StepTo("refetch")
    BY <1>0, <1>1, <2>1, StepKeepsAnswer
  <2>2. CASE call' = [call EXCEPT !.stage = ToReplies, !.sent = Matched(call.comments)]
    <3>1. call'.sent = Matched(call.comments) /\ call'.fetched = call.fetched
      BY <1>0, <2>2 DEF Calls
    <3> QED BY <3>1, MatchedType DEF Learns
  <2> QED BY <1>4, <2>1, <2>2 DEF ListReview
<1>5. CASE Draft
  <2>1. CASE Stop
    BY <1>0, <1>1, <2>1, StepKeepsAnswer
  <2>2. ASSUME NEW D, NEW s, call' = [call EXCEPT !.drafted = D, !.stage = s]
        PROVE  call'.fetched \in {call.fetched, Threads} /\ \A i \in NoteId : Learns(i)
    BY <1>0, <1>1, <2>2 DEF Calls
  <2> QED BY <1>5, <2>1, <2>2 DEF Draft
<1>6. CASE FetchBack
  <2>1. CASE StepTo("refetch")
    BY <1>0, <1>1, <2>1, StepKeepsAnswer
  <2>2. CASE call' = [call EXCEPT !.stage = "answered", !.has_threads = TRUE, !.fetched = Threads,
                        !.sent = IF kind = "gitlab" THEN Matched(call.comments) ELSE @]
    <3>1. call'.sent \in {Matched(call.comments), call.sent} /\ call'.fetched = Threads
      BY <1>0, <2>2 DEF Calls
    <3> QED BY <3>1, MatchedType DEF Learns
  <2> QED BY <1>6, <2>1, <2>2 DEF FetchBack
<1>7. CASE FetchThreads
  <2>1. CASE call' = [call EXCEPT !.stage = "answered", !.has_threads = TRUE, !.fetched = Threads]
    <3>1. call'.sent = call.sent /\ call'.fetched = Threads
      BY <1>0, <2>1 DEF Calls
    <3> QED BY <3>1 DEF Learns
  <2>2. CASE call' = [call EXCEPT !.stage = "answered", !.err = call.kind = "fetch"]
    BY <1>0, <1>1, <2>2 DEF Calls
  <2> QED BY <1>7, <2>1, <2>2 DEF FetchThreads
<1>8. CASE SendReply
  <2> DEFINE Reply(i) == CommentOf(i, Len(posted) + 1, call.batch[i].body, call.batch[i].reply_to)
  <2>1. PICK i \in call.replies, a \in Answers :
          /\ posted' = IF a = "refused" THEN posted ELSE Append(posted, Reply(i))
          /\ IF a = "ok"
             THEN call' = [call EXCEPT !.sent[i] = Len(posted) + 1,
                    !.stage = IF {j \in call.replies \ {i} : call.sent[j] = NoComment} = {}
                              THEN AfterReplies ELSE "replies"]
             ELSE Stop
    BY <1>8 DEF SendReply
  <2>2. CASE Stop
    BY <1>0, <1>1, <2>2, StepKeepsAnswer
  <2>3. CASE a = "ok"
    <3>1. PICK s : call' = [call EXCEPT !.sent[i] = Len(posted) + 1, !.stage = s]
      BY <2>1, <2>3
    <3>2. call'.sent = [call.sent EXCEPT ![i] = Len(posted) + 1] /\ call'.fetched = call.fetched
      BY <1>0, <3>1 DEF Calls
    <3>3. posted' = Append(posted, Reply(i))
      BY <2>1, <2>3
    <3>4. i \in NoteId /\ call.batch[i] \in Note /\ Len(posted) + 1 \in Id
      BY <1>0, BatchNotes DEF Batch, Id
    <3>5. Reply(i) \in Comment /\ Reply(i).from = i /\ Reply(i).author = "me"
      BY <3>4, CommentType DEF Note
    <3> HIDE DEF Reply
    <3>6. Len(posted) + 1 \in DOMAIN posted' /\ posted'[Len(posted) + 1] = Reply(i)
      BY <1>0, <3>3, <3>5, OneMore
    <3>7. call.sent \in [NoteId -> Nat]
      BY <1>0 DEF Calls
    <3>8. \A j \in NoteId : IF j = i THEN call'.sent[j] = Len(posted) + 1 ELSE call'.sent[j] = call.sent[j]
      BY <3>2, <3>4, <3>7
    <3> QED BY <3>2, <3>5, <3>6, <3>8 DEF Learns
  <2> QED BY <2>1, <2>2, <2>3
<1> QED BY <1>2, <1>3, <1>4, <1>5, <1>6, <1>7, <1>8 DEF Worker

----------------------------------------------------------------------------
(* Where an address comes from *)

Sound(x) ==
  /\ x.marker # NoNote => x.author = "me"
  /\ ~x.bared => x.marker = x.from /\ x.from \in NoteId
\* What a copy of the threads, fetched or cached, still says truly.
Copied(P, T) ==
  \A c \in DOMAIN T :
    /\ c \in DOMAIN P /\ T[c].author = P[c].author /\ (T[c].marker # NoNote => T[c].author = "me")
    /\ ~P[c].bared => T[c].marker = P[c].from
ItsOwn(P, i, c) == c \in DOMAIN P /\ P[c].author = "me" /\ (P[c].from = i \/ P[c].bared)
Addressed(P, N) == \A i \in NoteId : N[i] # Absent /\ N[i].upstream # NoComment => ItsOwn(P, i, N[i].upstream)
Named(P, sent) == \A i \in NoteId : sent[i] # NoComment => ItsOwn(P, i, sent[i])
\* The note an edit is made for.
EditIsOwn(P, d) ==
  d.kind = "edit" =>
    /\ P[d.target].author = "me"
    /\ ~P[d.target].bared => d.linked \in {P[d.target].from, NoNote}

Origin ==
  /\ \A c \in DOMAIN posted : Sound(posted[c])
  /\ Copied(posted, cache) /\ Copied(posted, savedCache) /\ Copied(posted, call.fetched)
  /\ Addressed(posted, note) /\ Addressed(posted, savedNote)
  /\ Named(posted, call.sent) /\ EditIsOwn(posted, call)

LEMMA CopiedGrows ==
  ASSUME Grows, NEW T, Copied(posted, T)
  PROVE  Copied(posted', T)
BY DEF Grows, Copied

LEMMA AddressedGrows ==
  ASSUME Grows, NEW N, Addressed(posted, N)
  PROVE  Addressed(posted', N)
BY DEF Grows, Addressed, ItsOwn

LEMMA NamedGrows ==
  ASSUME Grows, NEW sent, Named(posted, sent)
  PROVE  Named(posted', sent)
BY DEF Grows, Named, ItsOwn

LEMMA EditGrows ==
  ASSUME Grows, NEW d, EditIsOwn(posted, d), d.kind = "edit" => d.target \in DOMAIN posted
  PROVE  EditIsOwn(posted', d)
BY DEF Grows, EditIsOwn

LEMMA EmptyIsCopied == \A P : Copied(P, NoThreads)
BY EmptyFetch DEF Copied

LEMMA NoNotesAddressed == \A P : Addressed(P, NoNotes) /\ Named(P, NoCall.sent)
BY NoCallType DEF Addressed, Named, NoNotes, NoComment

\* A worker's step leaves every comment sound.
LEMMA WorkerSound ==
  ASSUME Types, Worker, Origin
  PROVE  \A c \in DOMAIN posted' : Sound(posted'[c])
<1>0. posted \in Seq(Comment) /\ \A c \in DOMAIN posted : Sound(posted[c])
  BY DEF Types, ForgeTypes, Origin
<1>1. CASE UNCHANGED posted
  BY <1>0, <1>1
<1>2. ASSUME NEW new \in Seq(Comment), posted' = posted \o new, \A k \in 1 .. Len(new) : Newly(new[k])
      PROVE  \A c \in DOMAIN posted' : Sound(posted'[c])
  <2>1. \A k \in 1 .. Len(new) : Sound(new[k])
    BY <1>2 DEF Newly, Sound
  <2>2. /\ \A c \in DOMAIN posted : posted'[c] = posted[c]
        /\ \A c \in DOMAIN posted' :
              c \in DOMAIN posted \/ (\E k \in 1 .. Len(new) : c = Len(posted) + k)
        /\ \A k \in 1 .. Len(new) :
              Len(posted) + k \in DOMAIN posted' /\ posted'[Len(posted) + k] = new[k]
    BY <1>0, <1>2, Longer
  <2> QED BY <1>0, <2>1, <2>2
<1>3. CASE call.stage = "act" /\ posted' = [posted EXCEPT ![call.target] = ActedOn]
  <2>1. /\ ActedOn \in Comment /\ call.target \in DOMAIN posted
        /\ ActedOn.author = posted[call.target].author /\ ActedOn.from = posted[call.target].from
        /\ posted[call.target].bared => ActedOn.bared
        /\ call.kind = "edit" /\ call.linked = NoNote => ActedOn.bared
        /\ call.kind = "edit" => ActedOn.marker = call.linked
        /\ call.kind = "delete" => ActedOn.marker = posted[call.target].marker
        /\ call.kind = "delete" => ActedOn.bared = posted[call.target].bared
    BY <1>3, ActedType
  <2>2. call.kind \in {"edit", "delete"} /\ EditIsOwn(posted, call)
    BY <1>3 DEF Types, CallTypes, Origin
  <2>3. Sound(posted[call.target])
    BY <1>0, <2>1
  <2>4. Sound(ActedOn)
    <3>1. CASE call.kind = "edit"
      BY <2>1, <2>2, <2>3, <3>1 DEF Sound, EditIsOwn
    <3>2. CASE call.kind = "delete"
      BY <2>1, <2>3, <3>2 DEF Sound
    <3> QED BY <2>2, <3>1, <3>2
  <2>5. \A c \in DOMAIN posted' : c \in DOMAIN posted /\ posted'[c] = IF c = call.target THEN ActedOn ELSE posted[c]
    BY <1>0, <1>3, <2>1
  <2> QED BY <1>0, <2>4, <2>5
<1> QED BY <1>1, <1>2, <1>3, WorkerPosts

LEMMA LiveIsOwn ==
  ASSUME Types, Origin, NEW i \in NoteId, NEW c \in LiveOf(i)
  PROVE  ItsOwn(posted, i, c)
<1>1. c \in DOMAIN posted /\ posted[c].marker = i /\ i # NoNote
  BY PublishAssumption DEF LiveOf, Live
<1>2. Sound(posted[c])
  BY <1>1 DEF Origin
<1> QED BY <1>1, <1>2 DEF Sound, ItsOwn

LEMMA WorkerOrigin ==
  ASSUME Types, Origin, Worker
  PROVE  Origin'
<1>1. Grows /\ Kept(call') /\ UNCHANGED <<note, cache, savedNote, savedCache>>
  BY WorkerTypes DEF Worker, disk, session
<1>2. \A c \in DOMAIN posted' : Sound(posted'[c])
  BY WorkerSound
<1>3. call'.fetched \in {call.fetched, Threads} /\ \A i \in NoteId : Learns(i)
  BY WorkerLearns
<1>4. Copied(posted', call'.fetched)
  <2>1. CASE call'.fetched = call.fetched
    BY <1>1, <2>1, CopiedGrows DEF Origin
  <2>2. Copied(posted, Threads)
    <3>1. posted \in Seq(Comment)
      BY DEF Types, ForgeTypes
    <3>2. DOMAIN Threads \subseteq DOMAIN posted /\ \A c \in DOMAIN Threads : Threads[c] = posted[c]
      BY <3>1, ThreadsType DEF IsFetch
    <3>3. \A c \in DOMAIN posted : Sound(posted[c])
      BY DEF Origin
    <3> QED BY <3>2, <3>3 DEF Copied, Sound
  <2>3. Copied(posted', Threads)
    BY <1>1, <2>2, CopiedGrows
  <2> QED BY <1>3, <2>1, <2>3
<1>5. Named(posted', call'.sent)
  <2> SUFFICES ASSUME NEW i \in NoteId, call'.sent[i] # NoComment
               PROVE  ItsOwn(posted', i, call'.sent[i])
    BY DEF Named
  <2>1. CASE call'.sent[i] = call.sent[i]
    <3>1. Named(posted', call.sent)
      BY <1>1, NamedGrows DEF Origin
    <3> QED BY <2>1, <3>1 DEF Named
  <2>2. CASE call'.sent[i] \in LiveOf(i)
    <3>1. ItsOwn(posted, i, call'.sent[i])
      BY <2>2, LiveIsOwn
    <3> QED BY <1>1, <3>1 DEF Grows, ItsOwn
  <2>3. CASE call'.sent[i] \in DOMAIN posted' /\ posted'[call'.sent[i]].from = i
             /\ posted'[call'.sent[i]].author = "me"
    BY <2>3 DEF ItsOwn
  <2> QED BY <1>3, <2>1, <2>2, <2>3 DEF Learns
<1>6. EditIsOwn(posted', call')
  <2>1. EditIsOwn(posted', call)
    BY <1>1, EditGrows DEF Origin, Types, CallTypes
  <2> QED BY <1>1, <2>1 DEF EditIsOwn, Kept
<1>7. Copied(posted', cache') /\ Copied(posted', savedCache') /\ Addressed(posted', note')
      /\ Addressed(posted', savedNote')
  BY <1>1, CopiedGrows, AddressedGrows DEF Origin
<1> QED BY <1>2, <1>4, <1>5, <1>6, <1>7 DEF Origin

\* The forge stands still, and the call is over.
LEMMA EndOrigin ==
  ASSUME Origin, UNCHANGED forge, call' = NoCall,
         Copied(posted, cache'), Copied(posted, savedCache'),
         Addressed(posted, note'), Addressed(posted, savedNote')
  PROVE  Origin'
<1>1. posted' = posted
  BY DEF forge
<1>2. Copied(posted, call'.fetched) /\ Named(posted, call'.sent) /\ EditIsOwn(posted, call')
  BY EmptyIsCopied, NoNotesAddressed, NoCallType DEF EditIsOwn
<1> QED BY <1>1, <1>2 DEF Origin

LEMMA MarkedAddressed ==
  ASSUME Types, Origin, NEW marked \in Notes, Marks(marked)
  PROVE  Addressed(posted, marked)
<1> SUFFICES ASSUME NEW i \in NoteId, marked[i] # Absent, marked[i].upstream # NoComment
             PROVE  ItsOwn(posted, i, marked[i].upstream)
  BY DEF Addressed
<1>1. CASE marked[i] = note[i]
  BY <1>1 DEF Origin, Addressed
<1>2. CASE note[i] # Absent /\ call.sent[i] # NoComment /\ marked[i] = [note[i] EXCEPT !.upstream = call.sent[i]]
  <2>1. note[i] \in Note
    BY <1>2 DEF Types, RecordTypes, Notes
  <2>2. marked[i].upstream = call.sent[i]
    BY <1>2, <2>1 DEF Note
  <2> QED BY <1>2, <2>2 DEF Origin, Named
<1> QED BY <1>1, <1>2 DEF Marks

LEMMA HealedAddressed ==
  ASSUME Types, Origin, NEW marked \in Notes, Addressed(posted, marked), NEW healed \in Notes,
         Addresses(marked, healed)
  PROVE  Addressed(posted, healed)
<1> SUFFICES ASSUME NEW i \in NoteId, healed[i] # Absent, healed[i].upstream # NoComment
             PROVE  ItsOwn(posted, i, healed[i].upstream)
  BY DEF Addressed
<1>1. CASE healed[i] = marked[i]
  BY <1>1 DEF Addressed
<1>2. ASSUME i \in Unsent(marked), NEW c \in DOMAIN call.fetched, healed[i] = [marked[i] EXCEPT !.upstream = c],
             call.fetched[c].marker = i \/ (call.fetched[c].marker = NoNote /\ call.fetched[c].author = "me")
      PROVE  ItsOwn(posted, i, healed[i].upstream)
  <2>1. marked[i] \in Note
    BY <1>2 DEF Unsent, Ids, Notes
  <2>2. healed[i].upstream = c
    BY <1>2, <2>1 DEF Note
  <2>3. Copied(posted, call.fetched) /\ NoNote \notin NoteId
    BY PublishAssumption DEF Origin
  <2>4. c \in DOMAIN posted /\ call.fetched[c].author = posted[c].author
        /\ (call.fetched[c].marker # NoNote => call.fetched[c].author = "me")
        /\ (~posted[c].bared => call.fetched[c].marker = posted[c].from)
    BY <2>3 DEF Copied
  <2>5. ~posted[c].bared => posted[c].from \in NoteId
    BY <2>4 DEF Origin, Sound
  <2> QED BY <1>2, <2>2, <2>3, <2>4, <2>5 DEF ItsOwn
<1> QED BY <1>1, <1>2 DEF Addresses

LEMMA RelabelledCopied ==
  ASSUME Types, Origin, NEW cached, Relabels(cached)
  PROVE  Copied(posted, cached)
<1> SUFFICES ASSUME NEW c \in DOMAIN cached
             PROVE  /\ c \in DOMAIN posted /\ cached[c].author = posted[c].author
                    /\ (cached[c].marker # NoNote => cached[c].author = "me")
                    /\ ~posted[c].bared => cached[c].marker = posted[c].from
  BY DEF Copied
<1>1. c \in DOMAIN call.fetched /\ Copied(posted, call.fetched) /\ call.fetched[c] \in Comment
  BY DEF Relabels, Origin, Types, CallTypes, IsFetch, Fetches
<1>2. /\ c \in DOMAIN posted /\ call.fetched[c].author = posted[c].author
      /\ (call.fetched[c].marker # NoNote => call.fetched[c].author = "me")
      /\ (~posted[c].bared => call.fetched[c].marker = posted[c].from)
  BY <1>1 DEF Copied
<1>3. CASE cached[c] = call.fetched[c]
  BY <1>2, <1>3
<1>4. ASSUME call.fetched[c].marker = NoNote, call.fetched[c].author = "me",
             NEW i \in NoteId, cached[c] = [call.fetched[c] EXCEPT !.marker = i]
      PROVE  /\ cached[c].author = posted[c].author
             /\ (cached[c].marker # NoNote => cached[c].author = "me")
             /\ ~posted[c].bared => cached[c].marker = posted[c].from
  <2>1. cached[c].author = "me"
    BY <1>1, <1>4 DEF Comment
  <2>2. posted[c].bared
    BY <1>2, <1>4, PublishAssumption DEF Origin, Sound
  <2> QED BY <1>2, <1>4, <2>1, <2>2
<1> QED BY <1>2, <1>3, <1>4 DEF Relabels

LEMMA RecordThreadsOrigin ==
  ASSUME Types, Origin, RecordThreads
  PROVE  Origin'
<1>1. PICK marked, healed, cached : \E m, t, h \in BOOLEAN : Saved(marked, healed, cached, m, t, h)
  BY RecordThreadsSaves
<1>2. /\ marked \in Notes /\ healed \in Notes
      /\ Marks(marked) /\ Addresses(marked, healed) /\ (Relabels(cached) \/ cached = cache)
      /\ note' \in {healed, marked}
      /\ cache' \in {cached, cache} /\ savedCache' \in {cached, savedCache}
      /\ savedNote' \in {healed, marked, savedNote}
      /\ call' = NoCall /\ UNCHANGED forge
  BY <1>1 DEF Saved, CallIsOver
<1>3. Addressed(posted, marked) /\ Addressed(posted, healed)
  BY <1>2, MarkedAddressed, HealedAddressed
<1>4. Copied(posted, cached) /\ Copied(posted, cache) /\ Copied(posted, savedCache) /\ Addressed(posted, savedNote)
  BY <1>2, RelabelledCopied DEF Origin
<1> QED BY <1>2, <1>3, <1>4, EndOrigin

LEMMA RecordEditOrigin ==
  ASSUME Types, Origin, RecordEdit
  PROVE  Origin'
<1>1. EditSaves /\ call.kind = "edit" /\ call.text \in Body
  BY RecordEditSaves DEF Types, CallTypes
<1>2. Copied(posted, cache) /\ Copied(posted, savedCache) /\ Addressed(posted, note) /\ Addressed(posted, savedNote)
  BY DEF Origin
<1>3. ASSUME call.target \in DOMAIN cache PROVE Copied(posted, Rewritten)
  <2>1. cache \in [DOMAIN cache -> Comment]
    BY DEF Types, RecordTypes, IsFetch, Fetches
  <2>2. ASSUME NEW c \in DOMAIN cache
        PROVE  Rewritten[c].author = cache[c].author /\ Rewritten[c].marker = cache[c].marker
    <3>1. cache[c] \in Comment
      BY <2>1
    <3>2. Rewritten[c] = IF c = call.target THEN [cache[c] EXCEPT !.body = call.text] ELSE cache[c]
      BY DEF Rewritten
    <3> QED BY <3>1, <3>2 DEF Comment
  <2>3. DOMAIN Rewritten = DOMAIN cache
    BY DEF Rewritten
  <2> QED BY <1>2, <2>2, <2>3 DEF Copied
<1>4. Copied(posted, cache') /\ Copied(posted, savedCache')
  BY <1>1, <1>2, <1>3 DEF EditSaves
<1>5. Addressed(posted, note') /\ Addressed(posted, savedNote')
  <2>1. ASSUME NEW i \in NoteId, note[i] # Absent PROVE Addressed(posted, Edited(i))
    BY <1>1, <1>2, <2>1, EditedType DEF Edited, Addressed
  <2> QED BY <1>1, <1>2, <2>1 DEF EditSaves
<1> QED BY <1>1, <1>4, <1>5, EndOrigin DEF EditSaves

LEMMA ClearedAddressed ==
  ASSUME NEW P, NEW N, NEW G, Addressed(P, N)
  PROVE  Addressed(P, [i \in NoteId |-> IF i \in G THEN Absent ELSE N[i]])
BY DEF Addressed

LEMMA RecordDeleteOrigin ==
  ASSUME Types, Origin, RecordDelete
  PROVE  Origin'
<1>1. DeleteSaves
  BY RecordDeleteSaves
<1>2. Copied(posted, cache) /\ Copied(posted, savedCache) /\ Addressed(posted, note) /\ Addressed(posted, savedNote)
  BY DEF Origin
<1>3. Copied(posted, cache') /\ Copied(posted, savedCache')
  BY <1>1, <1>2 DEF DeleteSaves, Copied
<1>4. Addressed(posted, note') /\ Addressed(posted, savedNote')
  BY <1>1, <1>2, ClearedAddressed DEF DeleteSaves
<1> QED BY <1>1, <1>3, <1>4, EndOrigin DEF DeleteSaves

LEMMA RecordOrigin ==
  ASSUME Types, Origin, Record
  PROVE  Origin'
<1>1. CASE RecordError
  BY <1>1, EndOrigin DEF RecordError, CallIsOver, disk, Origin
<1> QED BY <1>1, RecordThreadsOrigin, RecordEditOrigin, RecordDeleteOrigin DEF Record

\* A call begins: the comment it is to rewrite is the reader's.
LEMMA StartEditOwn ==
  ASSUME Types, Origin, NEW c \in DOMAIN posted, NEW b, StartEdit(c, b)
  PROVE  EditIsOwn(posted, call')
<1>0. Copied(posted, cache) /\ Addressed(posted, note) /\ NoNote \notin NoteId /\ c \in Nat /\ c # 0
  BY PublishAssumption DEF Origin, Types, ForgeTypes
<1>1. PICK i \in LinkedTo(c) :
        call' = [NoCall EXCEPT !.kind = "edit", !.stage = "act", !.target = c, !.text = b, !.linked = i]
  BY DEF StartEdit, Begin
<1>2. call'.target = c /\ call'.linked = i
  BY <1>1, NoCallType DEF Calls
<1>3. ASSUME NEW j \in NoteId, Links(note, cache, j, c)
      PROVE  ItsOwn(posted, j, c)
  <2>1. CASE note[j] # Absent /\ note[j].upstream = c
    BY <1>0, <2>1 DEF Addressed, NoComment
  <2>2. CASE c \in DOMAIN cache /\ cache[c].marker = j
    BY <1>0, <2>2 DEF Copied, ItsOwn
  <2> QED BY <1>3, <2>1, <2>2 DEF Links
<1>4. posted[c].author = "me"
  <2>1. Own(note, cache, me, c)
    BY DEF StartEdit
  <2>2. CASE c \in DOMAIN cache /\ cache[c].author = "me"
    BY <1>0, <2>2 DEF Copied
  <2> QED BY <1>3, <2>1, <2>2 DEF Own, ItsOwn
<1>5. ~posted[c].bared => i \in {posted[c].from, NoNote}
  <2>1. CASE i = NoNote
    BY <2>1
  <2>2. CASE i \in NoteId /\ Links(note, cache, i, c)
    BY <1>3, <2>2 DEF ItsOwn
  <2> QED BY <1>1, <2>1, <2>2 DEF LinkedTo
<1> QED BY <1>2, <1>4, <1>5 DEF EditIsOwn

\* The forge stands still and the notes keep their addresses.
LEMMA ReaderLeaves ==
  ASSUME Types, Origin, Reader
  PROVE  /\ UNCHANGED forge /\ Copied(posted, cache') /\ Copied(posted, savedCache')
         /\ Addressed(posted, note') /\ Addressed(posted, savedNote')
<1>0. Copied(posted, cache) /\ Copied(posted, savedCache) /\ Addressed(posted, note) /\ Addressed(posted, savedNote)
      /\ note \in Notes
  BY DEF Origin, Types, RecordTypes
<1>1. CASE OpenReview \/ PostFromCli \/ StartFetch \/ StartPublish \/ OpenList \/ CloseList
           \/ \E c \in DOMAIN posted : StartDelete(c) \/ \E b \in Spoken : StartEdit(c, b)
  <2>1. UNCHANGED <<forge, disk>> /\ note' \in {note, savedNote} /\ cache' \in {cache, savedCache}
    BY <1>1 DEF OpenReview, PostFromCli, StartFetch, StartPublish, OpenList, CloseList, StartDelete, StartEdit,
                Begin, session
  <2> QED BY <1>0, <2>1 DEF disk
<1>2. CASE ClearNotes \/ \E i \in NoteId : DeleteNote(i) \/ DeleteListed(i)
  <2>1. PICK G \in SUBSET NoteId : SetNotes(Without(G))
    BY <1>2, RemovalsRemove
  <2>2. UNCHANGED <<forge, savedCache, cache>>
    BY <1>2, RemovalsRemove
  <2>3. Addressed(posted, Without(G))
    BY <1>0, ClearedAddressed DEF Without
  <2> QED BY <1>0, <2>1, <2>2, <2>3 DEF SetNotes
<1>3. ASSUME NEW i \in NoteId, NEW b \in world.words[i],
             EditNote(i, b) \/ \E t \in {NoComment} \cup DOMAIN cache : AddNote(i, b, t)
      PROVE  /\ UNCHANGED forge /\ Copied(posted, cache') /\ Copied(posted, savedCache')
             /\ Addressed(posted, note') /\ Addressed(posted, savedNote')
  <2>1. b \in Body
    BY PublishAssumption DEF Types, ForgeTypes
  <2>2. CASE EditNote(i, b)
    <3>1. note[i] # Absent
      BY <2>2 DEF EditNote, Unsent, Ids
    <3>2. Addressed(posted, [note EXCEPT ![i].body = b])
      BY <1>0, <2>1, <3>1, EditedType DEF Addressed
    <3>3. SetNotes([note EXCEPT ![i].body = b]) /\ UNCHANGED <<forge, cache, savedCache>>
      BY <2>2 DEF EditNote
    <3> QED BY <1>0, <3>2, <3>3 DEF SetNotes
  <2>3. ASSUME NEW t, AddNote(i, b, t)
        PROVE  /\ UNCHANGED forge /\ Copied(posted, cache') /\ Copied(posted, savedCache')
               /\ Addressed(posted, note') /\ Addressed(posted, savedNote')
    <3> DEFINE N == [note EXCEPT ![i] = [body |-> b, reply_to |-> t, upstream |-> NoComment]]
    <3>1. SetNotes(N) /\ UNCHANGED <<forge, cache, savedCache>>
      BY <2>3 DEF AddNote
    <3>2. Addressed(posted, N)
      BY <1>0 DEF Addressed, Notes
    <3> HIDE DEF N
    <3> QED BY <1>0, <3>1, <3>2 DEF SetNotes
  <2> QED BY <1>3, <2>2, <2>3
<1> QED BY <1>1, <1>2, <1>3 DEF Reader

\* A call that begins knows nothing yet.
LEMMA ReaderCalls ==
  ASSUME Types, Origin, Reader
  PROVE  Copied(posted, call'.fetched) /\ Named(posted, call'.sent) /\ EditIsOwn(posted, call')
<1>0. posted \in Seq(Comment) /\ note \in Notes /\ savedNote \in Notes /\ IsFetch(cache) /\ IsFetch(savedCache)
      /\ kind \in {"github", "gitlab"}
  BY DEF Types, RecordTypes, ForgeTypes
<1>1. CASE UNCHANGED call
  BY <1>1 DEF Origin
<1>2. ASSUME call'.fetched = NoThreads, call'.sent = NoCall.sent, EditIsOwn(posted, call')
      PROVE  Copied(posted, call'.fetched) /\ Named(posted, call'.sent) /\ EditIsOwn(posted, call')
  BY <1>2, EmptyIsCopied, NoNotesAddressed
<1>3. ASSUME NEW c \in DOMAIN posted, StartDelete(c)
      PROVE  Copied(posted, call'.fetched) /\ Named(posted, call'.sent) /\ EditIsOwn(posted, call')
  <2>1. call' = [NoCall EXCEPT !.kind = "delete", !.stage = "act", !.target = c]
    BY <1>3 DEF StartDelete, Begin
  <2>2. call'.kind = "delete" /\ Single(call')
    BY <1>0, <2>1, SinglesAre, NoCallType DEF Calls
  <2> QED BY <1>2, <2>2 DEF Single, EditIsOwn
<1>4. ASSUME NEW c \in DOMAIN posted, NEW b \in Spoken, StartEdit(c, b)
      PROVE  Copied(posted, call'.fetched) /\ Named(posted, call'.sent) /\ EditIsOwn(posted, call')
  <2>1. PICK i \in LinkedTo(c) :
          call' = [NoCall EXCEPT !.kind = "edit", !.stage = "act", !.target = c, !.text = b, !.linked = i]
    BY <1>4 DEF StartEdit, Begin
  <2>2. b \in Body /\ i \in NoteId \cup {NoNote}
    BY PublishAssumption DEF Spoken, LinkedTo, Types, ForgeTypes
  <2>3. Single(call')
    BY <1>0, <2>1, <2>2, SinglesAre
  <2>4. EditIsOwn(posted, call')
    BY <1>4, StartEditOwn
  <2> QED BY <1>2, <2>3, <2>4 DEF Single
<1>5. CASE OpenReview \/ StartFetch
  <2>1. call' = [NoCall EXCEPT !.kind = "fetch", !.stage = "refetch"]
    BY <1>5 DEF OpenReview, StartFetch, Begin
  <2>2. call'.kind = "fetch" /\ Single(call')
    BY <1>0, <2>1, SinglesAre, NoCallType DEF Calls
  <2> QED BY <1>2, <2>2 DEF Single, EditIsOwn
<1>6. CASE PostFromCli \/ StartPublish
  <2>1. call' = Publishing(savedNote, savedCache) \/ call' = Publishing(note, cache)
    BY <1>6 DEF PostFromCli, StartPublish, Begin
  <2>2. call'.kind = "publish" /\ call'.fetched = NoThreads /\ call'.sent = NoCall.sent
    BY <1>0, <2>1, PublishingTypes
  <2> QED BY <1>2, <2>2 DEF EditIsOwn
<1>7. CASE OpenList \/ CloseList \/ ClearNotes
  BY <1>1, <1>7 DEF OpenList, CloseList, ClearNotes
<1>8. ASSUME NEW i \in NoteId,
             \/ DeleteNote(i) \/ DeleteListed(i)
             \/ \E b \in world.words[i] : EditNote(i, b) \/ \E t \in {NoComment} \cup DOMAIN cache : AddNote(i, b, t)
      PROVE  UNCHANGED call
  BY <1>8 DEF DeleteNote, DeleteListed, EditNote, AddNote
<1> QED BY <1>1, <1>3, <1>4, <1>5, <1>6, <1>7, <1>8 DEF Reader

LEMMA OutsideOrigin ==
  ASSUME Types, Origin, Outside
  PROVE  Origin'
<1>1. Grows /\ UNCHANGED <<note, cache, savedNote, savedCache, call>>
  BY OutsideTypes DEF Outside, WebDelete, WebComment, disk, session
<1>2. \A c \in DOMAIN posted : Sound(posted[c])
  BY DEF Origin
<1>3. posted \in Seq(Comment)
  BY DEF Types, ForgeTypes
<1>4. \A c \in DOMAIN posted' : Sound(posted'[c])
  <2>1. ASSUME NEW c \in DOMAIN posted, WebDelete(c)
        PROVE  \A d \in DOMAIN posted' : Sound(posted'[d])
    <3>1. \A d \in DOMAIN posted' : d \in DOMAIN posted /\ posted'[d] = IF d = c THEN [posted[d] EXCEPT !.live = FALSE] ELSE posted[d]
      BY <1>3, <2>1 DEF WebDelete
    <3>2. posted[c] \in Comment /\ Sound(posted[c])
      BY <1>2, <1>3
    <3>3. Sound([posted[c] EXCEPT !.live = FALSE])
      BY <3>2 DEF Comment, Sound
    <3> QED BY <1>2, <3>1, <3>3
  <2>2. ASSUME NEW b \in Body, NEW p \in Place, WebComment(b, p)
        PROVE  \A d \in DOMAIN posted' : Sound(posted'[d])
    <3> DEFINE x == [thread |-> Len(posted) + 1, place |-> p, author |-> "me", marker |-> NoNote, body |-> b,
                     live |-> TRUE, from |-> NoNote, bared |-> TRUE]
    <3>1. x \in Comment /\ Sound(x)
      <4>1. Len(posted) + 1 \in Id
        BY <1>3 DEF Id
      <4> QED BY <4>1 DEF Comment, Sound
    <3>2. posted' = Append(posted, x)
      BY <2>2 DEF WebComment
    <3> HIDE DEF x
    <3>3. \A d \in DOMAIN posted : posted'[d] = posted[d]
      BY <1>3, <3>1, <3>2, OneMore
    <3>4. DOMAIN posted' = DOMAIN posted \cup {Len(posted) + 1} /\ posted'[Len(posted) + 1] = x
      BY <1>3, <3>1, <3>2, OneMore
    <3> QED BY <1>2, <3>1, <3>3, <3>4
  <2> QED BY <2>1, <2>2 DEF Outside
<1>5. Copied(posted', cache') /\ Copied(posted', savedCache') /\ Addressed(posted', note')
      /\ Addressed(posted', savedNote') /\ Copied(posted', call'.fetched) /\ Named(posted', call'.sent)
  BY <1>1, CopiedGrows, AddressedGrows, NamedGrows DEF Origin
<1>6. EditIsOwn(posted', call')
  <2>1. EditIsOwn(posted', call)
    BY <1>1, EditGrows DEF Origin, Types, CallTypes
  <2> QED BY <1>1, <2>1
<1> QED BY <1>4, <1>5, <1>6 DEF Origin

LEMMA NextOrigin ==
  ASSUME Types, Origin, [Next]_vars
  PROVE  Origin'
<1>1. CASE UNCHANGED vars
  BY <1>1 DEF vars, forge, disk, session, Origin
<1>2. CASE Reader
  <2>1. posted' = posted
    BY <1>2, ReaderLeaves DEF forge
  <2> QED BY <1>2, <2>1, ReaderLeaves, ReaderCalls DEF Origin
<1>3. CASE Quit
  BY <1>3, EndOrigin, EmptyIsCopied, NoNotesAddressed DEF Quit, disk, Origin
<1> QED BY <1>1, <1>2, <1>3, WorkerOrigin, RecordOrigin, OutsideOrigin DEF Next

LEMMA InitOrigin == Init => Origin
<1> SUFFICES ASSUME Init PROVE Origin
  OBVIOUS
<1>1. \A c \in DOMAIN posted : Sound(posted[c])
  BY PublishAssumption DEF Init, Sound
<1>2. EditIsOwn(posted, call) /\ call.fetched = NoThreads /\ call.sent = NoCall.sent
  BY NoCallType DEF Init, EditIsOwn
<1> QED BY <1>1, <1>2, EmptyIsCopied, NoNotesAddressed DEF Init, Origin

\* Whatever is sent, refused, lost, recorded or deleted, the request, the records
\* and the call in flight are well-formed, and a call knows of each note no more
\* than its stage allows.
THEOREM PublishKeepsTypes == Spec => []Types
<1>1. Init => Types
  BY InitTypes
<1>2. Types /\ [Next]_vars => Types'
  BY NextTypes
<1> QED BY <1>1, <1>2, PTL DEF Spec

\* No record ever has somebody else's comment for its address, nor one that has
\* always been another note's (`match_published`, `set_threads`, `heal_by_author`,
\* `edit_comment`).
THEOREM EveryAddressIsItsOwn == Spec => []AddressIsItsOwn
<1>1. Origin => AddressIsItsOwn
  BY DEF Origin, Addressed, ItsOwn, AddressIsItsOwn, Ids
<1>2. Types /\ Origin /\ [Next]_vars => Origin'
  BY NextOrigin
<1>3. Init => Origin
  BY InitOrigin
<1> QED BY <1>1, <1>2, <1>3, PublishKeepsTypes, PTL DEF Spec

----------------------------------------------------------------------------
(* How often a note is on the request *)

SentAs(i) == {c \in DOMAIN posted : posted[c].live /\ posted[c].from = i}
DraftedAs(i) == {k \in DOMAIN drafts : drafts[k].marker = i}
On(i) == SentAs(i) # {} \/ DraftedAs(i) # {}
Once(i) ==
  /\ \A c, d \in SentAs(i) : c = d
  /\ \A k, l \in DraftedAs(i) : k = l
  /\ SentAs(i) = {} \/ DraftedAs(i) = {}
Fresh(i) == i \in doubtful \/ ~On(i)
Settled(N, i) == N[i] = Absent \/ N[i].upstream # NoComment

\* What the call has still to send is not on the request.
Waiting ==
  /\ call.stage \in {"send", "list"} => kind = "github"
  /\ call.stage \in {"head", "send"} => \A i \in Batch : Fresh(i)
  /\ call.stage = "list" => \A i \in call.replies : Fresh(i)
  /\ call.stage = "replies" => \A i \in call.replies : call.sent[i] = NoComment => Fresh(i)
  /\ call.stage = "replies" /\ kind = "gitlab" => \A i \in call.comments : Fresh(i)
  /\ call.stage = "drafts" => \A i \in call.comments \ call.drafted : Fresh(i)

\* A note on the request once is one the records know of, or the call's.
Known ==
  /\ \A i \in NoteId \ doubtful : Once(i)
  /\ \A i \in NoteId \ (doubtful \cup Batch) : On(i) => Settled(note, i) /\ Settled(savedNote, i)
  /\ \A i \in Batch \ doubtful : \A c \in SentAs(i) : posted[c].marker = i
  /\ \A i \in NoteId : On(i) => i \in used
\* The notes in memory and the stored ones.
Linked ==
  /\ \A i \in Batch : note[i] = Absent \/ note[i].upstream = NoComment
  /\ \A i \in NoteId : open # "no" /\ ~Settled(note, i) => ~Settled(savedNote, i)
  /\ \A i \in Batch : note[i] = Absent => savedNote[i] = Absent
  /\ open = "no" => call = NoCall
Count == Known /\ Linked /\ Waiting

\* A step that puts nothing up of note i.
Quiet(i) == SentAs(i)' \subseteq SentAs(i) /\ DraftedAs(i)' \subseteq DraftedAs(i)

LEMMA QuietKeeps ==
  ASSUME NEW i \in NoteId, Quiet(i)
  PROVE  (Once(i) => Once(i)') /\ (On(i)' => On(i)) /\ (~On(i) => ~On(i)')
<1>1. PICK S, D, S1, D1 : S = SentAs(i) /\ D = DraftedAs(i) /\ S1 = SentAs(i)' /\ D1 = DraftedAs(i)'
  OBVIOUS
<1>2. S1 \subseteq S /\ D1 \subseteq D
  BY <1>1 DEF Quiet
<1> QED BY <1>1, <1>2 DEF Once, On

LEMMA ActIsQuiet ==
  ASSUME Types, call.stage = "act", posted' = [posted EXCEPT ![call.target] = ActedOn], UNCHANGED drafts,
         NEW i \in NoteId
  PROVE  Quiet(i) /\ \A c \in SentAs(i)' : posted'[c].from = i
<1>1. ActedOn.from = posted[call.target].from /\ (ActedOn.live => posted[call.target].live)
      /\ call.target \in DOMAIN posted
  BY ActedType
<1>2. \A c \in DOMAIN posted' : c \in DOMAIN posted /\ posted'[c] = IF c = call.target THEN ActedOn ELSE posted[c]
  BY <1>1 DEF Types, ForgeTypes
<1> QED BY <1>1, <1>2 DEF Quiet, SentAs, DraftedAs

LEMMA StillIsQuiet ==
  ASSUME UNCHANGED <<posted, drafts>>, NEW i \in NoteId
  PROVE  Quiet(i)
BY DEF Quiet, SentAs, DraftedAs

\* A note of which the step puts up one comment.
LEMMA AddedOnce ==
  ASSUME posted \in Seq(Comment), NEW new \in Seq(Comment), posted' = posted \o new,
         \A k, l \in 1 .. Len(new) : new[k].from = new[l].from => k = l,
         UNCHANGED drafts, NEW i \in NoteId
  PROVE  /\ ~On(i) => Once(i)'
         /\ (\A k \in 1 .. Len(new) : new[k].from # i) => Quiet(i)
         /\ \A c \in SentAs(i)' :
              \/ c \in SentAs(i) /\ posted'[c] = posted[c]
              \/ \E k \in 1 .. Len(new) : posted'[c] = new[k] /\ new[k].from = i
<1>1. /\ \A c \in DOMAIN posted : posted'[c] = posted[c]
      /\ \A c \in DOMAIN posted' :
              c \in DOMAIN posted \/ (\E k \in 1 .. Len(new) : c = Len(posted) + k)
      /\ \A k \in 1 .. Len(new) :
              Len(posted) + k \in DOMAIN posted' /\ posted'[Len(posted) + k] = new[k]
  BY Longer
<1>2. ASSUME NEW c \in SentAs(i)'
      PROVE  \/ c \in SentAs(i) /\ posted'[c] = posted[c]
             \/ \E k \in 1 .. Len(new) : c = Len(posted) + k /\ posted'[c] = new[k] /\ new[k].from = i
  BY <1>1, <1>2 DEF SentAs
<1>3. ASSUME ~On(i) PROVE Once(i)'
  <2>1. ASSUME NEW c \in SentAs(i)', NEW d \in SentAs(i)' PROVE c = d
    <3>1. SentAs(i) = {}
      BY <1>3 DEF On
    <3>2. PICK k \in 1 .. Len(new) : c = Len(posted) + k /\ new[k].from = i
      BY <1>2, <3>1
    <3>3. PICK l \in 1 .. Len(new) : d = Len(posted) + l /\ new[l].from = i
      BY <1>2, <3>1
    <3> QED BY <3>2, <3>3
  <2>2. DraftedAs(i)' = {}
    BY <1>3 DEF On, DraftedAs
  <2> QED BY <2>1, <2>2 DEF Once
<1>4. (\A k \in 1 .. Len(new) : new[k].from # i) => Quiet(i)
  <2>1. DraftedAs(i)' = DraftedAs(i)
    BY DEF DraftedAs
  <2> QED BY <1>2, <2>1 DEF Quiet
<1> QED BY <1>2, <1>3, <1>4

LEMMA ReplyOnce ==
  ASSUME posted \in Seq(Comment), NEW x \in Comment, posted' = Append(posted, x), UNCHANGED drafts,
         NEW i \in NoteId
  PROVE  /\ ~On(i) => Once(i)'
         /\ x.from # i => Quiet(i)
         /\ \A c \in SentAs(i)' :
              \/ c \in SentAs(i) /\ posted'[c] = posted[c]
              \/ posted'[c] = x /\ x.from = i
<1>0. <<x>> \in Seq(Comment)
  OBVIOUS
<1>1. PICK new \in Seq(Comment) : new = <<x>>
  BY <1>0
<1>2. posted' = posted \o new /\ Len(new) = 1 /\ new[1] = x
  BY <1>1
<1>3. \A k \in 1 .. Len(new) : new[k] = x /\ k = 1
  BY <1>2
<1>4. \A k, l \in 1 .. Len(new) : new[k].from = new[l].from => k = l
  BY <1>3
<1>5. 1 \in 1 .. Len(new)
  BY <1>2
<1>6. /\ ~On(i) => Once(i)'
      /\ (\A k \in 1 .. Len(new) : new[k].from # i) => Quiet(i)
      /\ \A c \in SentAs(i)' :
              \/ c \in SentAs(i) /\ posted'[c] = posted[c]
              \/ \E k \in 1 .. Len(new) : posted'[c] = new[k] /\ new[k].from = i
  BY <1>2, <1>4, AddedOnce
<1> QED BY <1>3, <1>6

LEMMA DraftOnce ==
  ASSUME drafts \in Seq(DraftNote), NEW d \in DraftNote, drafts' = Append(drafts, d), UNCHANGED posted,
         NEW i \in NoteId
  PROVE  (~On(i) => Once(i)') /\ (d.marker # i => Quiet(i))
<1>1. SentAs(i)' = SentAs(i)
  BY DEF SentAs
<1>2. DOMAIN drafts' = DOMAIN drafts \cup {Len(drafts) + 1} /\ drafts'[Len(drafts) + 1] = d
      /\ \A k \in DOMAIN drafts : drafts'[k] = drafts[k]
  OBVIOUS
<1>3. DraftedAs(i)' \subseteq DraftedAs(i) \cup (IF d.marker = i THEN {Len(drafts) + 1} ELSE {})
  BY <1>2 DEF DraftedAs
<1>4. ASSUME ~On(i) PROVE Once(i)'
  <2>1. SentAs(i)' = {} /\ DraftedAs(i) = {}
    BY <1>1, <1>4 DEF On
  <2>2. \A k, l \in DraftedAs(i)' : k = l
    BY <1>3, <2>1
  <2> QED BY <2>1, <2>2 DEF Once
<1>5. d.marker # i => Quiet(i)
  BY <1>1, <1>3 DEF Quiet
<1> QED BY <1>4, <1>5

\* One call puts up all the drafts, and none stays one.
LEMMA BulkOnce ==
  ASSUME posted \in Seq(Comment), drafts \in Seq(DraftNote), posted' = posted \o OfDrafts, drafts' = <<>>,
         NEW i \in NoteId
  PROVE  /\ Once(i) => Once(i)'
         /\ On(i)' => On(i)
         /\ \A c \in SentAs(i)' :
              \/ c \in SentAs(i) /\ posted'[c] = posted[c]
              \/ posted'[c].marker = i
<1>1. /\ OfDrafts \in Seq(Comment) /\ Len(OfDrafts) = Len(drafts)
      /\ \A k \in 1 .. Len(drafts) : OfDrafts[k].from = drafts[k].marker /\ OfDrafts[k].marker = drafts[k].marker
  BY OfDraftsType
<1>2. /\ \A c \in DOMAIN posted : posted'[c] = posted[c]
      /\ \A c \in DOMAIN posted' :
              c \in DOMAIN posted \/ (\E k \in 1 .. Len(OfDrafts) : c = Len(posted) + k)
      /\ \A k \in 1 .. Len(OfDrafts) :
              Len(posted) + k \in DOMAIN posted' /\ posted'[Len(posted) + k] = OfDrafts[k]
  BY <1>1, Longer
<1>3. ASSUME NEW c \in SentAs(i)'
      PROVE  \/ c \in SentAs(i) /\ posted'[c] = posted[c]
             \/ \E k \in DraftedAs(i) : c = Len(posted) + k /\ posted'[c].marker = i
  <2>1. CASE c \in DOMAIN posted
    BY <1>2, <1>3, <2>1 DEF SentAs
  <2>2. ASSUME NEW k \in 1 .. Len(drafts), c = Len(posted) + k
        PROVE  k \in DraftedAs(i) /\ posted'[c].marker = i
    BY <1>1, <1>2, <1>3, <2>2 DEF SentAs, DraftedAs
  <2>3. c \in DOMAIN posted \/ \E k \in 1 .. Len(drafts) : c = Len(posted) + k
    BY <1>1, <1>2, <1>3 DEF SentAs
  <2> QED BY <2>1, <2>2, <2>3
<1>4. DraftedAs(i)' = {}
  BY DEF DraftedAs
<1>5. ASSUME Once(i) PROVE Once(i)'
  <2>1. \A c, d \in SentAs(i)' : c = d
    BY <1>3, <1>5 DEF Once
  <2> QED BY <1>4, <2>1 DEF Once
<1>6. On(i)' => On(i)
  BY <1>3, <1>4 DEF On
<1> QED BY <1>3, <1>5, <1>6

\* What a step of the worker does to note i's number on the request.
Counts(i) ==
  /\ On(i)' => On(i) \/ i \in Batch
  /\ i \notin doubtful /\ Once(i) => Once(i)'
  /\ i \in Batch => \A c \in SentAs(i)' :
       posted'[c].marker = i \/ (c \in SentAs(i) /\ posted'[c] = posted[c])

LEMMA StillCounts ==
  ASSUME UNCHANGED <<posted, drafts>>, NEW i \in NoteId
  PROVE  Quiet(i) /\ Counts(i)
<1>1. Quiet(i)
  BY StillIsQuiet
<1>2. \A c \in SentAs(i)' : c \in SentAs(i) /\ posted'[c] = posted[c]
  BY DEF SentAs
<1> QED BY <1>1, <1>2, QuietKeeps DEF Counts

LEMMA FreshKeeps ==
  ASSUME NEW i \in NoteId, Quiet(i), UNCHANGED doubtful, Fresh(i)
  PROVE  Fresh(i)'
BY QuietKeeps DEF Fresh

\* A stage in which nothing waits to be sent.
NothingWaits(s) == s \notin {"head", "send", "list", "replies", "drafts"}

LEMMA NothingWaitsStep ==
  ASSUME NothingWaits(call'.stage)
  PROVE  Waiting'
BY DEF NothingWaits, Waiting

LEMMA StopStage ==
  ASSUME call \in Calls, Stop \/ Fail
  PROVE  NothingWaits(call'.stage)
BY DEF Stop, Fail, StepTo, Calls, NothingWaits

LEMMA ApartSends ==
  ASSUME Types
  PROVE  call.comments \cap call.replies = {} /\ call.comments \subseteq NoteId /\ call.replies \subseteq NoteId
<1>1. \A i \in call.comments : call.batch[i].reply_to = NoComment
  BY DEF Types, CallTypes
<1>2. \A i \in call.replies : call.batch[i].reply_to # NoComment
  BY DEF Types, CallTypes
<1> QED BY <1>1, <1>2, BatchNotes

LEMMA CheckHeadCounts ==
  ASSUME Types, Waiting, CheckHead, UNCHANGED <<world, kind, disk, session, history>>
  PROVE  Waiting' /\ \A i \in NoteId : Counts(i)
<1>0. call \in Calls /\ call.stage = "head" /\ UNCHANGED <<posted, drafts, kind, doubtful>> /\ Kept(call')
      /\ kind \in {"github", "gitlab"} /\ Batch \subseteq NoteId
  BY CheckHeadTypes, ApartSends DEF CheckHead, Types, CallTypes, ForgeTypes, forge, history, Batch
<1>1. \A i \in NoteId : Quiet(i) /\ Counts(i)
  BY <1>0, StillCounts
<1>2. \A i \in Batch : Fresh(i)'
  BY <1>0, <1>1, FreshKeeps DEF Waiting
<1>3. CASE Fail
  BY <1>0, <1>1, <1>3, StopStage, NothingWaitsStep
<1>4. CASE ~Fail
  <2>1. PICK s : s = (IF kind = "github" /\ call.comments # {} THEN "send" ELSE ToReplies)
    OBVIOUS
  <2>2. call'.stage = s /\ call'.comments = call.comments /\ call'.replies = call.replies
    BY <1>0, <1>4, <2>1 DEF CheckHead, StepTo, Calls
  <2>3. Batch' = Batch /\ call.comments \subseteq Batch /\ call.replies \subseteq Batch
    BY <2>2 DEF Batch
  <2>4. s = "send" => kind = "github"
    BY <1>0, <2>1, AfterRepliesStage
  <2>5. s \in {"send", "threads", "refetch", "drafts", "replies"}
    BY <1>0, <2>1, AfterRepliesStage
  <2> QED BY <1>0, <1>1, <1>2, <2>2, <2>3, <2>4, <2>5 DEF Waiting
<1> QED BY <1>1, <1>3, <1>4

LEMMA SendReviewCounts ==
  ASSUME Types, Waiting, SendReview, UNCHANGED <<world, kind, disk, session, history>>
  PROVE  Waiting' /\ \A i \in NoteId : Counts(i)
<1>0. call \in Calls /\ call.stage = "send" /\ UNCHANGED <<drafts, kind, doubtful>> /\ Kept(call')
      /\ kind = "github" /\ posted \in Seq(Comment) /\ \A i \in Batch : Fresh(i)
  BY SendReviewTypes DEF SendReview, Types, CallTypes, ForgeTypes, history, Waiting
<1>1. CASE UNCHANGED posted
  <2>1. \A i \in NoteId : Quiet(i) /\ Counts(i)
    BY <1>0, <1>1, StillCounts
  <2>2. \A i \in Batch : Fresh(i)'
    BY <1>0, <2>1, FreshKeeps, ApartSends DEF Batch
  <2>3. CASE Fail
    BY <1>0, <2>1, <2>3, StopStage, NothingWaitsStep
  <2>4. CASE call' = [call EXCEPT !.stage = "list", !.base = Len(posted)]
    <3>1. call'.stage = "list" /\ call'.replies = call.replies
      BY <1>0, <2>4 DEF Calls
    <3> QED BY <1>0, <2>1, <2>2, <3>1 DEF Waiting, Batch
  <2> QED BY <2>3, <2>4 DEF SendReview
<1>2. CASE posted' = posted \o Posting(call.comments)
  <2> DEFINE new == Posting(call.comments)
  <2>1. /\ new \in Seq(Comment)
        /\ \A k \in 1 .. Len(new) : new[k].from \in call.comments /\ new[k].marker = new[k].from
        /\ \A k, l \in 1 .. Len(new) : new[k].from = new[l].from => k = l
    BY <1>0, BatchNotes, PostingType
  <2> HIDE DEF new
  <2>2. ASSUME NEW i \in NoteId
        PROVE  /\ ~On(i) => Once(i)'
               /\ (\A k \in 1 .. Len(new) : new[k].from # i) => Quiet(i)
               /\ \A c \in SentAs(i)' :
                    \/ c \in SentAs(i) /\ posted'[c] = posted[c]
                    \/ \E k \in 1 .. Len(new) : posted'[c] = new[k] /\ new[k].from = i
    <3>1. posted' = posted \o new
      BY <1>2 DEF new
    <3> QED BY <1>0, <2>1, <3>1, AddedOnce
  <2>3. ASSUME NEW i \in NoteId \ call.comments
        PROVE  Quiet(i) /\ Counts(i)
    <3>1. \A k \in 1 .. Len(new) : new[k].from # i
      BY <2>1
    <3> QED BY <2>2, <3>1, QuietKeeps DEF Counts
  <2>4. ASSUME NEW i \in call.comments, i \in NoteId
        PROVE  Counts(i)
    <3>1. i \in Batch /\ Fresh(i)
      BY <1>0 DEF Batch
    <3>0. /\ ~On(i) => Once(i)'
          /\ \A c \in SentAs(i)' :
                    \/ c \in SentAs(i) /\ posted'[c] = posted[c]
                    \/ \E k \in 1 .. Len(new) : posted'[c] = new[k] /\ new[k].from = i
      BY <2>2, <2>4
    <3>2. \A c \in SentAs(i)' : posted'[c].marker = i \/ (c \in SentAs(i) /\ posted'[c] = posted[c])
      BY <2>1, <3>0
    <3>3. i \notin doubtful => Once(i)'
      BY <3>0, <3>1 DEF Fresh
    <3> QED BY <3>1, <3>2, <3>3 DEF Counts
  <2>5. \A i \in NoteId : Counts(i)
    BY <2>3, <2>4
  <2>6. \A i \in call.replies : Fresh(i)'
    <3>1. \A i \in call.replies : i \in NoteId \ call.comments /\ Fresh(i)
      BY <1>0, ApartSends DEF Batch
    <3> QED BY <1>0, <2>3, <3>1, FreshKeeps
  <2>7. CASE Fail
    BY <1>0, <2>5, <2>7, StopStage, NothingWaitsStep
  <2>8. CASE call' = [call EXCEPT !.stage = "list", !.base = Len(posted)]
    <3>1. call'.stage = "list" /\ call'.replies = call.replies
      BY <1>0, <2>8 DEF Calls
    <3> QED BY <1>0, <2>5, <2>6, <3>1 DEF Waiting
  <2> QED BY <2>7, <2>8 DEF SendReview
<1> QED BY <1>1, <1>2 DEF SendReview

LEMMA ListReviewCounts ==
  ASSUME Types, Waiting, ListReview, UNCHANGED <<world, kind, disk, session, history>>
  PROVE  Waiting' /\ \A i \in NoteId : Counts(i)
<1>0. call \in Calls /\ call.stage = "list" /\ UNCHANGED <<posted, drafts, kind, doubtful>>
      /\ kind = "github" /\ (\A i \in call.replies : Fresh(i)) /\ call.replies \subseteq NoteId
  BY ApartSends DEF ListReview, Types, CallTypes, forge, history, Waiting
<1>1. \A i \in NoteId : Quiet(i) /\ Counts(i)
  BY <1>0, StillCounts
<1>2. \A i \in call.replies : Fresh(i)'
  BY <1>0, <1>1, FreshKeeps
<1>3. CASE StepTo("refetch")
  <2>1. NothingWaits(call'.stage)
    BY <1>0, <1>3 DEF StepTo, Calls, NothingWaits
  <2> QED BY <1>1, <2>1, NothingWaitsStep
<1>4. CASE call' = [call EXCEPT !.stage = ToReplies, !.sent = Matched(call.comments)]
  <2>1. call'.stage = ToReplies /\ call'.replies = call.replies
    BY <1>0, <1>4 DEF Calls
  <2>2. ToReplies \in {"threads", "replies"}
    BY <1>0 DEF ToReplies, AfterReplies
  <2> QED BY <1>0, <1>1, <1>2, <2>1, <2>2 DEF Waiting
<1> QED BY <1>3, <1>4 DEF ListReview

LEMMA SendReplyCounts ==
  ASSUME Types, Waiting, SendReply, UNCHANGED <<world, kind, disk, session, history>>
  PROVE  Waiting' /\ \A i \in NoteId : Counts(i)
<1>0. call \in Calls /\ call.stage = "replies" /\ UNCHANGED <<drafts, kind, doubtful>>
      /\ posted \in Seq(Comment) /\ kind \in {"github", "gitlab"}
      /\ (\A i \in call.replies : call.sent[i] = NoComment => Fresh(i))
      /\ (kind = "gitlab" => \A i \in call.comments : Fresh(i))
      /\ call.comments \cap call.replies = {} /\ call.comments \subseteq NoteId /\ call.replies \subseteq NoteId
  BY ApartSends DEF SendReply, Types, CallTypes, ForgeTypes, history, Waiting
<1> DEFINE Reply(j) == CommentOf(j, Len(posted) + 1, call.batch[j].body, call.batch[j].reply_to)
<1>1. PICK j \in call.replies, a \in Answers :
        /\ call.sent[j] = NoComment
        /\ posted' = IF a = "refused" THEN posted ELSE Append(posted, Reply(j))
        /\ IF a = "ok"
           THEN call' = [call EXCEPT !.sent[j] = Len(posted) + 1,
                  !.stage = IF {k \in call.replies \ {j} : call.sent[k] = NoComment} = {}
                            THEN AfterReplies ELSE "replies"]
           ELSE Stop
  BY DEF SendReply
<1>2. Reply(j) \in Comment /\ Reply(j).from = j /\ Reply(j).marker = j
  <2>1. j \in NoteId /\ call.batch[j] \in Note /\ Len(posted) + 1 \in Id
    BY <1>0, BatchNotes DEF Batch, Id
  <2> QED BY <2>1, CommentType DEF Note
<1>3. PICK x \in Comment : x = Reply(j)
  BY <1>2
<1>4. x.from = j /\ x.marker = j /\ (UNCHANGED posted \/ posted' = Append(posted, x)) /\ Fresh(j) /\ j \in Batch
  BY <1>0, <1>1, <1>2, <1>3 DEF Batch
<1> HIDE DEF Reply
<1>5. ASSUME NEW i \in NoteId
      PROVE  Counts(i) /\ (i # j => Quiet(i))
  <2>1. CASE UNCHANGED posted
    BY <1>0, <2>1, StillCounts
  <2>2. CASE posted' = Append(posted, x)
    <3>1. /\ ~On(i) => Once(i)'
          /\ x.from # i => Quiet(i)
          /\ \A c \in SentAs(i)' :
              \/ c \in SentAs(i) /\ posted'[c] = posted[c]
              \/ posted'[c] = x /\ x.from = i
      BY <1>0, <2>2, ReplyOnce
    <3>2. CASE i # j
      BY <1>4, <3>1, <3>2, QuietKeeps DEF Counts
    <3>3. CASE i = j
      <4>1. i \notin doubtful => Once(i)'
        BY <1>4, <3>1, <3>3 DEF Fresh
      <4>2. \A c \in SentAs(i)' : posted'[c].marker = i \/ (c \in SentAs(i) /\ posted'[c] = posted[c])
        BY <1>4, <3>1, <3>3
      <4> QED BY <1>4, <3>3, <4>1, <4>2 DEF Counts
    <3> QED BY <3>2, <3>3
  <2> QED BY <1>4, <2>1, <2>2
<1>6. Waiting'
  <2>1. CASE Stop
    BY <1>0, <2>1, StopStage, NothingWaitsStep
  <2>2. CASE a = "ok"
    <3>1. PICK s : s = IF {k \in call.replies \ {j} : call.sent[k] = NoComment} = {} THEN AfterReplies ELSE "replies"
      OBVIOUS
    <3>2. call' = [call EXCEPT !.sent[j] = Len(posted) + 1, !.stage = s]
      BY <1>1, <2>2, <3>1
    <3>3. call'.stage = s /\ call'.replies = call.replies /\ call'.comments = call.comments
          /\ call'.sent = [call.sent EXCEPT ![j] = Len(posted) + 1]
      BY <1>0, <3>2 DEF Calls
    <3>4. s \in {"threads", "refetch", "replies"} \/ (s = "drafts" /\ kind = "gitlab")
      BY <1>0, <3>1 DEF AfterReplies
    <3>5. \A i \in call.replies : call'.sent[i] = NoComment => i # j /\ call.sent[i] = NoComment
      <4>1. call.sent \in [NoteId -> Nat] /\ Len(posted) + 1 # NoComment
        BY <1>0 DEF Calls, NoComment
      <4> QED BY <1>0, <3>3, <4>1
    <3>6. \A i \in call.replies : call'.sent[i] = NoComment => Fresh(i)'
      BY <1>0, <1>5, <3>5, FreshKeeps
    <3>7. kind = "gitlab" => \A i \in call.comments : Fresh(i)'
      BY <1>0, <1>1, <1>5, FreshKeeps
    <3>8. call'.stage \notin {"head", "send", "list"}
      BY <3>3, <3>4
    <3>9. NoComment' = NoComment
      BY DEF NoComment
    <3> QED BY <1>0, <3>3, <3>4, <3>6, <3>7, <3>8, <3>9 DEF Waiting
  <2> QED BY <1>1, <2>1, <2>2
<1> QED BY <1>5, <1>6

LEMMA DraftCounts ==
  ASSUME Types, Waiting, Draft, UNCHANGED <<world, kind, disk, session, history>>
  PROVE  Waiting' /\ \A i \in NoteId : Counts(i)
<1>0. call \in Calls /\ call.stage = "drafts" /\ UNCHANGED <<posted, kind, doubtful>>
      /\ drafts \in Seq(DraftNote) /\ call.comments \subseteq NoteId
      /\ (\A i \in call.comments \ call.drafted : Fresh(i))
  BY ApartSends DEF Draft, Types, CallTypes, ForgeTypes, history, Waiting
<1>1. PICK j \in call.comments \ call.drafted, a \in Answers :
        /\ drafts' = IF a = "refused" THEN drafts
                     ELSE Append(drafts, [marker |-> j, body |-> call.batch[j].body])
        /\ IF a = "ok"
           THEN call' = [call EXCEPT !.drafted = call.drafted \cup {j},
                  !.stage = IF call.drafted \cup {j} = call.comments THEN "bulk" ELSE "drafts"]
           ELSE Stop
  BY DEF Draft
<1>2. [marker |-> j, body |-> call.batch[j].body] \in DraftNote
  BY <1>0, BatchNotes DEF DraftNote, Note
<1>3. PICK d \in DraftNote : d = [marker |-> j, body |-> call.batch[j].body]
  BY <1>2
<1>4. d.marker = j /\ (UNCHANGED drafts \/ drafts' = Append(drafts, d)) /\ j \in Batch /\ Fresh(j)
  BY <1>0, <1>1, <1>3 DEF Batch
<1>5. ASSUME NEW i \in NoteId
      PROVE  Counts(i) /\ (i # j => Quiet(i))
  <2>1. CASE UNCHANGED drafts
    BY <1>0, <2>1, StillCounts
  <2>2. CASE drafts' = Append(drafts, d)
    <3>1. (~On(i) => Once(i)') /\ (i # j => Quiet(i))
      BY <1>0, <1>4, <2>2, DraftOnce
    <3>2. \A c \in SentAs(i)' : c \in SentAs(i) /\ posted'[c] = posted[c]
      BY <1>0 DEF SentAs
    <3> QED BY <1>4, <3>1, <3>2, QuietKeeps DEF Counts, Fresh
  <2> QED BY <1>4, <2>1, <2>2
<1>6. Waiting'
  <2>1. CASE Stop
    BY <1>0, <2>1, StopStage, NothingWaitsStep
  <2>2. CASE a = "ok"
    <3>1. call'.stage \in {"bulk", "drafts"} /\ call'.comments = call.comments
          /\ call'.drafted = call.drafted \cup {j}
      BY <1>0, <1>1, <2>2 DEF Calls
    <3>2. \A i \in call.comments \ (call.drafted \cup {j}) : Fresh(i)'
      BY <1>0, <1>5, FreshKeeps
    <3> QED BY <3>1, <3>2 DEF Waiting
  <2> QED BY <1>1, <2>1, <2>2
<1> QED BY <1>5, <1>6

LEMMA BulkPublishCounts ==
  ASSUME Types, Waiting, BulkPublish, UNCHANGED <<world, kind, disk, session, history>>
  PROVE  Waiting' /\ \A i \in NoteId : Counts(i)
<1>0. call \in Calls /\ call.stage = "bulk" /\ posted \in Seq(Comment) /\ drafts \in Seq(DraftNote)
  BY DEF BulkPublish, Types, CallTypes, ForgeTypes
<1>1. PICK a \in Answers :
        /\ IF a = "refused" THEN UNCHANGED <<posted, drafts>>
           ELSE posted' = posted \o OfDrafts /\ drafts' = <<>>
        /\ IF a = "ok" THEN StepTo("threads") ELSE Stop
  BY DEF BulkPublish, OfDrafts
<1>2. ASSUME NEW i \in NoteId PROVE Counts(i)
  <2>1. CASE UNCHANGED <<posted, drafts>>
    BY <2>1, StillCounts
  <2>2. CASE posted' = posted \o OfDrafts /\ drafts' = <<>>
    BY <1>0, <2>2, BulkOnce DEF Counts
  <2> QED BY <1>1, <2>1, <2>2
<1>3. NothingWaits(call'.stage)
  <2>1. CASE StepTo("threads")
    BY <1>0, <2>1 DEF StepTo, Calls, NothingWaits
  <2> QED BY <1>0, <1>1, <2>1, StopStage
<1> QED BY <1>2, <1>3, NothingWaitsStep

LEMMA LastStagesCount ==
  ASSUME Types, FetchBack \/ FetchThreads \/ Act
  PROVE  Waiting' /\ \A i \in NoteId : Counts(i)
<1>0. call \in Calls
  BY DEF Types, CallTypes
<1>1. NothingWaits(call'.stage)
  BY <1>0 DEF FetchBack, FetchThreads, Act, StepTo, Fail, Calls, NothingWaits
<1>2. ASSUME NEW i \in NoteId PROVE Counts(i)
  <2>1. CASE UNCHANGED <<posted, drafts>>
    BY <2>1, StillCounts
  <2>2. CASE Act /\ posted' = [posted EXCEPT ![call.target] = ActedOn]
    <3>1. UNCHANGED drafts /\ call.stage = "act" /\ Batch = {}
      BY <2>2 DEF Act, Types, CallTypes
    <3>2. Quiet(i)
      BY <2>2, <3>1, ActIsQuiet
    <3> QED BY <3>1, <3>2, QuietKeeps DEF Counts
  <2>3. CASE Act /\ posted' = posted
    BY <2>1, <2>3 DEF Act
  <2> QED BY <2>1, <2>2, <2>3, ActMoves DEF FetchBack, FetchThreads, forge
<1> QED BY <1>1, <1>2, NothingWaitsStep

LEMMA WorkerCount ==
  ASSUME Types, Count, Worker
  PROVE  Count'
<1>0. UNCHANGED <<world, kind, disk, session, history>> /\ Waiting /\ Known /\ Linked
  BY DEF Worker, Count
<1>1. Waiting' /\ \A i \in NoteId : Counts(i)
  BY <1>0, CheckHeadCounts, SendReviewCounts, ListReviewCounts, SendReplyCounts, DraftCounts, BulkPublishCounts,
     LastStagesCount DEF Worker
<1>2. UNCHANGED <<note, savedNote, open, doubtful, used>> /\ Batch' = Batch /\ Kept(call')
  BY <1>0, WorkerTypes DEF Batch, Kept, disk, session, history
<1>3. Batch \subseteq NoteId /\ Batch \subseteq used
  BY ApartSends DEF Batch, Types, CallTypes
<1>4. Known'
  <2>1. \A i \in NoteId \ doubtful : Once(i)'
    BY <1>0, <1>1 DEF Known, Counts
  <2>2. \A i \in NoteId \ (doubtful \cup Batch) : On(i)' => Settled(note, i) /\ Settled(savedNote, i)
    BY <1>0, <1>1 DEF Known, Counts
  <2>3. \A i \in Batch \ doubtful : \A c \in SentAs(i)' : posted'[c].marker = i
    BY <1>0, <1>1, <1>3 DEF Known, Counts
  <2>4. \A i \in NoteId : On(i)' => i \in used
    BY <1>0, <1>1, <1>3 DEF Known, Counts
  <2> QED BY <1>2, <2>1, <2>2, <2>3, <2>4 DEF Known, Settled
<1>5. Linked'
  <2>1. open = "no" => FALSE
    <3>1. open = "no" => call = NoCall
      BY <1>0 DEF Linked
    <3>2. call # NoCall
      BY NoCallType DEF Worker, CheckHead, SendReview, ListReview, SendReply, Draft, BulkPublish,
         FetchBack, FetchThreads, Act
    <3> QED BY <3>1, <3>2
  <2> QED BY <1>0, <1>2, <2>1 DEF Linked, Settled, NoComment
<1> QED BY <1>1, <1>4, <1>5 DEF Count

\* What is on the request does not change, nor how often.
LEMMA ForgeStandsCounts ==
  ASSUME UNCHANGED forge, NEW i \in NoteId
  PROVE  (On(i)' <=> On(i)) /\ (Once(i)' <=> Once(i)) /\ SentAs(i)' = SentAs(i) /\ posted' = posted
<1>1. posted' = posted /\ drafts' = drafts
  BY DEF forge
<1> QED BY <1>1 DEF On, Once, SentAs, DraftedAs

\* A call is over, and all of it that is on the request is in doubt or known.
LEMMA EndCount ==
  ASSUME Types, Count, UNCHANGED <<forge, used>>, call' = NoCall, doubtful \subseteq doubtful',
         \A i \in NoteId \ doubtful' : On(i) => Settled(note', i) /\ Settled(savedNote', i),
         \A i \in NoteId : open' # "no" /\ ~Settled(note', i) => ~Settled(savedNote', i)
  PROVE  Count'
<1>1. NoCall' = NoCall /\ Batch' = {}
  BY NoCallType DEF NoCall, NoThreads, Batch
<1>2. \A i \in NoteId : (On(i)' <=> On(i)) /\ (Once(i)' <=> Once(i))
  BY ForgeStandsCounts
<1>3. Known'
  BY <1>1, <1>2 DEF Count, Known, Settled
<1>4. Linked'
  BY <1>1 DEF Linked, Settled, NoComment
<1>5. Waiting'
  BY NoCallType, NothingWaitsStep DEF NothingWaits
<1> QED BY <1>3, <1>4, <1>5 DEF Count

\* A note of the batch that is on the request is there by its marker.
LEMMA BatchIsThere ==
  ASSUME Count, NEW i \in NoteId, i \in Batch, i \notin doubtful, On(i)
  PROVE  There(i)
<1>1. CASE SentAs(i) # {}
  <2>1. PICK c \in SentAs(i) : TRUE
    BY <1>1
  <2>2. posted[c].marker = i
    BY <2>1 DEF Count, Known
  <2> QED BY <2>1, <2>2 DEF There, LiveOf, Live, SentAs
<1>2. CASE DraftedAs(i) # {}
  BY <1>2 DEF There, DraftedAs
<1> QED BY <1>1, <1>2 DEF On

LEMMA RecordErrorCount ==
  ASSUME Types, Count, RecordError
  PROVE  Count'
<1>0. UNCHANGED <<note, savedNote, open>> /\ UNCHANGED <<forge, used>> /\ call' = NoCall
      /\ Unnamed \subseteq doubtful' /\ doubtful \subseteq doubtful'
  BY DEF RecordError, CallIsOver, disk
<1>1. call.sent = [i \in NoteId |-> 0] /\ call.fetched = NoThreads
  BY NoCallType DEF RecordError, Types, CallTypes
<1>2. ASSUME NEW i \in NoteId \ doubtful', On(i)
      PROVE  Settled(note, i) /\ Settled(savedNote, i)
  <2>1. CASE i \in Batch
    <3>1. There(i)
      BY <1>0, <1>2, <2>1, BatchIsThere
    <3>2. i \in Unnamed
      BY <1>1, <2>1, <3>1, EmptyFetch DEF Unnamed, Carries, NoComment
    <3> QED BY <1>0, <3>2
  <2>2. CASE i \notin Batch
    BY <1>0, <1>2, <2>2 DEF Count, Known
  <2> QED BY <2>1, <2>2
<1>3. \A i \in NoteId : open # "no" /\ ~Settled(note, i) => ~Settled(savedNote, i)
  BY DEF Count, Linked
<1> QED BY <1>0, <1>2, <1>3, EndCount

\* A note settled in memory stays so, and one of the batch that is on the
\* request and not in doubt is settled by the answer.
LEMMA AnswerSettles ==
  ASSUME Types, Count, NEW marked \in Notes, NEW healed \in Notes, Marks(marked), Addresses(marked, healed),
         NEW i \in NoteId
  PROVE  /\ ~Settled(marked, i) => ~Settled(note, i)
         /\ ~Settled(healed, i) => ~Settled(marked, i)
         /\ i \in Batch /\ i \notin doubtful /\ i \notin Unnamed /\ On(i) => Settled(healed, i)
<1>1. ~Settled(marked, i) => ~Settled(note, i)
  <2>1. CASE note[i] # Absent /\ call.sent[i] # NoComment /\ marked[i] = [note[i] EXCEPT !.upstream = call.sent[i]]
    <3>1. note[i] \in Note
      BY <2>1 DEF Types, RecordTypes, Notes
    <3> QED BY <2>1, <3>1 DEF Note, Settled
  <2> QED BY <2>1 DEF Marks, Settled
<1>2. i \in Unsent(marked) <=> ~Settled(marked, i)
  BY DEF Unsent, Ids, Settled
<1>3. i \in Unsent(marked) /\ healed[i] # marked[i] => Settled(healed, i)
  <2> SUFFICES ASSUME i \in Unsent(marked), NEW c \in DOMAIN call.fetched, healed[i] = [marked[i] EXCEPT !.upstream = c]
               PROVE  Settled(healed, i)
    BY DEF Addresses
  <2>1. marked[i] \in Note /\ c # NoComment
    BY DEF Unsent, Ids, Notes, Types, CallTypes, IsFetch, Fetches, Id, NoComment
  <2> QED BY <2>1 DEF Note, Settled
<1>4. ~Settled(healed, i) => ~Settled(marked, i)
  BY <1>2, <1>3 DEF Addresses, Settled
<1>5. ASSUME i \in Batch, i \notin doubtful, i \notin Unnamed, On(i)
      PROVE  Settled(healed, i)
  <2>1. call.sent[i] # NoComment \/ Carries(call.fetched, i)
    BY <1>5, BatchIsThere DEF Unnamed
  <2>2. CASE call.sent[i] # NoComment
    <3>1. Settled(marked, i)
      <4>1. CASE note[i] = Absent
        BY <4>1 DEF Marks, Settled
      <4>2. CASE note[i] # Absent
        <5>1. note[i] \in Note /\ marked[i] = [note[i] EXCEPT !.upstream = call.sent[i]]
          BY <2>2, <4>2 DEF Marks, Types, RecordTypes, Notes
        <5> QED BY <2>2, <5>1 DEF Note, Settled
      <4> QED BY <4>1, <4>2
    <3> QED BY <1>4, <3>1
  <2>3. CASE Carries(call.fetched, i)
    <3>1. CASE i \in Unsent(marked) /\ healed[i] = marked[i]
      <4>1. marked[i] \in Note /\ \A c \in DOMAIN call.fetched : c # NoComment
        BY <3>1 DEF Unsent, Ids, Notes, Types, CallTypes, IsFetch, Fetches, Id, NoComment
      <4>2. PICK c \in DOMAIN call.fetched : healed[i] = [marked[i] EXCEPT !.upstream = c]
        BY <2>3, <3>1 DEF Addresses
      <4> QED BY <4>1, <4>2 DEF Note, Settled
    <3> QED BY <1>2, <1>3, <1>4, <3>1
  <2> QED BY <2>1, <2>2, <2>3
<1> QED BY <1>1, <1>4, <1>5

LEMMA RecordThreadsCount ==
  ASSUME Types, Count, RecordThreads
  PROVE  Count'
<1>1. PICK marked, healed, cached : \E m, t, h \in BOOLEAN : Saved(marked, healed, cached, m, t, h)
  BY RecordThreadsSaves
<1>2. PICK m \in BOOLEAN, t \in BOOLEAN, h \in BOOLEAN : Saved(marked, healed, cached, m, t, h)
  BY <1>1
<1>3. /\ marked \in Notes /\ healed \in Notes /\ Marks(marked) /\ Addresses(marked, healed)
      /\ \/ note' = healed /\ (m \/ marked = note)
         \/ note' = marked /\ ~m
      /\ \/ savedNote' = healed /\ note' = healed
         \/ savedNote' = marked /\ m /\ (t /\ h => healed = marked)
         \/ savedNote' = savedNote /\ (m => marked = note /\ (t /\ h => healed = marked))
      /\ CallIsOver(m /\ t /\ h)
  BY <1>2 DEF Saved
<1>4. UNCHANGED <<forge, used, open>> /\ call' = NoCall /\ open # "no"
      /\ doubtful' = doubtful \cup Unnamed \cup (IF m /\ t /\ h THEN {} ELSE Unknown(savedNote'))
  BY <1>3 DEF CallIsOver, RecordThreads, Answered
<1>5. \A i \in NoteId :
         /\ ~Settled(marked, i) => ~Settled(note, i)
         /\ ~Settled(healed, i) => ~Settled(marked, i)
         /\ i \in Batch /\ i \notin doubtful /\ i \notin Unnamed /\ On(i) => Settled(healed, i)
  BY <1>3, AnswerSettles
<1>6. \A i \in NoteId : ~Settled(note, i) => ~Settled(savedNote, i)
  BY <1>4 DEF Count, Linked
<1>7. \A i \in NoteId : ~Settled(note', i) => ~Settled(savedNote', i)
  BY <1>3, <1>5, <1>6
<1>8. ASSUME NEW i \in NoteId \ doubtful', On(i)
      PROVE  Settled(note', i) /\ Settled(savedNote', i)
  <2>1. i \notin doubtful /\ i \notin Unnamed
    BY <1>4
  <2>2. CASE i \notin Batch
    <3>1. Settled(note, i) /\ Settled(savedNote, i)
      BY <1>8, <2>1, <2>2 DEF Count, Known
    <3> QED BY <1>3, <1>5, <3>1
  <2>3. CASE i \in Batch
    <3>1. Settled(healed, i)
      BY <1>5, <1>8, <2>1, <2>3
    <3>2. CASE ~(m /\ t /\ h)
      <4>1. i \notin Unknown(savedNote')
        BY <1>4, <3>2
      <4>2. There(i)
        BY <1>8, <2>1, <2>3, BatchIsThere
      <4>3. Settled(savedNote', i)
        BY <4>1, <4>2 DEF Unknown, Unsent, Ids, Settled
      <4> QED BY <1>7, <4>3
    <3>3. CASE m /\ t /\ h
      <4>1. note' = healed
        BY <1>3, <3>3
      <4>2. CASE savedNote' = healed
        BY <3>1, <4>1, <4>2
      <4>3. CASE savedNote' = savedNote /\ marked = note /\ healed = marked
        <5>1. Settled(note, i) /\ (note[i] = Absent \/ note[i].upstream = NoComment)
          BY <2>3, <3>1, <4>3 DEF Count, Linked
        <5>2. savedNote[i] = Absent
          BY <2>3, <5>1 DEF Count, Linked, Settled
        <5> QED BY <3>1, <4>1, <4>3, <5>2 DEF Settled
      <4> QED BY <1>3, <3>3, <4>2, <4>3
    <3> QED BY <3>2, <3>3
  <2> QED BY <2>2, <2>3
<1> QED BY <1>4, <1>7, <1>8, EndCount

LEMMA RecordEditCount ==
  ASSUME Types, Count, RecordEdit
  PROVE  Count'
<1>0. EditSaves /\ call.kind = "edit" /\ call.text \in Body /\ Batch = {} /\ doubtful \subseteq doubtful'
  BY RecordEditSaves DEF Types, CallTypes, RecordEdit, CallIsOver
<1>1. \A i \in NoteId : Settled(note', i) <=> Settled(note, i)
  <2>1. ASSUME NEW j \in NoteId, note[j] # Absent, note' = Edited(j), NEW i \in NoteId
        PROVE  Settled(note', i) <=> Settled(note, i)
    <3>1. (note'[i] = Absent <=> note[i] = Absent) /\ (note'[i] # Absent => note'[i].upstream = note[i].upstream)
      BY <1>0, <2>1, EditedType DEF Edited
    <3> QED BY <3>1 DEF Settled
  <2> QED BY <1>0, <2>1 DEF EditSaves
<1>2. savedNote' = note' \/ savedNote' = savedNote
  BY <1>0 DEF EditSaves
<1>3. \A i \in NoteId \ doubtful' : On(i) => Settled(note', i) /\ Settled(savedNote', i)
  BY <1>0, <1>1, <1>2 DEF Count, Known
<1>4. \A i \in NoteId : open' # "no" /\ ~Settled(note', i) => ~Settled(savedNote', i)
  BY <1>0, <1>1, <1>2 DEF Count, Linked, EditSaves
<1> QED BY <1>0, <1>3, <1>4, EndCount DEF EditSaves

LEMMA RecordDeleteCount ==
  ASSUME Types, Count, RecordDelete
  PROVE  Count'
<1>0. DeleteSaves /\ Batch = {} /\ doubtful \subseteq doubtful'
  BY RecordDeleteSaves DEF Types, CallTypes, RecordDelete, CallIsOver, Answered
<1>1. \A i \in NoteId : Settled(note', i) \/ note'[i] = note[i]
  BY <1>0 DEF DeleteSaves, Settled
<1>2. savedNote' = note' \/ savedNote' = savedNote
  BY <1>0 DEF DeleteSaves
<1>3. \A i \in NoteId \ doubtful' : On(i) => Settled(note', i) /\ Settled(savedNote', i)
  BY <1>0, <1>1, <1>2 DEF Count, Known, Settled
<1>4. \A i \in NoteId : open' # "no" /\ ~Settled(note', i) => ~Settled(savedNote', i)
  BY <1>0, <1>1, <1>2 DEF Count, Linked, Settled, DeleteSaves
<1> QED BY <1>0, <1>3, <1>4, EndCount DEF DeleteSaves

LEMMA RecordCount ==
  ASSUME Types, Count, Record
  PROVE  Count'
BY RecordErrorCount, RecordThreadsCount, RecordEditCount, RecordDeleteCount DEF Record

LEMMA QuitCount ==
  ASSUME Types, Count, Quit
  PROVE  Count'
<1>1. UNCHANGED <<forge, used>> /\ call' = NoCall /\ savedNote' = savedNote /\ note' = NoNotes /\ open' = "no"
      /\ doubtful' = doubtful \cup {i \in Batch : There(i)}
  BY DEF Quit, disk
<1>2. ASSUME NEW i \in NoteId \ doubtful', On(i)
      PROVE  Settled(note', i) /\ Settled(savedNote', i)
  <2>1. i \notin Batch
    BY <1>1, <1>2, BatchIsThere
  <2> QED BY <1>1, <1>2, <2>1 DEF Count, Known, Settled, NoNotes
<1> QED BY <1>1, <1>2, EndCount

\* A call begins while none was out.
LEMMA BeginCount ==
  ASSUME Types, Count, call = NoCall, UNCHANGED <<forge, savedNote, doubtful, used>>, open' # "no",
         note' = savedNote \/ (note' = note /\ open # "no"),
         \/ Single(call')
         \/ /\ call'.stage = "head" /\ Batch' \subseteq Unsent(note')
  PROVE  Count'
<1>1. Batch = {} /\ posted' = posted
  BY NoCallType DEF Batch, forge
<1>2. \A i \in NoteId : (On(i)' <=> On(i)) /\ (Once(i)' <=> Once(i)) /\ SentAs(i)' = SentAs(i)
  BY ForgeStandsCounts
<1>3. \A i \in NoteId \ doubtful : On(i) => Settled(note, i) /\ Settled(savedNote, i)
  BY <1>1 DEF Count, Known
<1>4. \A i \in Unsent(note') : i \in NoteId /\ note'[i] # Absent /\ ~Settled(note', i)
  BY DEF Unsent, Ids, Settled
<1>5. Batch' = {} \/ (Batch' \subseteq Unsent(note') /\ call'.stage = "head")
  BY DEF Single, Batch
<1>6. \A i \in Batch' : i \in NoteId /\ (i \in doubtful \/ ~On(i))
  <2>1. ASSUME NEW i \in Unsent(note') PROVE i \in NoteId /\ (i \in doubtful \/ ~On(i))
    BY <1>3, <1>4
  <2> QED BY <1>5, <2>1
<1>7. Known'
  <2>1. \A i \in NoteId \ doubtful : Once(i)'
    BY <1>2 DEF Count, Known
  <2>2. \A i \in NoteId \ doubtful : On(i)' => Settled(note', i) /\ Settled(savedNote', i)
    BY <1>2, <1>3
  <2>3. \A i \in Batch' \ doubtful : SentAs(i)' = {}
    BY <1>2, <1>6 DEF On
  <2>4. \A i \in NoteId : On(i)' => i \in used
    BY <1>2 DEF Count, Known
  <2> QED BY <2>1, <2>2, <2>3, <2>4 DEF Known, Settled
<1>8. Linked'
  <2>1. \A i \in Batch' : note'[i] # Absent /\ note'[i].upstream = NoComment
    BY <1>5 DEF Unsent, Ids
  <2>2. \A i \in NoteId : ~Settled(note', i) => ~Settled(savedNote', i)
    BY DEF Count, Linked
  <2> QED BY <2>1, <2>2 DEF Linked, Settled, NoComment
<1>9. Waiting'
  <2>1. CASE Single(call')
    BY <2>1, NothingWaitsStep DEF Single, NothingWaits
  <2>2. CASE call'.stage = "head"
    <3>1. \A i \in Batch' : Fresh(i)'
      BY <1>2, <1>6 DEF Fresh
    <3> QED BY <2>2, <3>1 DEF Waiting
  <2> QED BY <2>1, <2>2
<1> QED BY <1>7, <1>8, <1>9 DEF Count

\* Waiting and the number of each note are as they were.
LEMMA StaysWaiting ==
  ASSUME Count, UNCHANGED <<kind, call, doubtful>>, \A i \in NoteId : Fresh(i) => Fresh(i)',
         Batch \subseteq NoteId
  PROVE  Waiting'
<1>1. Batch' = Batch /\ call.comments \subseteq NoteId /\ call.replies \subseteq NoteId /\ NoComment' = NoComment
  BY DEF Batch, NoComment
<1> QED BY <1>1 DEF Count, Waiting

\* The notes are changed and saved.
LEMMA WriteCount ==
  ASSUME Types, Count, UNCHANGED <<forge, call, doubtful, open>>, used \subseteq used', NEW N, SetNotes(N),
         \A i \in NoteId : ~Settled(N, i) => ~Settled(note, i) \/ ~On(i),
         \A i \in Batch : N[i] = Absent \/ N[i].upstream = NoComment
  PROVE  Count'
<1>1. Batch' = Batch /\ posted' = posted /\ note' = N /\ savedNote' = N /\ Batch \subseteq NoteId /\ UNCHANGED kind
  BY ApartSends DEF Batch, forge, SetNotes
<1>2. \A i \in NoteId : (On(i)' <=> On(i)) /\ (Once(i)' <=> Once(i)) /\ SentAs(i)' = SentAs(i)
  BY ForgeStandsCounts
<1>3. Known'
  <2>1. \A i \in NoteId \ doubtful : Once(i)'
    BY <1>2 DEF Count, Known
  <2>2. \A i \in NoteId \ (doubtful \cup Batch) : On(i)' => Settled(N, i)
    BY <1>2 DEF Count, Known
  <2>3. \A i \in Batch \ doubtful : \A c \in SentAs(i)' : posted'[c].marker = i
    BY <1>1, <1>2 DEF Count, Known
  <2>4. \A i \in NoteId : On(i)' => i \in used'
    BY <1>2 DEF Count, Known
  <2> QED BY <1>1, <2>1, <2>2, <2>3, <2>4 DEF Known, Settled
<1>4. Linked'
  <2>1. open = "no" => call = NoCall
    BY DEF Count, Linked
  <2> QED BY <1>1, <2>1 DEF Linked, Settled, NoComment, NoCall, NoThreads
<1>5. Waiting'
  BY <1>1, <1>2, StaysWaiting DEF Fresh
<1> QED BY <1>3, <1>4, <1>5 DEF Count

LEMMA StutterCount ==
  ASSUME Count, UNCHANGED <<forge, disk, open, note, call, history>>
  PROVE  Count'
<1>1. UNCHANGED <<posted, drafts, kind, savedNote, doubtful, used>>
  BY DEF forge, disk, history
<1>2. Waiting'
  BY <1>1 DEF Count, Waiting, Fresh, On, SentAs, DraftedAs, Batch, NoComment
<1>3. Linked'
  BY <1>1 DEF Count, Linked, Settled, Batch, NoComment, NoCall, NoThreads
<1>4. Known'
  <2>1. \A i \in NoteId : (On(i)' <=> On(i)) /\ (Once(i)' <=> Once(i)) /\ SentAs(i)' = SentAs(i)
    BY ForgeStandsCounts
  <2>2. Batch' = Batch
    BY DEF Batch
  <2>3. \A i \in NoteId \ doubtful : Once(i)'
    BY <2>1 DEF Count, Known
  <2>4. \A i \in NoteId \ (doubtful \cup Batch) : On(i)' => Settled(note, i) /\ Settled(savedNote, i)
    BY <2>1 DEF Count, Known
  <2>5. \A i \in Batch \ doubtful : \A c \in SentAs(i) : posted[c].marker = i
    BY DEF Count, Known
  <2>6. \A i \in NoteId : On(i)' => i \in used
    BY <2>1 DEF Count, Known
  <2>7. \A i \in Batch \ doubtful : \A c \in SentAs(i)' : posted'[c].marker = i
    BY <1>1, <2>5 DEF SentAs
  <2> QED BY <1>1, <2>2, <2>3, <2>4, <2>6, <2>7 DEF Known, Settled, NoComment
<1> QED BY <1>2, <1>3, <1>4 DEF Count

LEMMA ReaderBegins ==
  ASSUME Types, Count,
         \/ OpenReview \/ PostFromCli \/ StartFetch \/ StartPublish
         \/ \E c \in DOMAIN posted : StartDelete(c) \/ \E b \in Spoken : StartEdit(c, b)
  PROVE  Count'
<1>0. /\ posted \in Seq(Comment) /\ kind \in {"github", "gitlab"} /\ note \in Notes /\ savedNote \in Notes
      /\ IsFetch(cache) /\ IsFetch(savedCache)
  BY DEF Types, ForgeTypes, RecordTypes
<1>1. ASSUME OpenReview \/ PostFromCli
      PROVE  /\ call = NoCall /\ UNCHANGED <<forge, savedNote, doubtful, used>> /\ open' # "no"
             /\ note' = savedNote
  BY <1>1 DEF OpenReview, PostFromCli, disk, history, Count, Linked
<1>2. ASSUME \/ StartFetch \/ StartPublish
             \/ \E c \in DOMAIN posted : StartDelete(c) \/ \E b \in Spoken : StartEdit(c, b)
      PROVE  /\ call = NoCall /\ UNCHANGED <<forge, savedNote, doubtful, used>> /\ open' # "no"
             /\ note' = note /\ open # "no"
  BY <1>2 DEF StartFetch, StartPublish, StartDelete, StartEdit, Ready, InDiff, Begin, disk, session, history
<1>3. CASE OpenReview \/ StartFetch
  <2>1. Single(call')
    BY <1>0, <1>3, SinglesAre DEF OpenReview, StartFetch, Begin
  <2> QED BY <1>1, <1>2, <1>3, <2>1, BeginCount
<1>4. ASSUME NEW c \in DOMAIN posted, StartDelete(c)
      PROVE  Count'
  <2>1. Single(call')
    BY <1>0, <1>4, SinglesAre DEF StartDelete, Begin
  <2> QED BY <1>2, <1>4, <2>1, BeginCount
<1>5. ASSUME NEW c \in DOMAIN posted, NEW b \in Spoken, StartEdit(c, b)
      PROVE  Count'
  <2>1. PICK i \in LinkedTo(c) :
          call' = [NoCall EXCEPT !.kind = "edit", !.stage = "act", !.target = c, !.text = b, !.linked = i]
    BY <1>5 DEF StartEdit, Begin
  <2>2. b \in Body /\ i \in NoteId \cup {NoNote}
    BY PublishAssumption DEF Spoken, LinkedTo, Types, ForgeTypes
  <2>3. Single(call')
    BY <1>0, <2>1, <2>2, SinglesAre
  <2> QED BY <1>2, <1>5, <2>3, BeginCount
<1>6. CASE PostFromCli \/ StartPublish
  <2>1. PICK notes \in Notes, T \in {cache, savedCache} : IsFetch(T) /\ call' = Publishing(notes, T) /\ note' = notes
    <3>1. CASE PostFromCli
      BY <1>0, <3>1 DEF PostFromCli
    <3>2. CASE StartPublish
      BY <1>0, <1>2, <3>2 DEF StartPublish, Begin
    <3> QED BY <1>6, <3>1, <3>2
  <2>2. call'.stage = "head" /\ call'.comments \subseteq Unsent(notes) /\ call'.replies \subseteq Unsent(notes)
    BY <1>0, <2>1, PublishingTypes
  <2>3. Batch' \subseteq Unsent(note')
    BY <2>1, <2>2 DEF Batch
  <2>4. CASE PostFromCli
    BY <1>1, <2>2, <2>3, <2>4, BeginCount
  <2>5. CASE StartPublish
    BY <1>2, <2>2, <2>3, <2>5, BeginCount
  <2> QED BY <1>6, <2>4, <2>5
<1> QED BY <1>3, <1>4, <1>5, <1>6

LEMMA ReaderCount ==
  ASSUME Types, Count, Reader
  PROVE  Count'
<1>0. note \in Notes /\ (\A i \in Batch : note[i] = Absent \/ note[i].upstream = NoComment) /\ Batch \subseteq used
      /\ Batch \subseteq NoteId /\ \A i \in NoteId : On(i) => i \in used
  BY ApartSends DEF Types, RecordTypes, CallTypes, Count, Linked, Known, Batch
<1>1. CASE \/ OpenReview \/ PostFromCli \/ StartFetch \/ StartPublish
           \/ \E c \in DOMAIN posted : StartDelete(c) \/ \E b \in Spoken : StartEdit(c, b)
  BY <1>1, ReaderBegins
<1>2. CASE OpenList \/ CloseList
  BY <1>2, StutterCount DEF OpenList, CloseList
<1>3. CASE ClearNotes \/ \E i \in NoteId : DeleteNote(i) \/ DeleteListed(i)
  <2>1. PICK G \in SUBSET NoteId : SetNotes(Without(G))
    BY <1>3, RemovalsRemove
  <2>2. UNCHANGED <<forge, call, doubtful, open, used>>
    BY <1>3, RemovalsRemove
  <2>3. \A i \in NoteId : Without(G)[i] = Absent \/ Without(G)[i] = note[i]
    BY DEF Without
  <2>4. PICK N : N = Without(G)
    OBVIOUS
  <2>5. \A i \in NoteId : ~Settled(N, i) => ~Settled(note, i)
    BY <2>3, <2>4 DEF Settled
  <2>6. \A i \in Batch : N[i] = Absent \/ N[i].upstream = NoComment
    BY <1>0, <2>3, <2>4
  <2> QED BY <2>1, <2>2, <2>4, <2>5, <2>6, WriteCount
<1>4. ASSUME NEW i \in NoteId, NEW b \in world.words[i], EditNote(i, b)
      PROVE  Count'
  <2>1. b \in Body /\ note[i] # Absent /\ open # "no"
    BY <1>4, PublishAssumption DEF EditNote, Unsent, Ids, InDiff, Types, ForgeTypes
  <2>2. PICK N : N = [note EXCEPT ![i].body = b]
    OBVIOUS
  <2>3. \A j \in NoteId : (N[j] = Absent <=> note[j] = Absent) /\ (N[j] # Absent => N[j].upstream = note[j].upstream)
    BY <2>1, <2>2, EditedType
  <2>4. SetNotes(N) /\ UNCHANGED <<forge, call, doubtful, open, used>>
    BY <1>4, <2>2 DEF EditNote
  <2>5. \A j \in NoteId : ~Settled(N, j) => ~Settled(note, j)
    BY <2>3 DEF Settled
  <2>6. \A j \in Batch : N[j] = Absent \/ N[j].upstream = NoComment
    BY <1>0, <2>3
  <2> QED BY <2>1, <2>4, <2>5, <2>6, WriteCount
<1>5. ASSUME NEW i \in NoteId, NEW b, NEW t, AddNote(i, b, t)
      PROVE  Count'
  <2>1. i \notin used /\ open # "no" /\ used \subseteq used' /\ UNCHANGED <<forge, call, doubtful, open>>
    BY <1>5 DEF AddNote, InDiff
  <2>2. PICK N : N = [note EXCEPT ![i] = [body |-> b, reply_to |-> t, upstream |-> NoComment]]
    OBVIOUS
  <2>3. SetNotes(N)
    BY <1>5, <2>2 DEF AddNote
  <2>4. \A j \in NoteId \ {i} : N[j] = note[j]
    BY <1>0, <2>2 DEF Notes
  <2>5. \A j \in NoteId : ~Settled(N, j) => ~Settled(note, j) \/ ~On(j)
    BY <1>0, <2>1, <2>4 DEF Settled
  <2>6. \A j \in Batch : N[j] = Absent \/ N[j].upstream = NoComment
    BY <1>0, <2>1, <2>4
  <2> QED BY <2>1, <2>3, <2>5, <2>6, WriteCount
<1> QED BY <1>1, <1>2, <1>3, <1>4, <1>5 DEF Reader

LEMMA OutsideCount ==
  ASSUME Types, Count, Outside
  PROVE  Count'
<1>0. UNCHANGED <<kind, drafts, savedNote, open, note, call, doubtful, used>> /\ Batch' = Batch
      /\ posted \in Seq(Comment) /\ Batch \subseteq NoteId
  BY ApartSends DEF Outside, WebDelete, WebComment, disk, session, history, Batch, Types, ForgeTypes
<1>1. ASSUME NEW i \in NoteId
      PROVE  Quiet(i) /\ \A c \in SentAs(i)' : c \in SentAs(i) /\ posted'[c].marker = posted[c].marker
  <2>1. ASSUME NEW d \in DOMAIN posted, WebDelete(d)
        PROVE  \A c \in SentAs(i)' : c \in SentAs(i) /\ posted'[c].marker = posted[c].marker
    <3>1. \A c \in DOMAIN posted' : c \in DOMAIN posted /\ posted'[c] = IF c = d THEN [posted[c] EXCEPT !.live = FALSE] ELSE posted[c]
      BY <1>0, <2>1 DEF WebDelete
    <3>2. posted[d] \in Comment
      BY <1>0
    <3>3. ~[posted[d] EXCEPT !.live = FALSE].live
      BY <3>2 DEF Comment
    <3> QED BY <3>1, <3>3 DEF SentAs
  <2>2. ASSUME NEW b \in Body, NEW p \in Place, WebComment(b, p)
        PROVE  \A c \in SentAs(i)' : c \in SentAs(i) /\ posted'[c].marker = posted[c].marker
    <3> DEFINE x == [thread |-> Len(posted) + 1, place |-> p, author |-> "me", marker |-> NoNote, body |-> b,
                     live |-> TRUE, from |-> NoNote, bared |-> TRUE]
    <3>1. x \in Comment /\ x.from # i
      <4>1. Len(posted) + 1 \in Id
        BY <1>0 DEF Id
      <4> QED BY <4>1, PublishAssumption DEF Comment
    <3>2. posted' = Append(posted, x)
      BY <2>2 DEF WebComment
    <3> HIDE DEF x
    <3>3. (\A d \in DOMAIN posted : posted'[d] = posted[d])
          /\ DOMAIN posted' = DOMAIN posted \cup {Len(posted) + 1} /\ posted'[Len(posted) + 1] = x
      BY <1>0, <3>1, <3>2, OneMore
    <3> QED BY <3>1, <3>3 DEF SentAs
  <2>3. \A c \in SentAs(i)' : c \in SentAs(i) /\ posted'[c].marker = posted[c].marker
    BY <2>1, <2>2 DEF Outside
  <2>4. DraftedAs(i)' = DraftedAs(i)
    BY <1>0 DEF DraftedAs
  <2> QED BY <2>3, <2>4 DEF Quiet
<1>2. \A i \in NoteId : (Once(i) => Once(i)') /\ (On(i)' => On(i)) /\ (~On(i) => ~On(i)')
  BY <1>1, QuietKeeps
<1>3. Known'
  <2>1. \A i \in NoteId \ doubtful : Once(i)'
    BY <1>2 DEF Count, Known
  <2>2. \A i \in NoteId \ (doubtful \cup Batch) : On(i)' => Settled(note, i) /\ Settled(savedNote, i)
    BY <1>2 DEF Count, Known
  <2>3. \A i \in Batch \ doubtful : \A c \in SentAs(i)' : posted'[c].marker = i
    BY <1>0, <1>1 DEF Count, Known
  <2>4. \A i \in NoteId : On(i)' => i \in used
    BY <1>2 DEF Count, Known
  <2> QED BY <1>0, <2>1, <2>2, <2>3, <2>4 DEF Known, Settled
<1>4. Linked'
  BY <1>0 DEF Count, Linked, Settled, NoComment, NoCall, NoThreads
<1>5. Waiting'
  BY <1>0, <1>2, StaysWaiting DEF Fresh
<1> QED BY <1>3, <1>4, <1>5 DEF Count

LEMMA InitCount == Init => Count
<1> SUFFICES ASSUME Init PROVE Count
  OBVIOUS
<1>1. \A i \in NoteId : ~On(i)
  BY PublishAssumption DEF Init, On, SentAs, DraftedAs
<1>2. Known
  <2>1. Batch = {}
    BY NoCallType DEF Init, Batch
  <2> QED BY <1>1, <2>1 DEF Known, Once, On
<1>3. Linked
  BY NoCallType DEF Linked, Init, Settled, NoNotes, Batch
<1>4. Waiting
  BY NoCallType DEF Waiting, Init
<1> QED BY <1>2, <1>3, <1>4 DEF Count

LEMMA NextCount ==
  ASSUME Types, Count, [Next]_vars
  PROVE  Count'
<1>1. CASE UNCHANGED vars
  BY <1>1, StutterCount DEF vars, session
<1> QED BY <1>1, WorkerCount, RecordCount, ReaderCount, QuitCount, OutsideCount DEF Next

\* A note that no lost answer and no failed save left in doubt is on the request
\* at most once (`publish_plan`, `record_publish`, `mark_published`,
\* `set_threads`), on either forge and whatever the reader does meanwhile.
THEOREM NoNoteGoesUpTwice == Spec => []AtMostOnce
<1>1. Types /\ Count => AtMostOnce
  <2> SUFFICES ASSUME Types, Count, NEW i \in NoteId \ doubtful
               PROVE  ~(Cardinality({c \in Live : posted[c].from = i}) > 1)
    BY DEF AtMostOnce
  <2>1. {c \in Live : posted[c].from = i} = SentAs(i)
    BY DEF Live, SentAs
  <2>2. \A c, d \in SentAs(i) : c = d
    BY DEF Count, Known, Once
  <2>3. SentAs(i) = {} \/ \E c : SentAs(i) = {c}
    BY <2>2
  <2>4. \A S : S = {} \/ (\E c : S = {c}) => ~(Cardinality(S) > 1)
    <3> SUFFICES ASSUME NEW S, S = {} \/ (\E c : S = {c}) PROVE Cardinality(S) \in {0, 1}
      OBVIOUS
    <3>1. CASE S = {}
      BY <3>1, FS_EmptySet
    <3>2. CASE \E c : S = {c}
      BY <3>2, FS_Singleton
    <3> QED BY <3>1, <3>2
  <2> QED BY <2>1, <2>3, <2>4
<1>2. Types /\ Count /\ [Next]_vars => Count'
  BY NextCount
<1>3. Init => Count
  BY InitCount
<1> QED BY <1>1, <1>2, <1>3, PublishKeepsTypes, PTL DEF Spec

----------------------------------------------------------------------------
(* What the request says of a note *)

\* A note of the records that nobody is in doubt of.
Plain(i) == i \notin doubtful /\ savedNote[i] # Absent

\* No save fails: the disk is as the memory is.
Stored ==
  /\ open # "no" => note = savedNote /\ cache = savedCache
  /\ open = "no" => listed = {}

\* A marker is a note's that has been written.
Spent ==
  /\ \A c \in DOMAIN posted : posted[c].marker \in used \cup {NoNote}
  /\ \A c \in DOMAIN savedCache : savedCache[c].marker \in used \cup {NoNote}
  /\ call.linked \in used \cup {NoNote}

\* What was fetched is still what the request says, and all of the notes' on it.
Mirrors ==
  /\ \A c \in DOMAIN call.fetched :
       call.fetched[c].marker = posted[c].marker /\ call.fetched[c].body = posted[c].body
  /\ call.has_threads => \A c \in Live : posted[c].marker = NoNote \/ c \in DOMAIN call.fetched

\* What the call was told of note i is where it is, and all there is of it.
ToldOf(i) ==
  /\ i \in Batch /\ call.sent[i] \in DOMAIN posted /\ posted[call.sent[i]].marker = i
  /\ Plain(i) => SentAs(i) \subseteq {call.sent[i]} /\ DraftedAs(i) = {}
Told ==
  /\ \A i \in NoteId : call.sent[i] # NoComment => ToldOf(i)
  /\ call.stage = "drafts" \/ (call.stage = "replies" /\ kind = "gitlab") =>
       \A i \in call.comments : call.sent[i] = NoComment

\* What carries note i's marker, on the request, in the cache, in what was
\* fetched, in an edit or in a draft, is what the record has the address of, or
\* the running call's own.
OnForge(i) == \A c \in LiveOf(i) : savedNote[i].upstream = c \/ (i \in Batch /\ posted[c].from = i)
InCache(i) == \A c \in DOMAIN savedCache : savedCache[c].marker = i => savedNote[i].upstream = c
InFetch(i) ==
  \A c \in DOMAIN call.fetched : call.fetched[c].marker = i =>
    IF i \in Batch
    THEN /\ \A d \in DOMAIN call.fetched : call.fetched[d].marker = i => d = c
         /\ call.sent[i] \in {NoComment, c} /\ DraftedAs(i) = {}
    ELSE savedNote[i].upstream = c
InEdit(i) == call.kind = "edit" /\ call.linked = i => savedNote[i].upstream = call.target
InDrafts(i) == \A k \in DraftedAs(i) : i \in Batch /\ drafts[k].body = call.batch[i].body
Tied == \A i \in NoteId : Plain(i) => OnForge(i) /\ InCache(i) /\ InFetch(i) /\ InEdit(i) /\ InDrafts(i)

\* Notes that never share their words keep to them, wherever these have got to;
\* so the note a comment was taken for is the only one.
WordsOf(i) ==
  /\ savedNote[i].body \in world.words[i]
  /\ savedNote[i].upstream # NoComment => posted[savedNote[i].upstream].body \in world.words[i]
  /\ \A c \in DOMAIN savedCache : savedCache[c].marker = i => posted[c].body \in world.words[i]
  /\ call.kind = "edit" /\ Links(savedNote, savedCache, i, call.target) => i = call.linked
WordsSent ==
  /\ \A i \in Batch : call.batch[i].body \in world.words[i]
  /\ \A k \in DOMAIN drafts : drafts[k].body \in world.words[drafts[k].marker]
  /\ \A c \in DOMAIN posted : posted[c].marker # NoNote => posted[c].body \in world.words[posted[c].marker]
  /\ call.kind = "edit" /\ call.linked # NoNote => call.text \in world.words[call.linked]
Worded == Distinct => WordsSent /\ \A i \in NoteId : savedNote[i] # Absent => WordsOf(i)

\* An edit has gone up, and the record is to follow.
EditOut == call.kind = "edit" /\ call.stage = "answered" /\ ~call.err

SaysOf(i) ==
  \A c \in LiveOf(i) : (posted[c].bared => Distinct) =>
    posted[c].body = savedNote[i].body \/ (EditOut /\ call.target = c)
Said ==
  /\ call.kind = "edit" => call.stage \in {"act", "answered"}
  /\ EditOut => posted[call.target].body = call.text /\ posted[call.target].marker = call.linked
  /\ \A i \in Batch \ raced : savedNote[i] # Absent /\ savedNote[i].body = call.batch[i].body
  /\ \A i \in NoteId \ raced : Plain(i) => SaysOf(i)

Faithful == Stored /\ Spent /\ Mirrors /\ Told /\ Tied /\ Worded /\ Said

\* The notes of a batch have no address.
LEMMA BatchHasNone ==
  ASSUME Types, Count, Stored, NEW i \in Batch, Plain(i)
  PROVE  i \in NoteId /\ savedNote[i].upstream = NoComment
<1>1. i \in NoteId /\ Batch # {}
  BY ApartSends DEF Batch
<1>2. open # "no"
  BY <1>1, NoCallType DEF Count, Linked, Batch
<1> QED BY <1>1, <1>2 DEF Stored, Count, Linked, Plain

\* What carries the marker of a note of the batch was sent as it, and is alone.
LEMMA BatchIsOne ==
  ASSUME Types, Count, Stored, NEW i \in Batch, Plain(i), OnForge(i), NEW c \in LiveOf(i)
  PROVE  /\ posted[c].from = i /\ c \in SentAs(i) /\ DraftedAs(i) = {}
         /\ SentAs(i) \subseteq {c} /\ \A d \in LiveOf(i) : d = c
<1>0. posted \in Seq(Comment) /\ i \in NoteId
  BY BatchHasNone DEF Types, ForgeTypes
<1>1. ASSUME NEW d \in LiveOf(i) PROVE d \in SentAs(i)
  <2>1. d \in DOMAIN posted /\ posted[d].live
    BY DEF LiveOf, Live
  <2>2. d # NoComment
    BY <1>0, <2>1 DEF NoComment
  <2>3. posted[d].from = i
    BY <2>2, BatchHasNone DEF OnForge
  <2> QED BY <2>1, <2>3 DEF SentAs
<1>2. Once(i)
  BY <1>0 DEF Count, Known, Plain
<1> QED BY <1>1, <1>2 DEF Once, SentAs

----------------------------------------------------------------------------
(* A step of the worker that edits nothing *)

\* A comment that has come up is a note's that has been written, in words of
\* its; a plain note's is the call's, as it has it.
Brings(x) ==
  /\ x.marker \in used /\ x.marker = x.from
  /\ Distinct => x.body \in world.words[x.marker]
  /\ Plain(x.marker) =>
       x.marker \in Batch /\ x.body = call.batch[x.marker].body /\ call.sent[x.marker] = NoComment
Posts ==
  /\ DOMAIN posted \subseteq DOMAIN posted' /\ \A c \in DOMAIN posted : posted'[c] = posted[c]
  /\ \A c \in DOMAIN posted' \ DOMAIN posted : Brings(posted'[c])
Lays ==
  \A k \in DOMAIN drafts' :
    /\ Distinct => drafts'[k].body \in world.words[drafts'[k].marker]
    /\ Plain(drafts'[k].marker) =>
         /\ drafts'[k].marker \in Batch /\ drafts'[k].body = call.batch[drafts'[k].marker].body
         /\ call.sent[drafts'[k].marker] = NoComment
Fetched ==
  \/ call'.fetched = NoThreads /\ ~call'.has_threads
  \/ UNCHANGED <<posted, drafts>> /\ call'.fetched = Threads
Hears == \A i \in NoteId : call'.sent[i] # NoComment => call'.sent[i] = call.sent[i] \/ ToldOf(i)'
StillWaits ==
  call'.stage = "drafts" \/ (call'.stage = "replies" /\ kind = "gitlab") =>
    \A i \in call.comments : call'.sent[i] = NoComment

\* The records and the history stand still.
Apart == UNCHANGED <<world, kind, savedNote, savedCache, note, cache, open, listed, doubtful, raced, used>>

Sends == Apart /\ Kept(call') /\ Posts /\ Lays /\ Fetched /\ Hears /\ StillWaits

LEMMA ApartKeeps ==
  ASSUME Apart
  PROVE  /\ (Distinct' <=> Distinct) /\ (Stored => Stored') /\ NoComment' = NoComment /\ NoThreads' = NoThreads
         /\ \A i : Plain(i)' <=> Plain(i)
BY DEF Apart, Distinct, Stored, NoComment, NoThreads, Plain

LEMMA KeptBatch ==
  ASSUME Kept(call')
  PROVE  Batch' = Batch
BY DEF Kept, Batch

LEMMA PostsMarks ==
  ASSUME Types, Posts, NEW i \in NoteId, NEW c \in LiveOf(i)'
  PROVE  /\ c \in DOMAIN posted' /\ posted'[c].marker = i /\ posted'[c].live
         /\ \/ c \in LiveOf(i) /\ posted'[c] = posted[c]
            \/ c \notin DOMAIN posted /\ Brings(posted'[c])
BY DEF Posts, LiveOf, Live

LEMMA SendsSpent ==
  ASSUME Types, Sends, Spent
  PROVE  Spent'
BY DEF Sends, Apart, Kept, Posts, Brings, Spent

LEMMA SendsMirrors ==
  ASSUME Types, Sends
  PROVE  Mirrors'
<1>1. CASE call'.fetched = NoThreads /\ ~call'.has_threads
  BY <1>1, EmptyFetch DEF Mirrors
<1>2. CASE UNCHANGED <<posted, drafts>> /\ call'.fetched = Threads
  <2>1. posted \in Seq(Comment)
    BY DEF Types, ForgeTypes
  <2>2. DOMAIN Threads = Live /\ \A c \in DOMAIN Threads : Threads[c] = posted[c]
    BY DEF Threads
  <2>3. Live' = Live
    BY <1>2 DEF Live
  <2> QED BY <1>2, <2>2, <2>3 DEF Mirrors
<1> QED BY <1>1, <1>2 DEF Sends, Fetched

LEMMA SendsTold ==
  ASSUME Types, Told, Sends
  PROVE  Told'
<1>1. Batch' = Batch /\ NoComment' = NoComment /\ kind' = kind /\ call'.comments = call.comments
      /\ \A i : Plain(i)' <=> Plain(i)
  BY KeptBatch, ApartKeeps DEF Sends, Kept, Apart
<1>2. ASSUME NEW i \in NoteId, call.sent[i] # NoComment, ToldOf(i), call'.sent[i] = call.sent[i]
      PROVE  ToldOf(i)'
  <2>1. call.sent[i] \in DOMAIN posted /\ posted'[call.sent[i]] = posted[call.sent[i]]
        /\ call.sent[i] \in DOMAIN posted'
    BY <1>2 DEF ToldOf, Sends, Posts
  <2>2. ASSUME Plain(i), NEW c \in SentAs(i)' PROVE c = call.sent[i]
    <3>1. CASE c \in DOMAIN posted
      BY <1>2, <2>2, <3>1 DEF SentAs, ToldOf, Sends, Posts
    <3>2. CASE c \notin DOMAIN posted
      <4>1. c \in DOMAIN posted' /\ posted'[c].from = i
        BY DEF SentAs
      <4>2. Brings(posted'[c])
        BY <3>2, <4>1 DEF Sends, Posts
      <4> QED BY <1>2, <2>2, <4>1, <4>2 DEF Brings
    <3> QED BY <3>1, <3>2
  <2>3. ASSUME Plain(i), NEW k \in DraftedAs(i)' PROVE FALSE
    BY <1>2, <2>3 DEF DraftedAs, Sends, Lays
  <2> QED BY <1>1, <1>2, <2>1, <2>2, <2>3 DEF ToldOf
<1>3. ASSUME NEW i \in NoteId, call'.sent[i] # NoComment PROVE ToldOf(i)'
  BY <1>2, <1>3 DEF Sends, Hears, Told
<1>4. call'.stage = "drafts" \/ (call'.stage = "replies" /\ kind = "gitlab") =>
        \A i \in call.comments : call'.sent[i] = NoComment
  BY DEF Sends, StillWaits
<1> QED BY <1>1, <1>3, <1>4 DEF Told

LEMMA SendsTied ==
  ASSUME Types, Count, Stored, Tied, Sends, Told', call.kind # "edit"
  PROVE  Tied'
<1>1. Batch' = Batch /\ NoComment' = NoComment /\ call'.kind = call.kind /\ call'.batch = call.batch
      /\ UNCHANGED <<savedNote, savedCache>> /\ \A i : Plain(i)' <=> Plain(i)
  BY KeptBatch, ApartKeeps DEF Sends, Kept, Apart
<1> SUFFICES ASSUME NEW i \in NoteId, Plain(i)
             PROVE  (OnForge(i) /\ InCache(i) /\ InFetch(i) /\ InEdit(i) /\ InDrafts(i))'
  BY <1>1 DEF Tied
<1>2. OnForge(i) /\ InCache(i)
  BY DEF Tied
<1>3. OnForge(i)'
  <2>1. ASSUME NEW c \in LiveOf(i)'
        PROVE  savedNote[i].upstream = c \/ (i \in Batch /\ posted'[c].from = i)
    BY <1>2, PostsMarks DEF Sends, Brings, OnForge
  <2> QED BY <1>1, <2>1 DEF OnForge
<1>4. InCache(i)'
  BY <1>1, <1>2 DEF InCache
<1>5. InFetch(i)'
  <2>1. CASE call'.fetched = NoThreads
    BY <2>1, EmptyFetch DEF InFetch
  <2>2. CASE UNCHANGED <<posted, drafts>> /\ call'.fetched = Threads
    <3>1. DOMAIN Threads = Live /\ \A c \in Live : Threads[c] = posted[c]
      BY DEF Threads
    <3>2. ASSUME NEW c \in DOMAIN call'.fetched, call'.fetched[c].marker = i
          PROVE  c \in LiveOf(i)
      BY <2>2, <3>1, <3>2 DEF LiveOf
    <3>3. ASSUME NEW c \in LiveOf(i), i \in Batch
          PROVE  (\A d \in LiveOf(i) : d = c) /\ call'.sent[i] \in {NoComment, c} /\ DraftedAs(i)' = {}
      <4>1. c \in SentAs(i) /\ DraftedAs(i) = {} /\ \A d \in LiveOf(i) : d = c
        BY <1>2, <3>3, BatchIsOne
      <4>2. SentAs(i)' = SentAs(i) /\ DraftedAs(i)' = DraftedAs(i)
        BY <2>2 DEF SentAs, DraftedAs
      <4>3. call'.sent[i] # NoComment => SentAs(i)' \subseteq {call'.sent[i]}
        BY <1>1 DEF Told, ToldOf
      <4> QED BY <4>1, <4>2, <4>3
    <3>4. \A c \in LiveOf(i) : i \notin Batch => savedNote[i].upstream = c
      BY <1>2 DEF OnForge
    <3>5. \A c \in DOMAIN call'.fetched : call'.fetched[c].marker = i =>
            IF i \in Batch
            THEN /\ \A d \in DOMAIN call'.fetched : call'.fetched[d].marker = i => d = c
                 /\ call'.sent[i] \in {NoComment, c} /\ DraftedAs(i)' = {}
            ELSE savedNote[i].upstream = c
      BY <3>2, <3>3, <3>4
    <3> QED BY <1>1, <3>5 DEF InFetch
  <2> QED BY <2>1, <2>2 DEF Sends, Fetched
<1>6. InDrafts(i)'
  <2>1. ASSUME NEW k \in DraftedAs(i)' PROVE i \in Batch /\ drafts'[k].body = call.batch[i].body
    BY <2>1 DEF DraftedAs, Sends, Lays
  <2> QED BY <1>1, <2>1 DEF InDrafts
<1> QED BY <1>1, <1>3, <1>4, <1>5, <1>6 DEF InEdit

LEMMA SendsWorded ==
  ASSUME Types, Origin, Worded, Sends, call.kind # "edit"
  PROVE  Worded'
<1>1. Batch' = Batch /\ NoComment' = NoComment /\ call'.kind = call.kind /\ call'.batch = call.batch
      /\ UNCHANGED <<world, savedNote, savedCache>> /\ (Distinct' <=> Distinct)
  BY KeptBatch, ApartKeeps DEF Sends, Kept, Apart
<1> SUFFICES ASSUME Distinct
             PROVE  (WordsSent /\ \A i \in NoteId : savedNote[i] # Absent => WordsOf(i))'
  BY <1>1 DEF Worded
<1>2. WordsSent /\ \A i \in NoteId : savedNote[i] # Absent => WordsOf(i)
  BY DEF Worded
<1>3. \A c \in DOMAIN posted : c \in DOMAIN posted' /\ posted'[c] = posted[c]
  BY DEF Sends, Posts
<1>4. WordsSent'
  <2>1. \A c \in DOMAIN posted' : posted'[c].marker # NoNote => posted'[c].body \in world.words[posted'[c].marker]
    BY <1>2, <1>3 DEF WordsSent, Sends, Posts, Brings
  <2>2. \A k \in DOMAIN drafts' : drafts'[k].body \in world.words[drafts'[k].marker]
    BY DEF Sends, Lays
  <2> QED BY <1>1, <1>2, <2>1, <2>2 DEF WordsSent
<1>5. ASSUME NEW i \in NoteId, savedNote[i] # Absent PROVE WordsOf(i)'
  <2>1. WordsOf(i)
    BY <1>2, <1>5
  <2>2. savedNote[i].upstream # NoComment => savedNote[i].upstream \in DOMAIN posted
    BY <1>5 DEF Origin, Addressed, ItsOwn
  <2>3. DOMAIN savedCache \subseteq DOMAIN posted
    BY DEF Types, RecordTypes, IsFetch
  <2> QED BY <1>1, <1>3, <2>1, <2>2, <2>3 DEF WordsOf
<1> QED BY <1>1, <1>4, <1>5

LEMMA SendsSaid ==
  ASSUME Types, Said, Sends, call.kind # "edit"
  PROVE  Said'
<1>1. Batch' = Batch /\ NoComment' = NoComment /\ call'.kind = call.kind /\ call'.batch = call.batch
      /\ UNCHANGED <<savedNote, raced>> /\ (Distinct' <=> Distinct) /\ \A i : Plain(i)' <=> Plain(i)
  BY KeptBatch, ApartKeeps DEF Sends, Kept, Apart
<1>2. ~EditOut /\ ~EditOut'
  BY <1>1 DEF EditOut
<1>3. ASSUME NEW i \in NoteId \ raced, Plain(i) PROVE SaysOf(i)'
  <2>1. ASSUME NEW c \in LiveOf(i)', posted'[c].bared => Distinct
        PROVE  posted'[c].body = savedNote[i].body
    <3>1. CASE c \in LiveOf(i) /\ posted'[c] = posted[c]
      BY <1>2, <1>3, <2>1, <3>1 DEF Said, SaysOf
    <3>2. CASE Brings(posted'[c])
      <4>1. posted'[c].marker = i
        BY PostsMarks DEF Sends
      <4> QED BY <1>3, <3>2, <4>1 DEF Brings, Said, Plain
    <3> QED BY <3>1, <3>2, PostsMarks DEF Sends
  <2> QED BY <1>1, <2>1 DEF SaysOf
<1>4. \A i \in Batch \ raced : savedNote[i] # Absent /\ savedNote[i].body = call.batch[i].body
  BY DEF Said
<1> QED BY <1>1, <1>2, <1>3, <1>4 DEF Said

LEMMA SendsFaithful ==
  ASSUME Types, Origin, Count, Faithful, Sends, call.kind # "edit"
  PROVE  Faithful'
<1>1. Stored' /\ Spent' /\ Mirrors' /\ Told' /\ Worded' /\ Said'
  BY ApartKeeps, SendsSpent, SendsMirrors, SendsTold, SendsWorded, SendsSaid DEF Sends, Faithful
<1> QED BY <1>1, SendsTied DEF Faithful

----------------------------------------------------------------------------
(* What each step of the worker sends *)

\* What the drafts are, as the step before left them.
LEMMA DraftsLie ==
  ASSUME Types, Told, Tied, Worded, NEW k \in DOMAIN drafts
  PROVE  /\ Distinct => drafts[k].body \in world.words[drafts[k].marker]
         /\ Plain(drafts[k].marker) =>
              /\ drafts[k].marker \in Batch /\ drafts[k].body = call.batch[drafts[k].marker].body
              /\ call.sent[drafts[k].marker] = NoComment
<1>0. drafts[k] \in DraftNote
  BY DEF Types, ForgeTypes
<1>1. drafts[k].marker \in NoteId /\ k \in DraftedAs(drafts[k].marker)
  BY <1>0 DEF DraftNote, DraftedAs
<1>2. Distinct => drafts[k].body \in world.words[drafts[k].marker]
  BY DEF Worded, WordsSent
<1>3. ASSUME NEW i \in NoteId, i = drafts[k].marker, Plain(i), k \in DraftedAs(i)
      PROVE  i \in Batch /\ drafts[k].body = call.batch[i].body /\ call.sent[i] = NoComment
  BY <1>3 DEF Tied, InDrafts, Told, ToldOf
<1> QED BY <1>1, <1>2, <1>3

LEMMA DraftsStillLie ==
  ASSUME Types, Told, Tied, Worded, UNCHANGED drafts
  PROVE  Lays
BY DraftsLie DEF Lays

\* A worker's step that hears nothing of what is on the request.
LEMMA SendsUnheard ==
  ASSUME Types, Apart, Kept(call'), Posts, Lays, StillWaits, call.stage # "answered",
         call'.sent = call.sent, call'.fetched = call.fetched, call'.has_threads = call.has_threads
  PROVE  Sends
BY DEF Sends, Hears, Fetched, Types, CallTypes

LEMMA NothingPosted ==
  ASSUME UNCHANGED posted
  PROVE  Posts
BY DEF Posts

\* Comments of the batch, as they come up.
LEMMA BatchBrings ==
  ASSUME Types, Worded, NEW x, x.marker = x.from, x.marker \in Batch, x.body = call.batch[x.marker].body,
         call.sent[x.marker] = NoComment
  PROVE  Brings(x)
BY DEF Brings, Types, CallTypes, Worded, WordsSent

LEMMA CheckHeadSends ==
  ASSUME Types, Told, Tied, Worded, Apart, Kept(call'), CheckHead
  PROVE  Sends
<1>1. call \in Calls /\ call.stage = "head" /\ UNCHANGED <<posted, drafts>> /\ call.sent = NoCall.sent
      /\ ((\E s : StepTo(s)) \/ Fail) /\ call.comments \subseteq NoteId
  BY ApartSends DEF CheckHead, forge, Types, CallTypes
<1>2. call'.sent = call.sent /\ call'.fetched = call.fetched /\ call'.has_threads = call.has_threads
  BY <1>1 DEF StepTo, Fail, Calls
<1>3. StillWaits
  BY <1>1, <1>2, NoCallType DEF StillWaits, NoComment
<1> QED BY <1>1, <1>2, <1>3, DraftsStillLie, NothingPosted, SendsUnheard

LEMMA SendReviewSends ==
  ASSUME Types, Told, Tied, Worded, Apart, Kept(call'), SendReview
  PROVE  Sends
<1>1. call \in Calls /\ call.stage = "send" /\ UNCHANGED drafts /\ call.sent = NoCall.sent
      /\ (Fail \/ call' = [call EXCEPT !.stage = "list", !.base = Len(posted)]) /\ posted \in Seq(Comment)
  BY DEF SendReview, Types, ForgeTypes, CallTypes
<1>2. /\ call'.sent = call.sent /\ call'.fetched = call.fetched /\ call'.has_threads = call.has_threads
      /\ call'.stage \in {"answered", "list"}
  BY <1>1 DEF Fail, Calls
<1>3. Posts
  <2>1. CASE posted' = posted \o Posting(call.comments)
    <3>0. PICK new : new = Posting(call.comments)
      OBVIOUS
    <3>1. /\ new \in Seq(Comment)
          /\ \A k \in 1 .. Len(new) : /\ new[k].from \in call.comments /\ new[k].marker = new[k].from
                                      /\ new[k].body = call.batch[new[k].from].body
      BY <1>1, <3>0, BatchNotes, PostingType
    <3>2. \A k \in 1 .. Len(new) : Brings(new[k])
      <4>1. \A i \in NoteId : call.sent[i] = NoComment
        BY <1>1, NoCallType DEF NoComment
      <4>2. call.comments \subseteq Batch /\ call.comments \subseteq NoteId
        BY ApartSends DEF Batch
      <4> QED BY <3>1, <4>1, <4>2, BatchBrings
    <3>3. posted' = posted \o new
      BY <2>1, <3>0
    <3>4. /\ \A c \in DOMAIN posted : posted'[c] = posted[c]
          /\ \A c \in DOMAIN posted' :
              c \in DOMAIN posted \/ (\E k \in 1 .. Len(new) : c = Len(posted) + k)
          /\ \A k \in 1 .. Len(new) :
              Len(posted) + k \in DOMAIN posted' /\ posted'[Len(posted) + k] = new[k]
          /\ DOMAIN posted \subseteq DOMAIN posted'
      BY <1>1, <3>1, <3>3, Longer DEF Grows
    <3> QED BY <3>2, <3>4 DEF Posts
  <2> QED BY <2>1, NothingPosted DEF SendReview
<1> QED BY <1>1, <1>2, <1>3, DraftsStillLie, SendsUnheard DEF StillWaits

LEMMA SendReplySends ==
  ASSUME Types, Count, Told, Tied, Worded, Apart, Kept(call'), SendReply
  PROVE  Sends
<1>0. call \in Calls /\ call.stage = "replies" /\ UNCHANGED drafts /\ posted \in Seq(Comment)
      /\ ~call.has_threads /\ call.fetched = NoThreads
      /\ call.comments \cap call.replies = {} /\ call.comments \subseteq NoteId /\ call.replies \subseteq NoteId
      /\ call.sent \in [NoteId -> Nat] /\ kind \in {"github", "gitlab"}
  BY ApartSends DEF SendReply, Types, ForgeTypes, CallTypes, Calls
<1>1. PICK j \in call.replies, a \in Answers :
        /\ call.sent[j] = NoComment
        /\ posted' = IF a = "refused" THEN posted
                     ELSE Append(posted, CommentOf(j, Len(posted) + 1, call.batch[j].body, call.batch[j].reply_to))
        /\ IF a = "ok"
           THEN call' = [call EXCEPT !.sent[j] = Len(posted) + 1,
                  !.stage = IF {k \in call.replies \ {j} : call.sent[k] = NoComment} = {}
                            THEN AfterReplies ELSE "replies"]
           ELSE Stop
  BY DEF SendReply
<1>2. PICK x : x = CommentOf(j, Len(posted) + 1, call.batch[j].body, call.batch[j].reply_to)
  OBVIOUS
<1>3. x \in Comment /\ x.from = j /\ x.marker = j /\ x.body = call.batch[j].body
  <2>1. j \in NoteId /\ call.batch[j] \in Note /\ Len(posted) + 1 \in Id
    BY <1>0, BatchNotes DEF Batch, Id
  <2> QED BY <1>2, <2>1, CommentType DEF Note
<1>4. j \in Batch /\ j \in NoteId /\ Fresh(j) /\ Brings(x)
  <2>1. j \in Batch /\ j \in NoteId
    BY <1>0 DEF Batch
  <2>2. Fresh(j)
    BY <1>0, <1>1 DEF Count, Waiting
  <2> QED BY <1>1, <1>3, <2>1, <2>2, BatchBrings
<1>5. CASE a # "ok"
  <2>1. Stop
    BY <1>1, <1>5
  <2>2. call'.sent = call.sent /\ call'.fetched = call.fetched /\ call'.has_threads = call.has_threads
        /\ call'.stage \in {"answered", "refetch"}
    BY <1>0, <2>1 DEF Stop, Fail, StepTo, Calls
  <2>3. Posts
    <3>1. posted' = posted \/ posted' = Append(posted, x)
      BY <1>1, <1>2
    <3>2. CASE posted' = Append(posted, x)
      <4>1. /\ \A c \in DOMAIN posted : posted'[c] = posted[c]
            /\ DOMAIN posted' = DOMAIN posted \cup {Len(posted) + 1}
            /\ posted'[Len(posted) + 1] = x
        BY <1>0, <1>3, <3>2, OneMore
      <4> QED BY <1>4, <4>1 DEF Posts
    <3> QED BY <3>1, <3>2, NothingPosted
  <2> QED BY <1>0, <2>2, <2>3, DraftsStillLie, SendsUnheard DEF StillWaits
<1>6. CASE a = "ok"
  <2>1. PICK s : s = IF {k \in call.replies \ {j} : call.sent[k] = NoComment} = {} THEN AfterReplies ELSE "replies"
    OBVIOUS
  <2>2. PICK n : n = Len(posted) + 1
    OBVIOUS
  <2>3. call' = [call EXCEPT !.sent[j] = n, !.stage = s] /\ posted' = Append(posted, x)
    BY <1>1, <1>2, <1>6, <2>1, <2>2
  <2>4. /\ call'.sent = [call.sent EXCEPT ![j] = n] /\ call'.stage = s
        /\ call'.fetched = call.fetched /\ call'.has_threads = call.has_threads
    BY <1>0, <2>3 DEF Calls
  <2>5. /\ \A c \in DOMAIN posted : posted'[c] = posted[c]
        /\ DOMAIN posted' = DOMAIN posted \cup {n}
        /\ posted'[n] = x /\ n \notin DOMAIN posted
    BY <1>0, <1>3, <2>2, <2>3, OneMore
  <2>6. Posts
    BY <1>4, <2>5 DEF Posts
  <2>7. ToldOf(j)'
    <3>1. call'.sent[j] = n /\ Batch' = Batch
      BY <1>0, <1>4, <2>4, KeptBatch
    <3>2. ASSUME Plain(j) PROVE SentAs(j)' \subseteq {n} /\ DraftedAs(j)' = {}
      <4>1. SentAs(j) = {} /\ DraftedAs(j) = {}
        BY <1>4, <3>2 DEF Fresh, On, Plain
      <4> QED BY <1>0, <2>5, <4>1 DEF SentAs, DraftedAs
    <3>3. Plain(j)' <=> Plain(j)
      BY ApartKeeps
    <3> QED BY <1>3, <1>4, <2>5, <3>1, <3>2, <3>3 DEF ToldOf
  <2>8. Hears
    <3>1. \A i \in NoteId : i # j => call'.sent[i] = call.sent[i]
      BY <1>0, <2>4
    <3> QED BY <2>7, <3>1 DEF Hears
  <2>9. StillWaits
    <3>1. s = "drafts" => kind = "gitlab"
      BY <1>0, <2>1 DEF AfterReplies
    <3>2. kind = "gitlab" => \A i \in call.comments : call.sent[i] = NoComment
      BY <1>0 DEF Told
    <3>3. \A i \in call.comments : i \in NoteId /\ i # j
      BY <1>0
    <3> QED BY <1>0, <2>4, <3>1, <3>2, <3>3 DEF StillWaits
  <2> QED BY <1>0, <2>4, <2>6, <2>8, <2>9, DraftsStillLie DEF Sends, Fetched
<1> QED BY <1>5, <1>6

LEMMA DraftSends ==
  ASSUME Types, Told, Tied, Worded, Apart, Kept(call'), Draft
  PROVE  Sends
<1>0. call \in Calls /\ call.stage = "drafts" /\ UNCHANGED posted /\ drafts \in Seq(DraftNote)
      /\ call.comments \subseteq NoteId
  BY ApartSends DEF Draft, Types, ForgeTypes, CallTypes
<1>1. PICK j \in call.comments \ call.drafted, a \in Answers :
        /\ drafts' = IF a = "refused" THEN drafts
                     ELSE Append(drafts, [marker |-> j, body |-> call.batch[j].body])
        /\ IF a = "ok"
           THEN call' = [call EXCEPT !.drafted = call.drafted \cup {j},
                  !.stage = IF call.drafted \cup {j} = call.comments THEN "bulk" ELSE "drafts"]
           ELSE Stop
  BY DEF Draft
<1>2. /\ call'.sent = call.sent /\ call'.fetched = call.fetched /\ call'.has_threads = call.has_threads
      /\ call'.stage \in {"answered", "refetch", "bulk", "drafts"}
  BY <1>0, <1>1 DEF Stop, Fail, StepTo, Calls
<1>3. \A i \in call.comments : call.sent[i] = NoComment
  BY <1>0 DEF Told
<1>4. Lays
  <2>1. CASE UNCHANGED drafts
    BY <2>1, DraftsStillLie
  <2>2. CASE drafts' = Append(drafts, [marker |-> j, body |-> call.batch[j].body])
    <3>1. PICK d : d = [marker |-> j, body |-> call.batch[j].body]
      OBVIOUS
    <3>2. d.marker = j /\ d.body = call.batch[j].body /\ d \in DraftNote
      BY <1>0, <3>1, BatchNotes DEF DraftNote, Note
    <3>3. \A k \in DOMAIN drafts' : drafts'[k] = d \/ (k \in DOMAIN drafts /\ drafts'[k] = drafts[k])
      BY <1>0, <2>2, <3>1, <3>2
    <3>4. j \in Batch /\ (Distinct => call.batch[j].body \in world.words[j])
      BY DEF Batch, Worded, WordsSent
    <3>5. ASSUME NEW k \in DOMAIN drafts'
          PROVE  /\ Distinct => drafts'[k].body \in world.words[drafts'[k].marker]
                 /\ Plain(drafts'[k].marker) =>
                      /\ drafts'[k].marker \in Batch
                      /\ drafts'[k].body = call.batch[drafts'[k].marker].body
                      /\ call.sent[drafts'[k].marker] = NoComment
      <4>1. CASE drafts'[k] = d
        BY <1>3, <3>2, <3>4, <4>1
      <4>2. CASE k \in DOMAIN drafts /\ drafts'[k] = drafts[k]
        BY <4>2, DraftsLie
      <4> QED BY <3>3, <4>1, <4>2
    <3> QED BY <3>5 DEF Lays
  <2> QED BY <1>1, <2>1, <2>2
<1> QED BY <1>0, <1>2, <1>3, <1>4, NothingPosted, SendsUnheard DEF StillWaits

LEMMA BulkPublishSends ==
  ASSUME Types, Count, Told, Tied, Worded, Apart, Kept(call'), BulkPublish
  PROVE  Sends
<1>0. call \in Calls /\ call.stage = "bulk" /\ posted \in Seq(Comment) /\ drafts \in Seq(DraftNote)
  BY DEF BulkPublish, Types, ForgeTypes, CallTypes
<1>1. PICK a \in Answers :
        /\ IF a = "refused" THEN UNCHANGED <<posted, drafts>>
           ELSE posted' = posted \o OfDrafts /\ drafts' = <<>>
        /\ IF a = "ok" THEN StepTo("threads") ELSE Stop
  BY DEF BulkPublish, OfDrafts
<1>2. /\ call'.sent = call.sent /\ call'.fetched = call.fetched /\ call'.has_threads = call.has_threads
      /\ call'.stage \in {"answered", "refetch", "threads"}
  BY <1>0, <1>1 DEF Stop, Fail, StepTo, Calls
<1>3. Posts /\ Lays
  <2>1. CASE UNCHANGED <<posted, drafts>>
    BY <2>1, DraftsStillLie, NothingPosted
  <2>2. CASE posted' = posted \o OfDrafts /\ drafts' = <<>>
    <3>1. OfDrafts \in Seq(Comment) /\ Len(OfDrafts) = Len(drafts)
      BY <1>0, OfDraftsType
    <3>2. ASSUME NEW k \in 1 .. Len(drafts) PROVE Brings(OfDrafts[k])
      <4>1. OfDrafts[k] = CommentOf(drafts[k].marker, Len(posted) + k, drafts[k].body, NoComment)
        BY DEF OfDrafts
      <4>6. drafts[k] \in DraftNote
        BY <1>0
      <4>2. drafts[k].marker \in NoteId /\ drafts[k].body \in Body /\ Len(posted) + k \in Id /\ NoComment \in Nat
        BY <1>0, <4>6 DEF DraftNote, Id, NoComment
      <4>3. OfDrafts[k].marker = drafts[k].marker /\ OfDrafts[k].from = drafts[k].marker
            /\ OfDrafts[k].body = drafts[k].body
        BY <4>1, <4>2, CommentType
      <4>4. k \in DOMAIN drafts
        BY <1>0
      <4>5. drafts[k].marker \in used
        BY <4>2, <4>4 DEF Count, Known, On, DraftedAs
      <4> QED BY <4>3, <4>4, <4>5, DraftsLie DEF Brings
    <3>3. Posts
      BY <1>0, <2>2, <3>1, <3>2, Longer DEF Posts
    <3>4. Lays
      BY <2>2 DEF Lays
    <3> QED BY <3>3, <3>4
  <2> QED BY <1>1, <2>1, <2>2
<1> QED BY <1>0, <1>2, <1>3, SendsUnheard DEF StillWaits

\* A comment that goes by the marker of a note of the batch is the one that was
\* sent for it.
LEMMA MatchedIsTold ==
  ASSUME Types, Count, Stored, Tied, Apart, Kept(call'), UNCHANGED <<posted, drafts>>,
         call'.sent \in {call.sent, Matched(call.comments)}
  PROVE  Hears
<1>1. CASE call'.sent = call.sent
  BY <1>1 DEF Hears
<1>2. CASE call'.sent = Matched(call.comments)
  <2>1. ASSUME NEW i \in NoteId, i \in call.comments, NEW c \in LiveOf(i), call'.sent[i] = c
        PROVE  ToldOf(i)'
    <3>1. i \in Batch /\ Batch' = Batch /\ (Plain(i)' <=> Plain(i))
      BY <2>1, KeptBatch, ApartKeeps DEF Batch
    <3>2. Plain(i) => SentAs(i) \subseteq {c} /\ DraftedAs(i) = {}
      <4>1. Plain(i) => OnForge(i)
        BY DEF Tied
      <4> QED BY <3>1, <4>1, BatchIsOne
    <3>3. SentAs(i)' = SentAs(i) /\ DraftedAs(i)' = DraftedAs(i)
      BY DEF SentAs, DraftedAs
    <3>4. c \in DOMAIN posted' /\ posted'[c].marker = i
      BY DEF LiveOf, Live
    <3> QED BY <2>1, <3>1, <3>2, <3>3, <3>4 DEF ToldOf
  <2> QED BY <1>2, <2>1, MatchedType DEF Hears
<1> QED BY <1>1, <1>2

LEMMA ListReviewSends ==
  ASSUME Types, Count, Stored, Told, Tied, Worded, Apart, Kept(call'), ListReview
  PROVE  Sends
<1>0. call \in Calls /\ call.stage = "list" /\ UNCHANGED <<posted, drafts>> /\ kind = "github"
      /\ ~call.has_threads /\ call.fetched = NoThreads
  BY DEF ListReview, Types, ForgeTypes, CallTypes, forge, Count, Waiting
<1>1. /\ call'.sent \in {call.sent, Matched(call.comments)}
      /\ call'.fetched = call.fetched /\ call'.has_threads = call.has_threads
      /\ call'.stage \in {"refetch", ToReplies}
  BY <1>0 DEF ListReview, StepTo, Calls
<1>2. StillWaits
  BY <1>0, <1>1 DEF StillWaits, ToReplies, AfterReplies
<1>3. Hears
  BY <1>0, <1>1, MatchedIsTold
<1> QED BY <1>0, <1>1, <1>2, <1>3, DraftsStillLie, NothingPosted DEF Sends, Fetched

LEMMA FetchSends ==
  ASSUME Types, Count, Stored, Told, Tied, Worded, Apart, Kept(call'), FetchBack \/ FetchThreads
  PROVE  Sends
<1>0. call \in Calls /\ call.stage # "answered" /\ UNCHANGED <<posted, drafts>>
      /\ ~call.has_threads /\ call.fetched = NoThreads
  BY DEF FetchBack, FetchThreads, Types, ForgeTypes, CallTypes, forge
<1>1. /\ call'.sent \in {call.sent, Matched(call.comments)}
      /\ \/ call'.fetched = call.fetched /\ call'.has_threads = call.has_threads
         \/ call'.fetched = Threads
      /\ call'.stage \in {"refetch", "answered"}
  <2>1. CASE FetchThreads
    BY <1>0, <2>1 DEF FetchThreads, Calls
  <2>2. CASE StepTo("refetch")
    BY <1>0, <2>2 DEF StepTo, Calls
  <2>3. CASE call' = [call EXCEPT !.stage = "answered", !.has_threads = TRUE, !.fetched = Threads,
                        !.sent = IF kind = "gitlab" THEN Matched(call.comments) ELSE @]
    BY <1>0, <2>3 DEF Calls
  <2> QED BY <2>1, <2>2, <2>3 DEF FetchBack
<1>2. StillWaits
  BY <1>1 DEF StillWaits
<1>3. Hears
  BY <1>0, <1>1, MatchedIsTold
<1> QED BY <1>0, <1>1, <1>2, <1>3, DraftsStillLie, NothingPosted DEF Sends, Fetched

----------------------------------------------------------------------------
(* An edit or a deletion goes up *)

\* What it does on the request, and to its own call.
Acts ==
  LET t == call.target IN
  /\ t \in DOMAIN posted /\ DOMAIN posted' = DOMAIN posted
  /\ \A c \in DOMAIN posted : c # t => posted'[c] = posted[c]
  /\ \/ posted'[t] = posted[t] /\ call'.err
     \/ call.kind = "delete" /\ ~posted'[t].live /\ posted'[t].marker = posted[t].marker
        /\ posted'[t].body = posted[t].body
     \/ call.kind = "edit" /\ posted'[t].marker = call.linked /\ posted'[t].body = call.text /\ ~call'.err
  /\ UNCHANGED drafts /\ Kept(call') /\ call'.stage = "answered"
  /\ call'.fetched = NoThreads /\ ~call'.has_threads /\ call'.sent = NoCall.sent

LEMMA ActActs ==
  ASSUME Types, ~world.lossy, Kept(call'), Act
  PROVE  Acts /\ call.stage = "act" /\ Batch = {}
<1>1. call \in Calls /\ call.stage = "act" /\ posted \in Seq(Comment) /\ call.target \in DOMAIN posted
      /\ call.kind \in {"edit", "delete"} /\ Batch = {} /\ UNCHANGED drafts
      /\ call.fetched = NoThreads /\ ~call.has_threads /\ call.sent = NoCall.sent
  BY DEF Act, Types, ForgeTypes, CallTypes
<1>2. \/ posted' = posted /\ Fail
      \/ posted' = [posted EXCEPT ![call.target] = ActedOn] /\ StepTo("answered")
  <2>1. Answers = {"ok", "refused"}
    BY DEF Answers
  <2>2. posted[call.target] \in Comment
    BY <1>1
  <2> QED BY <1>1, <2>1, <2>2 DEF Act, ActedOn, Comment
<1>3. /\ call'.stage = "answered" /\ call'.fetched = NoThreads /\ ~call'.has_threads
      /\ call'.sent = NoCall.sent
  BY <1>1, <1>2, StepToKeeps, FailKeeps DEF Stages
<1>4. CASE posted' = posted /\ Fail
  <2>1. call'.err
    BY <1>1, <1>4, FailKeeps
  <2> QED BY <1>1, <1>3, <1>4, <2>1 DEF Acts
<1>5. CASE posted' = [posted EXCEPT ![call.target] = ActedOn] /\ StepTo("answered")
  <2>1. PICK x \in Comment : x = posted[call.target]
    BY <1>1
  <2>2. posted'[call.target] = ActedOn /\ DOMAIN posted' = DOMAIN posted
        /\ \A c \in DOMAIN posted : c # call.target => posted'[c] = posted[c]
    BY <1>1, <1>5
  <2>3. \/ call.kind = "delete" /\ ~ActedOn.live /\ ActedOn.marker = x.marker /\ ActedOn.body = x.body
        \/ call.kind = "edit" /\ ActedOn.marker = call.linked /\ ActedOn.body = call.text
    BY <1>1, <2>1 DEF ActedOn, Comment
  <2>4. ~call'.err
    BY <1>1, <1>5, StepToKeeps DEF Stages, Types, CallTypes
  <2> QED BY <1>1, <1>3, <2>1, <2>2, <2>3, <2>4 DEF Acts
<1> QED BY <1>1, <1>2, <1>4, <1>5

LEMMA ActFaithful ==
  ASSUME Types, Origin, Faithful, ~world.lossy, Apart, Kept(call'), Act
  PROVE  Faithful'
<1>0. Acts /\ call.stage = "act" /\ Batch = {} /\ Batch' = {}
  BY ActActs, KeptBatch
<1> DEFINE t == call.target
<1>1. /\ NoComment' = NoComment /\ call'.kind = call.kind /\ call'.target = t
      /\ call'.text = call.text /\ call'.linked = call.linked
      /\ UNCHANGED <<world, savedNote, savedCache, used, raced, drafts>>
      /\ (Distinct' <=> Distinct) /\ \A i : Plain(i)' <=> Plain(i)
  BY <1>0, ApartKeeps DEF Acts, Kept, Apart
<1>2. /\ t \in DOMAIN posted /\ DOMAIN posted' = DOMAIN posted
      /\ \A c \in DOMAIN posted : c # t => posted'[c] = posted[c]
      /\ \/ posted'[t] = posted[t] /\ call'.err
         \/ call.kind = "delete" /\ ~posted'[t].live /\ posted'[t].marker = posted[t].marker
            /\ posted'[t].body = posted[t].body
         \/ call.kind = "edit" /\ posted'[t].marker = call.linked /\ posted'[t].body = call.text /\ ~call'.err
      /\ call'.stage = "answered" /\ call'.fetched = NoThreads /\ ~call'.has_threads
      /\ \A i \in NoteId : call'.sent[i] = NoComment
  BY <1>0, NoCallType DEF Acts, NoComment
<1> HIDE DEF t
<1>3. ASSUME NEW i \in NoteId, NEW c \in LiveOf(i)'
      PROVE  \/ c \in LiveOf(i) /\ posted'[c] = posted[c] /\ (c # t \/ call'.err)
             \/ c = t /\ call.kind = "edit" /\ call.linked = i /\ posted'[t].body = call.text /\ ~call'.err
  <2>1. c \in DOMAIN posted' /\ posted'[c].live /\ posted'[c].marker = i
    BY DEF LiveOf, Live
  <2> QED BY <1>2, <2>1 DEF LiveOf, Live
<1>4. Stored' /\ Spent' /\ Mirrors' /\ Told'
  <2>1. Stored'
    BY ApartKeeps DEF Faithful
  <2>2. Spent'
    BY <1>1, <1>2 DEF Faithful, Spent
  <2>3. Mirrors'
    BY <1>2, EmptyFetch DEF Mirrors
  <2>4. Told'
    BY <1>1, <1>2 DEF Told
  <2> QED BY <2>1, <2>2, <2>3, <2>4
<1>5. ASSUME NEW i \in NoteId, Plain(i)
      PROVE  (OnForge(i) /\ InCache(i) /\ InFetch(i) /\ InEdit(i) /\ InDrafts(i))'
  <2>1. OnForge(i) /\ InCache(i) /\ InEdit(i) /\ InDrafts(i)
    BY <1>5 DEF Faithful, Tied
  <2>2. OnForge(i)'
    <3>1. \A c \in LiveOf(i)' : savedNote[i].upstream = c
      BY <1>0, <1>3, <2>1 DEF OnForge, InEdit, t
    <3> QED BY <1>1, <3>1 DEF OnForge
  <2>3. InCache(i)' /\ InEdit(i)'
    BY <1>1, <2>1 DEF InCache, InEdit, t
  <2>4. InFetch(i)'
    BY <1>2, EmptyFetch DEF InFetch
  <2>5. InDrafts(i)'
    BY <1>0, <1>1, <2>1 DEF InDrafts, DraftedAs
  <2> QED BY <2>2, <2>3, <2>4, <2>5
<1>6. Tied'
  BY <1>1, <1>5 DEF Tied
<1>7. Worded'
  <2> SUFFICES ASSUME Distinct
               PROVE  (WordsSent /\ \A i \in NoteId : savedNote[i] # Absent => WordsOf(i))'
    BY <1>1 DEF Worded
  <2>1. WordsSent /\ \A i \in NoteId : savedNote[i] # Absent => WordsOf(i)
    BY DEF Faithful, Worded
  <2>2. call.kind = "edit" /\ call.linked # NoNote => call.text \in world.words[call.linked]
    BY <2>1 DEF WordsSent
  <2>3. WordsSent'
    <3>1. \A c \in DOMAIN posted' : posted'[c].marker # NoNote => posted'[c].body \in world.words[posted'[c].marker]
      BY <1>2, <2>1, <2>2 DEF WordsSent
    <3> QED BY <1>0, <1>1, <2>1, <2>2, <3>1 DEF WordsSent
  <2>4. ASSUME NEW i \in NoteId, savedNote[i] # Absent PROVE WordsOf(i)'
    <3>1. WordsOf(i)
      BY <2>1, <2>4
    <3>2. savedNote[i].upstream # NoComment => savedNote[i].upstream \in DOMAIN posted
      BY <2>4 DEF Origin, Addressed, ItsOwn
    <3>3. DOMAIN savedCache \subseteq DOMAIN posted
      BY DEF Types, RecordTypes, IsFetch
    <3>4. i # NoNote
      BY PublishAssumption
    <3>5. ASSUME NEW c \in DOMAIN posted, posted[c].body \in world.words[i],
                 Links(savedNote, savedCache, i, c)
          PROVE  posted'[c].body \in world.words[i]
      <4>1. CASE c = t /\ call.kind = "edit"
        <5>1. i = call.linked
          BY <3>1, <3>5, <4>1 DEF WordsOf, t
        <5> QED BY <1>2, <2>2, <3>4, <3>5, <4>1, <5>1
      <4>2. CASE c # t \/ call.kind # "edit"
        BY <1>2, <3>5, <4>2
      <4> QED BY <4>1, <4>2
    <3>6. savedNote[i].upstream # NoComment => posted'[savedNote[i].upstream].body \in world.words[i]
      BY <2>4, <3>1, <3>2, <3>5 DEF WordsOf, Links
    <3>7. \A c \in DOMAIN savedCache : savedCache[c].marker = i => posted'[c].body \in world.words[i]
      BY <2>4, <3>1, <3>3, <3>5 DEF WordsOf, Links
    <3>8. call.kind = "edit" /\ Links(savedNote, savedCache, i, t) => i = call.linked
      BY <3>1 DEF WordsOf, t
    <3> QED BY <1>1, <3>1, <3>6, <3>7, <3>8 DEF WordsOf, Links
  <2> QED BY <1>1, <2>3, <2>4
<1>8. Said'
  <2>1. EditOut' <=> call.kind = "edit" /\ ~call'.err
    BY <1>1, <1>2 DEF EditOut
  <2>2. ASSUME NEW i \in NoteId \ raced, Plain(i), NEW c \in LiveOf(i)', posted'[c].bared => Distinct
        PROVE  posted'[c].body = savedNote[i].body \/ (EditOut' /\ t = c)
    <3>1. CASE c \in LiveOf(i) /\ posted'[c] = posted[c]
      <4>1. ~EditOut
        BY <1>0 DEF EditOut
      <4> QED BY <2>2, <3>1, <4>1 DEF Faithful, Said, SaysOf
    <3>2. CASE c = t /\ call.kind = "edit" /\ ~call'.err
      BY <2>1, <3>2
    <3> QED BY <1>3, <3>1, <3>2
  <2>3. EditOut' => posted'[t].body = call.text /\ posted'[t].marker = call.linked
    BY <1>2, <2>1
  <2>4. \A i \in NoteId \ raced : Plain(i) => SaysOf(i)'
    BY <1>1, <2>2 DEF SaysOf
  <2>5. call'.stage \in {"act", "answered"}
    BY <1>2
  <2>6. EditOut' => posted'[call'.target].body = call'.text /\ posted'[call'.target].marker = call'.linked
    BY <1>1, <2>3
  <2> QED BY <1>0, <1>1, <2>4, <2>5, <2>6 DEF Said
<1> QED BY <1>4, <1>6, <1>7, <1>8 DEF Faithful

LEMMA WorkerFaithful ==
  ASSUME Types, Origin, Count, Faithful, ~world.lossy, Worker
  PROVE  Faithful'
<1>1. Apart /\ Kept(call')
  BY WorkerTypes DEF Worker, disk, session, history, Apart
<1>2. Stored /\ Told /\ Tied /\ Worded /\ Said
  BY DEF Faithful
<1>3. CASE Act
  BY <1>1, <1>3, ActFaithful
<1>4. ASSUME call.stage \in Sending \cup {"refetch"}, Sends PROVE Faithful'
  <2>1. call.kind # "edit"
    BY <1>2, <1>4 DEF Said, Sending
  <2> QED BY <1>4, <2>1, SendsFaithful
<1>5. CASE CheckHead
  BY <1>1, <1>2, <1>4, <1>5, CheckHeadSends DEF CheckHead, Sending
<1>6. CASE SendReview
  BY <1>1, <1>2, <1>4, <1>6, SendReviewSends DEF SendReview, Sending
<1>7. CASE ListReview
  BY <1>1, <1>2, <1>4, <1>7, ListReviewSends DEF ListReview, Sending
<1>8. CASE SendReply
  BY <1>1, <1>2, <1>4, <1>8, SendReplySends DEF SendReply, Sending
<1>9. CASE Draft
  BY <1>1, <1>2, <1>4, <1>9, DraftSends DEF Draft, Sending
<1>10. CASE BulkPublish
  BY <1>1, <1>2, <1>4, <1>10, BulkPublishSends DEF BulkPublish, Sending
<1>11. CASE FetchBack \/ FetchThreads
  BY <1>1, <1>2, <1>4, <1>11, FetchSends DEF FetchBack, FetchThreads, Sending
<1> QED BY <1>3, <1>5, <1>6, <1>7, <1>8, <1>9, <1>10, <1>11 DEF Worker

----------------------------------------------------------------------------
(* The answer is recorded *)

\* The call is over, and note i is at rest.
Rests(i) ==
  /\ \A c \in LiveOf(i) : savedNote'[i].upstream = c
  /\ \A c \in DOMAIN savedCache' : savedCache'[c].marker = i => savedNote'[i].upstream = c
  /\ DraftedAs(i) = {}
  /\ i \notin raced => \A c \in LiveOf(i) :
       (posted[c].bared => Distinct) => posted[c].body = savedNote'[i].body
KeepsWord(i) ==
  /\ savedNote'[i].body \in world.words[i]
  /\ savedNote'[i].upstream # NoComment => posted[savedNote'[i].upstream].body \in world.words[i]
  /\ \A c \in DOMAIN savedCache' : savedCache'[c].marker = i => posted[c].body \in world.words[i]

LEMMA EndFaithful ==
  ASSUME Worded, Spent, call' = NoCall, UNCHANGED <<forge, used, raced>>, Stored',
         \A c \in DOMAIN savedCache' : savedCache'[c].marker \in used \cup {NoNote},
         \A i \in NoteId : i \notin doubtful' /\ savedNote'[i] # Absent => Rests(i),
         Distinct => \A i \in NoteId : savedNote'[i] # Absent => KeepsWord(i)
  PROVE  Faithful'
<1>1. /\ call'.kind = "none" /\ call'.sent = [i \in NoteId |-> 0] /\ call'.stage = "answered"
      /\ call'.fetched = NoThreads /\ ~call'.has_threads /\ call'.linked = NoNote /\ Batch' = {}
      /\ NoComment' = NoComment /\ NoThreads' = NoThreads
  BY NoCallType DEF Batch, NoComment, NoThreads
<1>2. UNCHANGED <<world, kind, posted, drafts>> /\ (Distinct' <=> Distinct)
      /\ \A i : LiveOf(i)' = LiveOf(i) /\ DraftedAs(i)' = DraftedAs(i)
  BY DEF forge, Distinct, LiveOf, Live, DraftedAs
<1>3. Spent'
  BY <1>1, <1>2 DEF Spent
<1>4. Mirrors' /\ Told'
  <2>1. Mirrors'
    BY <1>1, EmptyFetch DEF Mirrors
  <2>2. Told'
    BY <1>1 DEF Told, NoComment
  <2> QED BY <2>1, <2>2
<1>5. ASSUME NEW i \in NoteId, Plain(i)'
      PROVE  (OnForge(i) /\ InCache(i) /\ InFetch(i) /\ InEdit(i) /\ InDrafts(i))'
  <2>1. Rests(i)
    BY <1>5 DEF Plain
  <2>2. OnForge(i)' /\ InCache(i)'
    BY <1>2, <2>1 DEF Rests, OnForge, InCache
  <2>3. InFetch(i)' /\ InEdit(i)'
    BY <1>1, EmptyFetch DEF InFetch, InEdit
  <2>4. InDrafts(i)'
    BY <1>2, <2>1 DEF Rests, InDrafts
  <2> QED BY <2>2, <2>3, <2>4
<1>6. Tied'
  BY <1>5 DEF Tied
<1>7. Worded'
  <2> SUFFICES ASSUME Distinct
               PROVE  (WordsSent /\ \A i \in NoteId : savedNote[i] # Absent => WordsOf(i))'
    BY <1>2 DEF Worded
  <2>1. WordsSent'
    BY <1>1, <1>2 DEF Worded, WordsSent
  <2>2. ASSUME NEW i \in NoteId, savedNote'[i] # Absent PROVE WordsOf(i)'
    BY <1>1, <1>2, <2>2 DEF KeepsWord, WordsOf
  <2> QED BY <2>1, <2>2
<1>8. Said'
  <2>1. ~EditOut'
    BY <1>1 DEF EditOut
  <2>2. ASSUME NEW i \in NoteId \ raced', Plain(i)' PROVE SaysOf(i)'
    <3>1. Rests(i) /\ i \notin raced
      BY <2>2 DEF Plain
    <3> QED BY <1>2, <3>1 DEF Rests, SaysOf
  <2> QED BY <1>1, <2>1, <2>2 DEF Said
<1> QED BY <1>3, <1>4, <1>6, <1>7, <1>8 DEF Faithful

\* While a call runs and no save fails, the records are those in memory.
LEMMA RecordsAgree ==
  ASSUME Stored, open # "no"
  PROVE  note = savedNote /\ cache = savedCache
BY DEF Stored

\* A note that is no part of the call.
LEMMA OutOfTheCall ==
  ASSUME Types, Faithful, NEW i \in NoteId, Plain(i), i \notin Batch, ~EditOut
  PROVE  /\ \A c \in LiveOf(i) : savedNote[i].upstream = c
         /\ \A c \in DOMAIN savedCache : savedCache[c].marker = i => savedNote[i].upstream = c
         /\ DraftedAs(i) = {}
         /\ i \notin raced => \A c \in LiveOf(i) :
              (posted[c].bared => Distinct) => posted[c].body = savedNote[i].body
<1>1. OnForge(i) /\ InCache(i) /\ InDrafts(i)
  BY DEF Faithful, Tied
<1>2. i \notin raced => SaysOf(i)
  BY DEF Faithful, Said
<1> QED BY <1>1, <1>2 DEF OnForge, InCache, InDrafts, SaysOf

\* A note nothing carries the marker of, on the request or in a draft.
LEMMA NotThere ==
  ASSUME NEW i \in NoteId, ~There(i)
  PROVE  LiveOf(i) = {} /\ DraftedAs(i) = {}
BY DEF There, DraftedAs

LEMMA RecordErrorFaithful ==
  ASSUME Types, Faithful, RecordError
  PROVE  Faithful'
<1>1. /\ call' = NoCall /\ doubtful' = doubtful \cup Unnamed /\ UNCHANGED <<forge, used, raced, disk, note, cache, open, listed>>
      /\ call.err /\ call.sent = NoCall.sent /\ ~call.has_threads /\ call.fetched = NoThreads
  BY DEF RecordError, CallIsOver, Types, CallTypes
<1>2. UNCHANGED <<savedNote, savedCache>> /\ Stored'
  BY <1>1 DEF disk, Faithful, Stored
<1>3. \A i \in Batch : There(i) => i \in Unnamed
  <2>1. \A i \in NoteId : call.sent[i] = NoComment
    BY <1>1, NoCallType DEF NoComment
  <2>2. Batch \subseteq NoteId
    BY ApartSends DEF Batch
  <2> QED BY <1>1, <2>1, <2>2, EmptyFetch DEF Unnamed, Carries
<1>4. ASSUME NEW i \in NoteId, i \notin doubtful', savedNote'[i] # Absent PROVE Rests(i)
  <2>1. Plain(i) /\ ~EditOut
    BY <1>1, <1>2, <1>4 DEF Plain, EditOut
  <2>2. CASE i \notin Batch
    BY <1>2, <2>1, <2>2, OutOfTheCall DEF Rests
  <2>3. CASE i \in Batch
    <3>1. LiveOf(i) = {} /\ DraftedAs(i) = {}
      BY <1>1, <1>3, <1>4, <2>3, NotThere
    <3>2. InCache(i)
      BY <2>1 DEF Faithful, Tied
    <3> QED BY <1>2, <3>1, <3>2 DEF Rests, InCache
  <2> QED BY <2>2, <2>3
<1>5. ASSUME Distinct, NEW i \in NoteId, savedNote'[i] # Absent PROVE KeepsWord(i)
  BY <1>2, <1>5 DEF Faithful, Worded, WordsOf, KeepsWord
<1>6. \A c \in DOMAIN savedCache' : savedCache'[c].marker \in used \cup {NoNote}
  BY <1>2 DEF Faithful, Spent
<1> QED BY <1>1, <1>2, <1>4, <1>5, <1>6, EndFaithful DEF Faithful

LEMMA RecordDeleteFaithful ==
  ASSUME Types, Faithful, ~world.lossy, RecordDelete
  PROVE  Faithful'
<1>1. call' = NoCall /\ UNCHANGED <<forge, used, raced, open>> /\ doubtful \subseteq doubtful'
      /\ open # "no" /\ call.kind = "delete" /\ Batch = {} /\ ~EditOut
  BY DEF RecordDelete, CallIsOver, Answered, Types, CallTypes, EditOut
<1>2. note = savedNote /\ cache = savedCache
  BY <1>1, RecordsAgree DEF Faithful
<1>3. PICK G \in SUBSET NoteId, S \in SUBSET DOMAIN cache :
        /\ savedNote' = [i \in NoteId |-> IF i \in G THEN Absent ELSE savedNote[i]] /\ note' = savedNote'
        /\ savedCache' = [d \in S |-> savedCache[d]] /\ cache' = savedCache'
  <2>1. Saves = {TRUE}
    BY DEF Saves
  <2>2. LET c      == call.target
            cached == c \in DOMAIN cache
            threads == [d \in DOMAIN cache \ {c} |-> cache[d]]
            kept   == [i \in NoteId |-> IF Links(note, cache, i, c) THEN Absent ELSE note[i]]
        IN  /\ cache' = threads
            /\ savedCache' = IF cached THEN threads ELSE savedCache
            /\ note' = kept /\ savedNote' = IF kept # note THEN kept ELSE savedNote
    BY <2>1 DEF RecordDelete
  <2>3. PICK G : G = {i \in NoteId : Links(note, cache, i, call.target)}
    OBVIOUS
  <2>4. note' = [i \in NoteId |-> IF i \in G THEN Absent ELSE savedNote[i]] /\ savedNote' = note'
    BY <1>2, <2>2, <2>3
  <2>5. PICK S : S = DOMAIN cache \ {call.target}
    OBVIOUS
  <2>6. cache' = [d \in S |-> savedCache[d]] /\ savedCache' = cache'
    <3>1. cache \in [DOMAIN cache -> Comment]
      BY DEF Types, RecordTypes, IsFetch, Fetches
    <3>2. call.target \notin DOMAIN cache => S = DOMAIN cache /\ [d \in S |-> cache[d]] = cache
      BY <2>5, <3>1
    <3> QED BY <1>2, <2>2, <2>5, <3>2
  <2> QED BY <2>3, <2>4, <2>5, <2>6
<1>4. ASSUME NEW i \in NoteId, savedNote'[i] # Absent
      PROVE  /\ savedNote'[i] = savedNote[i] /\ savedNote[i] # Absent
             /\ DOMAIN savedCache' \subseteq DOMAIN savedCache
             /\ \A c \in DOMAIN savedCache' : savedCache'[c] = savedCache[c]
  BY <1>2, <1>3, <1>4
<1>5. ASSUME NEW i \in NoteId, i \notin doubtful', savedNote'[i] # Absent PROVE Rests(i)
  <2>1. Plain(i)
    BY <1>1, <1>4, <1>5 DEF Plain
  <2> QED BY <1>1, <1>4, <1>5, <2>1, OutOfTheCall DEF Rests
<1>6. ASSUME Distinct, NEW i \in NoteId, savedNote'[i] # Absent PROVE KeepsWord(i)
  BY <1>4, <1>6 DEF Faithful, Worded, WordsOf, KeepsWord
<1>7. \A c \in DOMAIN savedCache' : savedCache'[c].marker \in used \cup {NoNote}
  BY <1>2, <1>3 DEF Faithful, Spent
<1>8. Stored'
  BY <1>1, <1>3 DEF Stored
<1> QED BY <1>1, <1>5, <1>6, <1>7, <1>8, EndFaithful DEF Faithful

\* The note an answered edit is recorded in is the one it was made for: the
\* only one linked to the comment, unless two notes share their words.
LEMMA EditedIsLinked ==
  ASSUME Types, Origin, Faithful, open # "no", EditOut,
         NEW i \in NoteId, call.target \in LiveOf(i), posted[call.target].bared => Distinct,
         NEW k \in NoteId, Links(savedNote, savedCache, k, call.target)
  PROVE  k = i
<1>1. PICK t : t = call.target
  OBVIOUS
<1>2. t \in DOMAIN posted /\ posted[t].marker = i /\ call.linked = i /\ call.kind = "edit"
  BY <1>1 DEF LiveOf, Live, Faithful, Said, EditOut
<1>3. CASE Distinct
  BY <1>1, <1>2, <1>3 DEF Faithful, Worded, WordsOf, Links
<1>4. CASE ~posted[t].bared
  <2>1. posted[t].from = i
    BY <1>2, <1>4 DEF Origin, Sound
  <2>2. CASE savedNote[k].upstream = t
    <3>1. savedNote[k] # Absent
      BY DEF Links
    <3>2. t # NoComment
      BY <1>2 DEF Types, ForgeTypes, NoComment
    <3> QED BY <1>4, <2>1, <2>2, <3>1, <3>2 DEF Origin, Addressed, ItsOwn
  <2>3. CASE t \in DOMAIN savedCache /\ savedCache[t].marker = k
    BY <1>4, <2>1, <2>3 DEF Origin, Copied
  <2> QED BY <1>1, <2>2, <2>3 DEF Links
<1> QED BY <1>1, <1>3, <1>4

LEMMA RecordEditFaithful ==
  ASSUME Types, Origin, Faithful, ~world.lossy, RecordEdit
  PROVE  Faithful'
<1>1. call' = NoCall /\ UNCHANGED <<forge, used, raced, open>> /\ doubtful \subseteq doubtful'
      /\ open # "no" /\ call.kind = "edit" /\ Batch = {} /\ EditOut /\ call.text \in Body
      /\ call.target \in DOMAIN posted
  BY DEF RecordEdit, CallIsOver, Answered, Types, CallTypes, EditOut
<1>2. note = savedNote /\ cache = savedCache
  BY <1>1, RecordsAgree DEF Faithful
<1>3. PICK t, b : t = call.target /\ b = call.text
  OBVIOUS
<1>4. /\ savedCache' = IF t \in DOMAIN savedCache THEN [savedCache EXCEPT ![t].body = b] ELSE savedCache
      /\ cache' = savedCache' /\ note' = savedNote'
      /\ \/ savedNote' = savedNote /\ \A i \in NoteId : ~Links(savedNote, savedCache, i, t)
         \/ \E k \in NoteId : /\ Links(savedNote, savedCache, k, t)
                              /\ savedNote' = [savedNote EXCEPT ![k].body = b]
  <2>1. Saves = {TRUE}
    BY DEF Saves
  <2>2. LET c      == call.target
            cached == c \in DOMAIN cache
            threads == IF cached THEN [cache EXCEPT ![c].body = call.text] ELSE cache
            linked == {i \in NoteId : Links(note, cache, i, c)}
        IN  /\ cache' = threads
            /\ savedCache' = IF cached THEN threads ELSE savedCache
            /\ \/ linked = {} /\ UNCHANGED <<note, savedNote>>
               \/ \E i \in linked :
                    /\ note' = [note EXCEPT ![i].body = call.text]
                    /\ savedNote' = note'
    BY <2>1 DEF RecordEdit
  <2> QED BY <1>2, <1>3, <2>2
<1>5. /\ DOMAIN savedCache' = DOMAIN savedCache
      /\ \A c \in DOMAIN savedCache : savedCache'[c].marker = savedCache[c].marker
  <2>1. \A c \in DOMAIN savedCache : savedCache[c] \in Comment
    BY DEF Types, RecordTypes, IsFetch, Fetches
  <2>2. CASE t \in DOMAIN savedCache
    <3>1. PICK x \in Comment : x = savedCache[t]
      BY <2>1, <2>2
    <3>2. savedCache' = [savedCache EXCEPT ![t] = [x EXCEPT !.body = b]]
      BY <1>4, <2>2, <3>1
    <3>3. [x EXCEPT !.body = b].marker = x.marker
      BY DEF Comment
    <3> QED BY <2>2, <3>1, <3>2, <3>3
  <2> QED BY <1>4, <2>2
<1>6. ASSUME NEW i \in NoteId, savedNote'[i] # Absent
      PROVE  /\ savedNote[i] # Absent /\ savedNote'[i].upstream = savedNote[i].upstream
             /\ \/ savedNote'[i] = savedNote[i]
                \/ savedNote'[i].body = b /\ Links(savedNote, savedCache, i, t)
  <2>1. savedNote \in Notes
    BY DEF Types, RecordTypes
  <2>2. ASSUME NEW k \in NoteId, Links(savedNote, savedCache, k, t),
               savedNote' = [savedNote EXCEPT ![k].body = b]
        PROVE  /\ savedNote[i] # Absent /\ savedNote'[i].upstream = savedNote[i].upstream
               /\ savedNote'[i] = savedNote[i] \/ (savedNote'[i].body = b /\ i = k)
    <3>1. PICK n \in Note : n = savedNote[k]
      BY <2>1, <2>2 DEF Notes, Links
    <3>2. savedNote' = [savedNote EXCEPT ![k] = [n EXCEPT !.body = b]] /\ n # Absent
      BY <2>2, <3>1 DEF Links
    <3>3. [n EXCEPT !.body = b].body = b /\ [n EXCEPT !.body = b].upstream = n.upstream
      BY DEF Note
    <3>4. DOMAIN savedNote = NoteId
      BY <2>1 DEF Notes
    <3> QED BY <1>6, <3>1, <3>2, <3>3, <3>4
  <2> QED BY <1>4, <1>6, <2>2
<1>7. ASSUME NEW i \in NoteId, i \notin doubtful', savedNote'[i] # Absent PROVE Rests(i)
  <2>1. Plain(i) /\ savedNote'[i].upstream = savedNote[i].upstream
    BY <1>1, <1>6, <1>7 DEF Plain
  <2>2. OnForge(i) /\ InCache(i) /\ InDrafts(i)
    BY <2>1 DEF Faithful, Tied
  <2>3. \A c \in LiveOf(i) : savedNote[i].upstream = c
    BY <1>1, <2>2 DEF OnForge
  <2>4. ASSUME i \notin raced, NEW c \in LiveOf(i), posted[c].bared => Distinct
        PROVE  posted[c].body = savedNote'[i].body
    <3>1. posted[c].body = savedNote[i].body \/ t = c
      BY <1>3, <2>1, <2>4 DEF Faithful, Said, SaysOf
    <3>2. CASE t = c
      <4>1. posted[c].body = b
        BY <1>1, <1>3, <3>2 DEF Faithful, Said
      <4>2. Links(savedNote, savedCache, i, t)
        BY <2>1, <2>3, <3>2 DEF Links, Plain
      <4>3. \A k \in NoteId : Links(savedNote, savedCache, k, t) => k = i
        BY <1>1, <1>3, <2>4, <3>2, EditedIsLinked
      <4>4. savedNote' = [savedNote EXCEPT ![i].body = b]
        BY <1>4, <4>2, <4>3
      <4>5. PICK n \in Note : n = savedNote[i]
        BY <2>1 DEF Types, RecordTypes, Notes, Plain
      <4>6. savedNote'[i] = [n EXCEPT !.body = b]
        BY <4>4, <4>5 DEF Types, RecordTypes, Notes
      <4> QED BY <4>1, <4>5, <4>6 DEF Note
    <3>3. CASE t # c
      <4>1. ~Links(savedNote, savedCache, i, t)
        BY <2>2, <2>3, <3>3 DEF Links, InCache
      <4> QED BY <1>6, <1>7, <3>1, <3>3, <4>1
    <3> QED BY <3>2, <3>3
  <2>5. DraftedAs(i) = {}
    BY <1>1, <2>2 DEF InDrafts
  <2>6. \A c \in DOMAIN savedCache' : savedCache'[c].marker = i => savedNote'[i].upstream = c
    BY <1>5, <2>1, <2>2 DEF InCache
  <2>7. i \notin raced => \A c \in LiveOf(i) :
          (posted[c].bared => Distinct) => posted[c].body = savedNote'[i].body
    BY <2>4
  <2> QED BY <2>1, <2>3, <2>5, <2>6, <2>7 DEF Rests
<1>8. ASSUME Distinct, NEW i \in NoteId, savedNote'[i] # Absent PROVE KeepsWord(i)
  <2>1. WordsOf(i) /\ WordsSent
    BY <1>6, <1>8 DEF Faithful, Worded
  <2>2. Links(savedNote, savedCache, i, t) => b \in world.words[i]
    <3>1. i # NoNote
      BY PublishAssumption
    <3> QED BY <1>1, <1>3, <2>1, <3>1 DEF WordsOf, WordsSent
  <2>3. savedNote'[i].body \in world.words[i]
    BY <1>6, <1>8, <2>1, <2>2 DEF WordsOf
  <2> QED BY <1>5, <1>6, <1>8, <2>1, <2>3 DEF WordsOf, KeepsWord
<1>9. \A c \in DOMAIN savedCache' : savedCache'[c].marker \in used \cup {NoNote}
  BY <1>5 DEF Faithful, Spent
<1>10. Stored'
  BY <1>1, <1>4 DEF Stored
<1> QED BY <1>1, <1>7, <1>8, <1>9, <1>10, EndFaithful DEF Faithful

\* What an answer makes of the records: what it names has that address, what it
\* carries the marker of that of one that carries it, and what else has none may
\* be taken to be a comment that carries no marker, in the same words.
NotesFollow(M, N, sent, T) ==
  \A i \in NoteId :
    /\ M[i] = Absent <=> N[i] = Absent
    /\ N[i] # Absent =>
         /\ M[i].body = N[i].body
         /\ sent[i] # NoComment => M[i].upstream = sent[i]
         /\ sent[i] = NoComment /\ N[i].upstream # NoComment => M[i].upstream = N[i].upstream
         /\ sent[i] = NoComment /\ N[i].upstream = NoComment =>
              IF Carries(T, i)
              THEN \E c \in DOMAIN T : T[c].marker = i /\ M[i].upstream = c
              ELSE \/ M[i].upstream = NoComment
                   \/ \E c \in DOMAIN T :
                        T[c].marker = NoNote /\ T[c].body = N[i].body /\ M[i].upstream = c
CacheFollows(C, M, N, T) ==
  /\ DOMAIN C = DOMAIN T
  /\ \A c \in DOMAIN T :
       \/ C[c] = T[c]
       \/ \E i \in NoteId : /\ N[i] # Absent /\ M[i].upstream = c /\ T[c].body = N[i].body
                            /\ C[c].marker = i

LEMMA MarkedFollow ==
  ASSUME NEW N \in Notes, NEW sent \in [NoteId -> Nat], NEW T \in Fetches,
         NEW M, M = MarkPublished(N, sent)
  PROVE  /\ M \in Notes
         /\ \A i \in NoteId :
              /\ M[i] = Absent <=> N[i] = Absent
              /\ N[i] # Absent => /\ M[i].body = N[i].body
                                  /\ M[i].upstream = IF sent[i] # NoComment THEN sent[i] ELSE N[i].upstream
<1>1. /\ M \in Notes
      /\ \A i \in NoteId : M[i] = IF N[i] # Absent /\ sent[i] # NoComment
                                  THEN [N[i] EXCEPT !.upstream = sent[i]] ELSE N[i]
  BY MarkPublishedType
<1>2. ASSUME NEW i \in NoteId, N[i] # Absent, sent[i] # NoComment
      PROVE  M[i] # Absent /\ M[i].body = N[i].body /\ M[i].upstream = sent[i]
  <2>1. PICK n \in Note : n = N[i]
    BY <1>2 DEF Notes
  <2>2. [n EXCEPT !.upstream = sent[i]] \in Note
    BY DEF Note
  <2>3. M[i] = [n EXCEPT !.upstream = sent[i]]
    BY <1>1, <1>2, <2>1
  <2> QED BY <2>1, <2>2, <2>3, PublishAssumption DEF Note
<1> QED BY <1>1, <1>2

LEMMA AddressedFollow ==
  ASSUME NEW M \in Notes, NEW T \in Fetches, NEW A, A = ByMarker(M, T)
  PROVE  /\ A \in Notes
         /\ \A i \in NoteId :
              /\ A[i] = Absent <=> M[i] = Absent
              /\ M[i] # Absent =>
                   /\ A[i].body = M[i].body
                   /\ IF M[i].upstream = NoComment /\ Carries(T, i)
                      THEN \E c \in DOMAIN T : T[c].marker = i /\ A[i].upstream = c
                      ELSE A[i].upstream = M[i].upstream
<1>1. /\ A \in Notes
      /\ \A i \in NoteId :
           \/ A[i] = M[i] /\ ~(i \in Unsent(M) /\ Carries(T, i))
           \/ /\ i \in Unsent(M)
              /\ \E c \in DOMAIN T :
                   T[c].marker = i /\ A[i] = [M[i] EXCEPT !.upstream = c]
  <2>1. M \in Notes /\ T \in Fetches
    OBVIOUS
  <2>2. /\ ByMarker(M, T) \in Notes
        /\ \A i \in NoteId :
             \/ ByMarker(M, T)[i] = M[i] /\ ~(i \in Unsent(M) /\ Carries(T, i))
             \/ /\ i \in Unsent(M)
                /\ \E c \in DOMAIN T :
                     T[c].marker = i /\ ByMarker(M, T)[i] = [M[i] EXCEPT !.upstream = c]
    BY ONLY <2>1, ByMarkerType
  <2> QED BY <2>2
<1>2. ASSUME NEW i \in NoteId, i \in Unsent(M), NEW c \in DOMAIN T, T[c].marker = i,
             A[i] = [M[i] EXCEPT !.upstream = c]
      PROVE  A[i] # Absent /\ M[i] # Absent /\ A[i].body = M[i].body /\ A[i].upstream = c
             /\ M[i].upstream = NoComment /\ Carries(T, i)
  <2>1. PICK n \in Note : n = M[i]
    BY <1>2 DEF Notes, Unsent, Ids
  <2>2. c \in Nat
    BY DEF Fetches, Id
  <2>3. A[i] = [n EXCEPT !.upstream = c] /\ [n EXCEPT !.upstream = c] \in Note
    BY <1>2, <2>1, <2>2 DEF Note
  <2>4. A[i].body = n.body /\ A[i].upstream = c /\ A[i] # Absent
    BY <2>3, PublishAssumption DEF Note
  <2> QED BY <1>2, <2>1, <2>4 DEF Unsent, Ids, Carries
<1>3. ASSUME NEW i \in NoteId, M[i] # Absent, ~(i \in Unsent(M) /\ Carries(T, i))
      PROVE  ~(M[i].upstream = NoComment /\ Carries(T, i))
  BY <1>3 DEF Unsent, Ids
<1>4. ASSUME NEW i \in NoteId
      PROVE  /\ A[i] = Absent <=> M[i] = Absent
             /\ M[i] # Absent =>
                   /\ A[i].body = M[i].body
                   /\ IF M[i].upstream = NoComment /\ Carries(T, i)
                      THEN \E c \in DOMAIN T : T[c].marker = i /\ A[i].upstream = c
                      ELSE A[i].upstream = M[i].upstream
  <2>1. CASE A[i] = M[i] /\ ~(i \in Unsent(M) /\ Carries(T, i))
    BY <1>3, <2>1
  <2>2. CASE i \in Unsent(M) /\ \E c \in DOMAIN T :
               T[c].marker = i /\ A[i] = [M[i] EXCEPT !.upstream = c]
    BY <1>2, <2>2
  <2> QED BY <1>1, <2>1, <2>2
<1> QED BY <1>1, <1>4

LEMMA AnswerFollows ==
  ASSUME NEW N \in Notes, NEW sent \in [NoteId -> Nat], NEW T \in Fetches, NEW b,
         Heals(b, ByMarker(MarkPublished(N, sent), T), T)
  PROVE  NotesFollow(b.note, N, sent, T) /\ CacheFollows(b.cache, b.note, N, T)
<1>1. PICK M : M = MarkPublished(N, sent)
  OBVIOUS
<1>2. /\ M \in Notes
      /\ \A i \in NoteId :
              /\ M[i] = Absent <=> N[i] = Absent
              /\ N[i] # Absent => /\ M[i].body = N[i].body
                                  /\ M[i].upstream = IF sent[i] # NoComment THEN sent[i] ELSE N[i].upstream
  BY <1>1, MarkedFollow
<1>3. PICK A : A = ByMarker(M, T)
  OBVIOUS
<1>4. /\ A \in Notes
      /\ \A i \in NoteId :
              /\ A[i] = Absent <=> M[i] = Absent
              /\ M[i] # Absent =>
                   /\ A[i].body = M[i].body
                   /\ IF M[i].upstream = NoComment /\ Carries(T, i)
                      THEN \E c \in DOMAIN T : T[c].marker = i /\ A[i].upstream = c
                      ELSE A[i].upstream = M[i].upstream
  BY <1>2, <1>3, AddressedFollow
<1>5. /\ b.note \in Notes /\ b.cache \in [DOMAIN T -> Comment]
      /\ \A i \in NoteId : b.note[i] = A[i] \/ \E c \in DOMAIN T : Takes(b, A, T, i, c)
      /\ \A c \in DOMAIN T : b.cache[c] = T[c] \/ \E i \in NoteId : Takes(b, A, T, i, c)
  BY <1>1, <1>3 DEF Heals
<1>6. T \in [DOMAIN T -> Comment] /\ DOMAIN T \subseteq Id
  BY DEF Fetches
<1>7. ASSUME NEW i \in NoteId, NEW c \in DOMAIN T, Takes(b, A, T, i, c)
      PROVE  /\ b.note[i] # Absent /\ N[i] # Absent /\ b.note[i].body = N[i].body
             /\ b.note[i].upstream = c /\ A[i].upstream = NoComment
             /\ T[c].marker = NoNote /\ T[c].body = N[i].body /\ b.cache[c].marker = i
  <2>1. A[i] # Absent /\ A[i].upstream = NoComment /\ T[c].body = A[i].body /\ T[c].marker = NoNote
        /\ b.note[i] = [A[i] EXCEPT !.upstream = c] /\ b.cache[c] = [T[c] EXCEPT !.marker = i]
    BY <1>7 DEF Takes
  <2>2. PICK n \in Note : n = A[i]
    BY <1>4, <2>1 DEF Notes
  <2>3. [n EXCEPT !.upstream = c] \in Note
    BY <1>6 DEF Note, Id
  <2>4. b.note[i].body = n.body /\ b.note[i].upstream = c /\ b.note[i] # Absent
    BY <2>1, <2>2, <2>3, PublishAssumption DEF Note
  <2>5. PICK x \in Comment : x = T[c]
    BY <1>6
  <2>6. b.cache[c].marker = i
    BY <2>1, <2>5 DEF Comment
  <2> QED BY <1>2, <1>4, <2>1, <2>2, <2>4, <2>6
<1>8. ASSUME NEW i \in NoteId
      PROVE  b.note[i] = Absent <=> N[i] = Absent
  BY <1>2, <1>4, <1>5, <1>7
<1>9. ASSUME NEW i \in NoteId, N[i] # Absent
      PROVE  /\ b.note[i].body = N[i].body
             /\ sent[i] # NoComment => b.note[i].upstream = sent[i]
             /\ sent[i] = NoComment /\ N[i].upstream # NoComment => b.note[i].upstream = N[i].upstream
             /\ sent[i] = NoComment /\ N[i].upstream = NoComment =>
                  IF Carries(T, i)
                  THEN \E c \in DOMAIN T : T[c].marker = i /\ b.note[i].upstream = c
                  ELSE \/ b.note[i].upstream = NoComment
                       \/ \E c \in DOMAIN T :
                            T[c].marker = NoNote /\ T[c].body = N[i].body /\ b.note[i].upstream = c
  <2>1. /\ A[i].body = N[i].body
        /\ sent[i] # NoComment => A[i].upstream = sent[i]
        /\ sent[i] = NoComment /\ N[i].upstream # NoComment => A[i].upstream = N[i].upstream
        /\ sent[i] = NoComment /\ N[i].upstream = NoComment =>
             IF Carries(T, i) THEN \E c \in DOMAIN T : T[c].marker = i /\ A[i].upstream = c
             ELSE A[i].upstream = NoComment
    BY <1>2, <1>4, <1>9
  <2>2. A[i].upstream # NoComment \/ b.note[i] = A[i] =>
          b.note[i] = A[i]
    BY <1>5, <1>7
  <2>3. \A c \in DOMAIN T : c # NoComment
    BY <1>6 DEF Id, NoComment
  <2>4. CASE b.note[i] = A[i]
    BY <2>1, <2>4
  <2>5. CASE b.note[i] # A[i]
    <3>1. PICK c \in DOMAIN T : Takes(b, A, T, i, c)
      BY <1>5, <2>5
    <3> QED BY <1>7, <2>1, <2>3, <3>1
  <2> QED BY <2>4, <2>5
<1>10. NotesFollow(b.note, N, sent, T)
  BY <1>8, <1>9 DEF NotesFollow
<1>11. CacheFollows(b.cache, b.note, N, T)
  BY <1>5, <1>7 DEF CacheFollows
<1> QED BY <1>10, <1>11

\* A recorded answer, with no save failed.
LEMMA RecordThreadsFollows ==
  ASSUME Types, Stored, ~world.lossy, RecordThreads
  PROVE  /\ call' = NoCall /\ UNCHANGED <<forge, used, raced, open>> /\ doubtful' = doubtful \cup Unnamed
         /\ call.kind \in {"fetch", "publish"} /\ Stored'
         /\ NotesFollow(savedNote', savedNote, call.sent, call.fetched)
         /\ \/ call.has_threads /\ CacheFollows(savedCache', savedNote', savedNote, call.fetched)
            \/ ~call.has_threads /\ savedCache' = savedCache
<1>1. /\ call' = NoCall /\ UNCHANGED <<forge, used, raced, open>>
      /\ open # "no" /\ call.kind \in {"fetch", "publish"}
  BY DEF RecordThreads, CallIsOver, Answered
<1>2. note = savedNote /\ cache = savedCache
  BY <1>1, RecordsAgree
<1>3. PICK N, M, T, me1 : N = savedNote /\ M = MarkPublished(savedNote, call.sent) /\ T = call.fetched /\ me1 = me'
  OBVIOUS
<1>4. PICK b : b = IF call.has_threads THEN Reconcile(M, T, me1) ELSE [note |-> M, cache |-> cache]
  OBVIOUS
<1>5. /\ note' = b.note /\ cache' = b.cache
      /\ savedCache' = IF call.has_threads THEN b.cache ELSE savedCache
      /\ savedNote' = IF call.has_threads /\ b.note # M THEN b.note
                      ELSE IF M # note THEN M ELSE savedNote
      /\ doubtful' = doubtful \cup Unnamed
  <2>1. Saves = {TRUE}
    BY DEF Saves
  <2>2. LET marked == MarkPublished(note, call.sent)
            books  == IF call.has_threads THEN Reconcile(marked, call.fetched, me')
                      ELSE [note |-> marked, cache |-> cache]
        IN
        /\ note'  = books.note /\ cache' = books.cache
        /\ savedCache' = IF call.has_threads THEN books.cache ELSE savedCache
        /\ savedNote'  = IF call.has_threads /\ books.note # marked THEN books.note
                         ELSE IF marked # note THEN marked ELSE savedNote
        /\ CallIsOver(TRUE)
    BY <2>1 DEF RecordThreads
  <2>3. doubtful' = doubtful \cup Unnamed
    BY <2>2 DEF CallIsOver
  <2> QED BY <1>2, <1>3, <1>4, <2>2, <2>3
<1>6. /\ N \in Notes /\ call.sent \in [NoteId -> Nat] /\ T \in Fetches /\ posted \in Seq(Comment)
      /\ (~call.has_threads => T = NoThreads)
  BY <1>3 DEF Types, ForgeTypes, RecordTypes, CallTypes, Calls
<1>7. M \in Notes
  BY <1>3, <1>6, MarkedFollow
<1>8. CASE call.has_threads
  <2>1. Heals(b, ByMarker(M, T), T)
    BY <1>4, <1>6, <1>7, <1>8, ReconcileHeals
  <2>2. NotesFollow(b.note, N, call.sent, T) /\ CacheFollows(b.cache, b.note, N, T)
    BY <1>3, <1>6, <2>1, AnswerFollows
  <2>3. savedNote' = b.note
    BY <1>2, <1>3, <1>5, <1>8
  <2>4. savedCache' = b.cache
    BY <1>5, <1>8
  <2> QED BY <1>1, <1>3, <1>5, <1>8, <2>2, <2>3, <2>4 DEF Stored
<1>9. CASE ~call.has_threads
  <2>1. b.note = M /\ b.cache = cache
    BY <1>4, <1>9
  <2>2. savedNote' = M /\ savedCache' = savedCache
    BY <1>2, <1>3, <1>5, <1>9, <2>1
  <2>3. \A i \in NoteId : ~Carries(T, i)
    BY <1>6, <1>9, EmptyFetch DEF Carries
  <2>4. NotesFollow(M, N, call.sent, T)
    <3>1. \A i \in NoteId :
              /\ M[i] = Absent <=> N[i] = Absent
              /\ N[i] # Absent => /\ M[i].body = N[i].body
                                  /\ M[i].upstream = IF call.sent[i] # NoComment THEN call.sent[i] ELSE N[i].upstream
      BY <1>3, <1>6, MarkedFollow
    <3> QED BY <2>3, <3>1 DEF NotesFollow
  <2> QED BY <1>1, <1>2, <1>3, <1>5, <1>9, <2>1, <2>2, <2>4 DEF Stored
<1> QED BY <1>8, <1>9

\* Of a note that went up, and is not in doubt, the answer has the address.
LEMMA NamedRests ==
  ASSUME Types, Count, Faithful, NEW i \in Batch, i \notin Unnamed, Plain(i),
         NotesFollow(savedNote', savedNote, call.sent, call.fetched)
  PROVE  /\ \A c \in LiveOf(i) : savedNote'[i].upstream = c
         /\ \A c \in DOMAIN call.fetched : call.fetched[c].marker = i => savedNote'[i].upstream = c
         /\ DraftedAs(i) = {}
<1>1. i \in NoteId /\ savedNote[i].upstream = NoComment /\ savedNote[i] # Absent
  BY BatchHasNone DEF Faithful, Plain
<1>2. OnForge(i) /\ InFetch(i) /\ Mirrors /\ (call.sent[i] # NoComment => ToldOf(i))
  BY <1>1 DEF Faithful, Tied, Told
<1>3. There(i) => call.sent[i] # NoComment \/ Carries(call.fetched, i)
  BY DEF Unnamed
<1>4. CASE call.sent[i] # NoComment
  <2>1. savedNote'[i].upstream = call.sent[i]
    BY <1>1, <1>4 DEF NotesFollow
  <2>2. SentAs(i) \subseteq {call.sent[i]} /\ DraftedAs(i) = {}
    BY <1>2, <1>4 DEF ToldOf
  <2>3. \A c \in LiveOf(i) : c \in SentAs(i)
    BY <1>2, BatchIsOne DEF Faithful
  <2>4. \A c \in DOMAIN call.fetched : call.fetched[c].marker = i => call.sent[i] = c
    BY <1>2, <1>4 DEF InFetch
  <2> QED BY <2>1, <2>2, <2>3, <2>4
<1>5. CASE call.sent[i] = NoComment /\ Carries(call.fetched, i)
  <2>1. PICK d \in DOMAIN call.fetched : call.fetched[d].marker = i /\ savedNote'[i].upstream = d
    BY <1>1, <1>5 DEF NotesFollow
  <2>2. \A c \in DOMAIN call.fetched : call.fetched[c].marker = i => c = d
    BY <1>2, <2>1 DEF InFetch
  <2>3. DraftedAs(i) = {}
    BY <1>2, <2>1 DEF InFetch
  <2>4. ASSUME NEW c \in LiveOf(i) PROVE c = d
    <3>1. call.has_threads
      BY <2>1, EmptyFetch DEF Types, CallTypes
    <3>2. c \in Live /\ posted[c].marker = i /\ i # NoNote
      BY <1>1, PublishAssumption DEF LiveOf
    <3>3. c \in DOMAIN call.fetched /\ call.fetched[c].marker = i
      BY <1>2, <3>1, <3>2 DEF Mirrors
    <3> QED BY <2>2, <3>3
  <2> QED BY <2>1, <2>2, <2>3, <2>4
<1>6. CASE call.sent[i] = NoComment /\ ~Carries(call.fetched, i)
  <2>1. LiveOf(i) = {} /\ DraftedAs(i) = {}
    BY <1>1, <1>3, <1>6, NotThere
  <2> QED BY <1>6, <2>1 DEF Carries
<1> QED BY <1>4, <1>5, <1>6

LEMMA RecordThreadsFaithful ==
  ASSUME Types, Origin, Count, Faithful, ~world.lossy, RecordThreads
  PROVE  Faithful'
<1>1. /\ call' = NoCall /\ UNCHANGED <<forge, used, raced, open>> /\ doubtful' = doubtful \cup Unnamed
      /\ call.kind \in {"fetch", "publish"} /\ Stored'
      /\ NotesFollow(savedNote', savedNote, call.sent, call.fetched)
      /\ \/ call.has_threads /\ CacheFollows(savedCache', savedNote', savedNote, call.fetched)
         \/ ~call.has_threads /\ savedCache' = savedCache
  BY RecordThreadsFollows DEF Faithful
<1>2. ~EditOut /\ DOMAIN call.fetched \subseteq Id /\ DOMAIN savedCache \subseteq Id
  BY <1>1 DEF EditOut, Types, CallTypes, RecordTypes, IsFetch, Fetches
<1>3. Told /\ Tied /\ Worded /\ Said /\ Spent /\ Mirrors
  BY DEF Faithful
\* Its address, and its marker in the cache.
<1>4. ASSUME NEW i \in NoteId, i \notin doubtful', savedNote'[i] # Absent
      PROVE  /\ \A c \in LiveOf(i) : savedNote'[i].upstream = c
             /\ \A c \in DOMAIN savedCache : savedCache[c].marker = i => savedNote'[i].upstream = c
             /\ \A c \in DOMAIN call.fetched : call.fetched[c].marker = i => savedNote'[i].upstream = c
             /\ DraftedAs(i) = {}
  <2>1. Plain(i) /\ i \notin Unnamed /\ InCache(i) /\ InFetch(i)
    BY <1>1, <1>3, <1>4 DEF Plain, Tied, NotesFollow
  <2>2. CASE i \in Batch
    <3>1. \A c \in DOMAIN savedCache : savedCache[c].marker # i
      <4>1. savedNote[i].upstream = NoComment
        BY <2>1, <2>2, BatchHasNone DEF Faithful
      <4> QED BY <1>2, <2>1, <4>1 DEF InCache, Id, NoComment
    <3> QED BY <1>1, <2>1, <2>2, <3>1, NamedRests
  <2>3. CASE i \notin Batch
    <3>1. call.sent[i] = NoComment
      BY <1>3, <2>3 DEF Told, ToldOf
    <3>2. savedNote[i].upstream # NoComment => savedNote'[i].upstream = savedNote[i].upstream
      BY <1>1, <2>1, <3>1 DEF NotesFollow, Plain
    <3>3. /\ \A c \in LiveOf(i) : savedNote[i].upstream = c
          /\ \A c \in DOMAIN savedCache : savedCache[c].marker = i => savedNote[i].upstream = c
          /\ DraftedAs(i) = {}
      BY <1>2, <2>1, <2>3, OutOfTheCall
    <3>4. \A c \in DOMAIN call.fetched : call.fetched[c].marker = i => savedNote[i].upstream = c
      BY <2>1, <2>3 DEF InFetch
    <3>5. LiveOf(i) \subseteq Id
      BY DEF LiveOf, Live, Types, ForgeTypes, Id
    <3>6. \A c \in Id : c # NoComment
      BY DEF Id, NoComment
    <3> QED BY <1>2, <3>2, <3>3, <3>4, <3>5, <3>6
  <2> QED BY <2>2, <2>3
<1>5. ASSUME NEW i \in NoteId, i \notin doubtful', savedNote'[i] # Absent,
             NEW c \in DOMAIN savedCache', savedCache'[c].marker = i
      PROVE  savedNote'[i].upstream = c
  <2>1. CASE ~call.has_threads
    BY <1>1, <1>4, <1>5, <2>1
  <2>2. CASE call.has_threads
    <3>1. /\ c \in DOMAIN call.fetched
          /\ \/ savedCache'[c] = call.fetched[c]
             \/ \E j \in NoteId : savedNote'[j].upstream = c /\ savedCache'[c].marker = j
      BY <1>1, <2>2 DEF CacheFollows
    <3> QED BY <1>4, <1>5, <3>1
  <2> QED BY <2>1, <2>2
<1>6. ASSUME NEW i \in NoteId, i \notin doubtful', savedNote'[i] # Absent PROVE Rests(i)
  <2>1. Plain(i) /\ savedNote'[i].body = savedNote[i].body
    BY <1>1, <1>6 DEF Plain, NotesFollow
  <2>2. i \notin raced => SaysOf(i)
    BY <1>3, <2>1 DEF Said
  <2> QED BY <1>2, <1>4, <1>5, <1>6, <2>1, <2>2 DEF Rests, SaysOf
\* Its words, at its address and in the cache.
<1>7. ASSUME Distinct, NEW i \in NoteId, savedNote'[i] # Absent PROVE KeepsWord(i)
  <2>1. savedNote[i] # Absent /\ WordsOf(i) /\ WordsSent /\ savedNote'[i].body = savedNote[i].body
        /\ savedNote[i].body \in world.words[i] /\ i # NoNote
    BY <1>1, <1>3, <1>7, PublishAssumption DEF Worded, WordsOf, NotesFollow
  <2>2. DOMAIN call.fetched \subseteq DOMAIN posted
    BY DEF Types, CallTypes, IsFetch
  <2>3. \A c \in DOMAIN posted : posted[c].marker = i => posted[c].body \in world.words[i]
    BY <2>1 DEF WordsSent
  <2>4. ASSUME NEW c \in DOMAIN call.fetched,
               call.fetched[c].marker = i \/ call.fetched[c].body = savedNote[i].body
        PROVE  posted[c].body \in world.words[i]
    BY <1>3, <2>1, <2>2, <2>3, <2>4 DEF Mirrors
  <2>5. ASSUME savedNote'[i].upstream # NoComment
        PROVE  posted[savedNote'[i].upstream].body \in world.words[i]
    <3>1. CASE call.sent[i] # NoComment
      <4>1. savedNote'[i].upstream = call.sent[i]
        BY <1>1, <2>1, <3>1 DEF NotesFollow
      <4> QED BY <1>3, <2>3, <3>1, <4>1 DEF Told, ToldOf
    <3>2. CASE call.sent[i] = NoComment /\ savedNote[i].upstream # NoComment
      BY <1>1, <2>1, <3>2 DEF NotesFollow, WordsOf
    <3>3. CASE call.sent[i] = NoComment /\ savedNote[i].upstream = NoComment
      BY <1>1, <2>1, <2>4, <2>5, <3>3 DEF NotesFollow
    <3> QED BY <3>1, <3>2, <3>3
  <2>6. ASSUME NEW c \in DOMAIN savedCache', savedCache'[c].marker = i
        PROVE  posted[c].body \in world.words[i]
    <3>1. CASE ~call.has_threads
      BY <1>1, <2>1, <2>6, <3>1 DEF WordsOf
    <3>2. CASE call.has_threads
      <4>1. /\ c \in DOMAIN call.fetched
            /\ \/ savedCache'[c] = call.fetched[c]
               \/ \E j \in NoteId : call.fetched[c].body = savedNote[j].body /\ savedCache'[c].marker = j
        BY <1>1, <3>2 DEF CacheFollows
      <4> QED BY <2>4, <2>6, <4>1
    <3> QED BY <3>1, <3>2
  <2> QED BY <2>1, <2>5, <2>6 DEF KeepsWord
<1>8. ASSUME NEW c \in DOMAIN savedCache' PROVE savedCache'[c].marker \in used \cup {NoNote}
  <2>1. CASE ~call.has_threads
    BY <1>1, <1>3, <2>1 DEF Spent
  <2>2. CASE call.has_threads
    <3>1. /\ c \in DOMAIN call.fetched
          /\ \/ savedCache'[c] = call.fetched[c]
             \/ \E j \in NoteId : savedNote[j] # Absent /\ savedCache'[c].marker = j
      BY <1>1, <2>2 DEF CacheFollows
    <3>2. c \in DOMAIN posted /\ call.fetched[c].marker = posted[c].marker
      BY <1>3, <3>1 DEF Mirrors, Types, CallTypes, IsFetch
    <3>3. \A j \in NoteId : savedNote[j] # Absent => j \in used
      BY DEF Types, RecordTypes, Ids
    <3> QED BY <1>3, <3>1, <3>2, <3>3 DEF Spent
  <2> QED BY <2>1, <2>2
<1> QED BY <1>1, <1>3, <1>6, <1>7, <1>8, EndFaithful

LEMMA RecordFaithful ==
  ASSUME Types, Origin, Count, Faithful, ~world.lossy, Record
  PROVE  Faithful'
BY RecordErrorFaithful, RecordThreadsFaithful, RecordEditFaithful, RecordDeleteFaithful DEF Record

----------------------------------------------------------------------------
(* The process ends; the forge goes on *)

\* With no call out, the records rest.
LEMMA StillRests ==
  ASSUME Types, Faithful, Batch = {}, ~EditOut, UNCHANGED disk, doubtful \subseteq doubtful', NEW i \in NoteId,
         i \notin doubtful', savedNote'[i] # Absent
  PROVE  Rests(i)
<1>1. UNCHANGED <<savedNote, savedCache>>
  BY DEF disk
<1>2. Plain(i)
  BY <1>1 DEF Plain
<1> QED BY <1>1, <1>2, OutOfTheCall DEF Rests

LEMMA QuitFaithful ==
  ASSUME Types, Faithful, ~world.lossy, Quit
  PROVE  Faithful'
<1>1. /\ call' = NoCall /\ call = NoCall /\ UNCHANGED <<forge, disk, raced, used>> /\ open' = "no"
      /\ listed' = {} /\ doubtful \subseteq doubtful'
  BY DEF Quit
<1>2. Batch = {} /\ ~EditOut /\ UNCHANGED <<savedNote, savedCache>> /\ Stored'
  BY <1>1, NoCallType DEF Batch, EditOut, disk, Stored
<1>3. \A i \in NoteId : i \notin doubtful' /\ savedNote'[i] # Absent => Rests(i)
  BY <1>1, <1>2, StillRests
<1>4. ASSUME Distinct, NEW i \in NoteId, savedNote'[i] # Absent PROVE KeepsWord(i)
  BY <1>2, <1>4 DEF Faithful, Worded, WordsOf, KeepsWord
<1>5. \A c \in DOMAIN savedCache' : savedCache'[c].marker \in used \cup {NoNote}
  BY <1>2 DEF Faithful, Spent
<1> QED BY <1>1, <1>2, <1>3, <1>4, <1>5, EndFaithful DEF Faithful

\* What happens on the forge's own page.
Passes ==
  /\ DOMAIN posted \subseteq DOMAIN posted'
  /\ \A c \in DOMAIN posted :
       /\ posted'[c].marker = posted[c].marker /\ posted'[c].body = posted[c].body
       /\ posted'[c].from = posted[c].from /\ posted'[c].bared = posted[c].bared
       /\ posted'[c].live => posted[c].live
  /\ \A c \in DOMAIN posted' \ DOMAIN posted :
       posted'[c].marker = NoNote /\ posted'[c].from = NoNote

LEMMA OutsidePasses ==
  ASSUME Types, Outside
  PROVE  Passes /\ UNCHANGED <<world, kind, drafts, disk, session, call, history>>
<1>0. posted \in Seq(Comment)
  BY DEF Types, ForgeTypes
<1>1. UNCHANGED <<world, kind, drafts, disk, session, call, history>>
  BY DEF Outside, WebDelete, WebComment
<1>2. ASSUME NEW c \in DOMAIN posted, posted' = [posted EXCEPT ![c].live = FALSE] PROVE Passes
  <2>1. PICK x \in Comment : x = posted[c]
    BY <1>0
  <2>2. posted' = [posted EXCEPT ![c] = [x EXCEPT !.live = FALSE]]
    BY <1>2, <2>1
  <2>3. /\ [x EXCEPT !.live = FALSE].marker = x.marker /\ [x EXCEPT !.live = FALSE].body = x.body
        /\ [x EXCEPT !.live = FALSE].from = x.from /\ [x EXCEPT !.live = FALSE].bared = x.bared
        /\ ~[x EXCEPT !.live = FALSE].live
    BY DEF Comment
  <2> QED BY <1>0, <2>1, <2>2, <2>3 DEF Passes
<1>3. ASSUME NEW b \in Body, NEW p \in Place, WebComment(b, p) PROVE Passes
  <2>1. PICK x : x = [thread |-> Len(posted) + 1, place |-> p, author |-> "me",
                      marker |-> NoNote, body |-> b, live |-> TRUE, from |-> NoNote, bared |-> TRUE]
    OBVIOUS
  <2>2. x.marker = NoNote /\ x.from = NoNote /\ posted' = Append(posted, x)
    BY <1>3, <2>1 DEF WebComment
  <2>3. DOMAIN posted' = DOMAIN posted \cup {Len(posted) + 1} /\ posted'[Len(posted) + 1] = x
        /\ \A c \in DOMAIN posted : posted'[c] = posted[c]
    BY <1>0, <2>2, AppendProperties
  <2> QED BY <2>2, <2>3 DEF Passes
<1> QED BY <1>1, <1>2, <1>3 DEF Outside, WebDelete

LEMMA OutsideFaithful ==
  ASSUME Types, Origin, Faithful, Outside
  PROVE  Faithful'
<1>0. Passes /\ UNCHANGED <<world, kind, drafts, disk, session, call, history>>
  BY OutsidePasses
<1>1. /\ UNCHANGED <<world, kind, drafts, savedNote, savedCache, note, cache, open, listed, call, doubtful, raced, used>>
      /\ Batch' = Batch /\ NoComment' = NoComment /\ NoThreads' = NoThreads /\ (Distinct' <=> Distinct)
      /\ (EditOut' <=> EditOut) /\ \A i : Plain(i)' <=> Plain(i)
  BY <1>0 DEF disk, session, history, Batch, NoComment, NoThreads, Distinct, EditOut, Plain
<1>2. Told /\ Tied /\ Worded /\ Said /\ Spent /\ Mirrors /\ Stored
  BY DEF Faithful
<1>3. ASSUME NEW i \in NoteId
      PROVE  /\ LiveOf(i)' \subseteq LiveOf(i) /\ SentAs(i)' \subseteq SentAs(i)
             /\ DraftedAs(i)' = DraftedAs(i)
  <2>1. i # NoNote
    BY PublishAssumption
  <2> QED BY <1>0, <1>1, <2>1 DEF Passes, LiveOf, Live, SentAs, DraftedAs
<1>4. Stored' /\ Spent'
  BY <1>0, <1>1, <1>2 DEF Stored, Spent, Passes
<1>5. Mirrors'
  <2>1. DOMAIN call.fetched \subseteq DOMAIN posted
    BY DEF Types, CallTypes, IsFetch
  <2>2. \A c \in Live' : posted'[c].marker = NoNote \/ (c \in Live /\ posted'[c].marker = posted[c].marker)
    BY <1>0 DEF Live, Passes
  <2> QED BY <1>0, <1>1, <1>2, <2>1, <2>2 DEF Mirrors, Passes
<1>6. Told'
  <2>1. ASSUME NEW i \in NoteId, ToldOf(i) PROVE ToldOf(i)'
    BY <1>0, <1>1, <1>3, <2>1 DEF ToldOf, Passes
  <2> QED BY <1>1, <1>2, <2>1 DEF Told
<1>7. Tied'
  <2>1. ASSUME NEW i \in NoteId, Plain(i)
        PROVE  (OnForge(i) /\ InCache(i) /\ InFetch(i) /\ InEdit(i) /\ InDrafts(i))'
    <3>1. OnForge(i) /\ InCache(i) /\ InFetch(i) /\ InEdit(i) /\ InDrafts(i)
      BY <1>2, <2>1 DEF Tied
    <3>2. OnForge(i)'
      <4>1. \A c \in LiveOf(i)' : c \in LiveOf(i) /\ posted'[c].from = posted[c].from
        BY <1>0, <1>3 DEF Passes, LiveOf, Live
      <4> QED BY <1>1, <3>1, <4>1 DEF OnForge
    <3>3. InCache(i)' /\ InEdit(i)'
      BY <1>1, <3>1 DEF InCache, InEdit
    <3>4. InFetch(i)'
      BY <1>1, <1>3, <3>1 DEF InFetch
    <3>5. InDrafts(i)'
      BY <1>1, <1>3, <3>1 DEF InDrafts
    <3> QED BY <3>2, <3>3, <3>4, <3>5
  <2> QED BY <1>1, <2>1 DEF Tied
<1>8. Worded'
  <2> SUFFICES ASSUME Distinct
               PROVE  (WordsSent /\ \A i \in NoteId : savedNote[i] # Absent => WordsOf(i))'
    BY <1>1 DEF Worded
  <2>1. WordsSent /\ \A i \in NoteId : savedNote[i] # Absent => WordsOf(i)
    BY <1>2 DEF Worded
  <2>2. WordsSent'
    <3>1. \A c \in DOMAIN posted' : posted'[c].marker # NoNote => posted'[c].body \in world.words[posted'[c].marker]
      BY <1>0, <2>1 DEF WordsSent, Passes
    <3> QED BY <1>1, <2>1, <3>1 DEF WordsSent
  <2>3. ASSUME NEW i \in NoteId, savedNote[i] # Absent PROVE WordsOf(i)'
    <3>1. WordsOf(i)
      BY <2>1, <2>3
    <3>2. savedNote[i].upstream # NoComment => savedNote[i].upstream \in DOMAIN posted
      BY <2>3 DEF Origin, Addressed, ItsOwn
    <3>3. DOMAIN savedCache \subseteq DOMAIN posted
      BY DEF Types, RecordTypes, IsFetch
    <3>4. \A c \in DOMAIN posted : posted'[c].body = posted[c].body
      BY <1>0 DEF Passes
    <3> QED BY <1>1, <3>1, <3>2, <3>3, <3>4 DEF WordsOf, Links
  <2> QED BY <1>1, <2>2, <2>3
<1>9. Said'
  <2>1. EditOut => call.target \in DOMAIN posted
    BY DEF EditOut, Types, CallTypes
  <2>2. ASSUME NEW i \in NoteId, SaysOf(i) PROVE SaysOf(i)'
    <3>1. \A c \in LiveOf(i)' : c \in LiveOf(i) /\ posted'[c].body = posted[c].body
                                /\ (posted'[c].bared <=> posted[c].bared)
      BY <1>0, <1>3 DEF Passes, LiveOf, Live
    <3> QED BY <1>1, <2>2, <3>1 DEF SaysOf
  <2>3. EditOut' => posted'[call.target].body = call.text /\ posted'[call.target].marker = call.linked
    BY <1>0, <1>1, <1>2, <2>1 DEF Said, Passes
  <2>4. \A i \in NoteId \ raced : Plain(i) => SaysOf(i)'
    BY <1>2, <2>2 DEF Said
  <2>5. /\ call.kind = "edit" => call.stage \in {"act", "answered"}
        /\ \A i \in Batch \ raced : savedNote[i] # Absent /\ savedNote[i].body = call.batch[i].body
    BY <1>2 DEF Said
  <2> QED BY <1>1, <2>3, <2>4, <2>5 DEF Said
<1> QED BY <1>4, <1>5, <1>6, <1>7, <1>8, <1>9 DEF Faithful

----------------------------------------------------------------------------
(* The reader's steps *)

\* What an edit knows of the comment it goes to, by the records.
EditsOne(d) ==
  /\ d.stage = "act"
  /\ d.linked = NoNote => \A i \in NoteId : ~Links(savedNote, savedCache, i, d.target)
  /\ d.linked # NoNote =>
       /\ d.linked \in NoteId /\ Links(savedNote, savedCache, d.linked, d.target)
       /\ d.text \in world.words[d.linked]

\* A call that begins with the records as they are stored.
Begins(d) ==
  /\ d \in Calls /\ d.sent = NoCall.sent /\ d.fetched = NoThreads /\ ~d.has_threads /\ d.stage # "answered"
  /\ d.kind = "edit" => d.target \in DOMAIN posted /\ EditsOne(d)
  /\ d.kind # "edit" => d.linked = NoNote
  /\ \A i \in d.comments \cup d.replies : savedNote[i] # Absent /\ d.batch[i] = savedNote[i]

LEMMA BeginFaithful ==
  ASSUME Types, Faithful, call = NoCall, UNCHANGED <<forge, disk, history>>, Stored', Begins(call')
  PROVE  Faithful'
<1>1. Batch = {} /\ ~EditOut
  BY NoCallType DEF Batch, EditOut
<1>2. /\ UNCHANGED <<world, kind, posted, drafts, savedNote, savedCache, doubtful, raced, used>>
      /\ NoComment' = NoComment /\ NoThreads' = NoThreads /\ (Distinct' <=> Distinct)
      /\ \A i : (Plain(i)' <=> Plain(i)) /\ LiveOf(i)' = LiveOf(i) /\ DraftedAs(i)' = DraftedAs(i)
  BY DEF forge, disk, history, NoComment, NoThreads, Distinct, Plain, LiveOf, Live, DraftedAs
<1>3. /\ call' \in Calls /\ \A i \in NoteId : call'.sent[i] = NoComment
      /\ call'.fetched = NoThreads /\ ~call'.has_threads /\ call'.stage # "answered" /\ ~EditOut'
  BY NoCallType DEF Begins, NoComment, EditOut
<1>4. \A i \in Batch' : i \in NoteId /\ savedNote[i] # Absent /\ call'.batch[i] = savedNote[i]
  BY <1>3 DEF Begins, Batch, Calls
<1>5. Spent /\ Mirrors /\ Told /\ Tied /\ Worded /\ Said
  BY DEF Faithful
<1>6. Spent'
  <2>1. call'.linked \in used \cup {NoNote}
    BY DEF Begins, EditsOne, Links, Types, RecordTypes, Ids
  <2> QED BY <1>2, <1>5, <2>1 DEF Spent
<1>7. Mirrors' /\ Told'
  <2>1. Mirrors'
    BY <1>3, EmptyFetch DEF Mirrors
  <2>2. call'.comments \subseteq NoteId
    BY <1>3 DEF Calls
  <2> QED BY <1>2, <1>3, <2>1, <2>2 DEF Told
<1>8. ASSUME NEW i \in NoteId, Plain(i)
      PROVE  (OnForge(i) /\ InCache(i) /\ InFetch(i) /\ InEdit(i) /\ InDrafts(i))'
  <2>1. /\ \A c \in LiveOf(i) : savedNote[i].upstream = c
        /\ \A c \in DOMAIN savedCache : savedCache[c].marker = i => savedNote[i].upstream = c
        /\ DraftedAs(i) = {}
    BY <1>1, <1>8, OutOfTheCall
  <2>2. OnForge(i)' /\ InCache(i)' /\ InDrafts(i)'
    BY <1>2, <2>1 DEF OnForge, InCache, InDrafts
  <2>3. InFetch(i)'
    BY <1>3, EmptyFetch DEF InFetch
  <2>4. InEdit(i)'
    <3>1. i # NoNote
      BY PublishAssumption
    <3> QED BY <1>2, <2>1, <3>1 DEF InEdit, Begins, EditsOne, Links
  <2> QED BY <2>2, <2>3, <2>4
<1>9. Tied'
  BY <1>2, <1>8 DEF Tied
<1>10. Worded'
  <2> SUFFICES ASSUME Distinct
               PROVE  (WordsSent /\ \A i \in NoteId : savedNote[i] # Absent => WordsOf(i))'
    BY <1>2 DEF Worded
  <2>1. WordsSent /\ \A i \in NoteId : savedNote[i] # Absent => WordsOf(i)
    BY <1>5 DEF Worded
  <2>2. WordsSent'
    <3>1. \A i \in Batch' : call'.batch[i].body \in world.words[i]
      BY <1>4, <2>1 DEF WordsOf
    <3>2. call'.kind = "edit" /\ call'.linked # NoNote => call'.text \in world.words[call'.linked]
      BY DEF Begins, EditsOne
    <3> QED BY <1>2, <2>1, <3>1, <3>2 DEF WordsSent
  <2>3. ASSUME NEW i \in NoteId, NEW c \in DOMAIN posted, Links(savedNote, savedCache, i, c)
        PROVE  posted[c].body \in world.words[i]
    <3>1. WordsOf(i)
      BY <2>1, <2>3 DEF Links
    <3>2. c # NoComment
      BY DEF Types, ForgeTypes, NoComment
    <3> QED BY <2>3, <3>1, <3>2 DEF Links, WordsOf
  <2>4. ASSUME NEW i \in NoteId, savedNote[i] # Absent, call'.kind = "edit",
               Links(savedNote, savedCache, i, call'.target)
        PROVE  i = call'.linked
    <3>1. PICK t, k : t = call'.target /\ k = call'.linked
      OBVIOUS
    <3>2. t \in DOMAIN posted /\ k \in NoteId /\ Links(savedNote, savedCache, k, t)
      BY <2>4, <3>1 DEF Begins, EditsOne
    <3>3. posted[t].body \in world.words[i] /\ posted[t].body \in world.words[k]
      BY <2>3, <2>4, <3>1, <3>2
    <3> QED BY <3>1, <3>2, <3>3 DEF Distinct
  <2>5. ASSUME NEW i \in NoteId, savedNote[i] # Absent PROVE WordsOf(i)'
    <3>1. WordsOf(i)
      BY <2>1, <2>5
    <3> QED BY <1>2, <2>4, <2>5, <3>1 DEF WordsOf, Links
  <2> QED BY <1>2, <2>2, <2>5
<1>11. Said'
  <2>1. call'.kind = "edit" => call'.stage = "act"
    BY DEF Begins, EditsOne
  <2>2. ASSUME NEW i \in NoteId \ raced, Plain(i) PROVE SaysOf(i)'
    <3>1. \A c \in LiveOf(i) : (posted[c].bared => Distinct) => posted[c].body = savedNote[i].body
      BY <1>1, <2>2, OutOfTheCall
    <3> QED BY <1>2, <3>1 DEF SaysOf
  <2> QED BY <1>2, <1>3, <1>4, <2>1, <2>2 DEF Said
<1> QED BY <1>6, <1>7, <1>9, <1>10, <1>11 DEF Faithful

\* The records, the request and the call stand still.
LEMMA StandsFaithful ==
  ASSUME Faithful, UNCHANGED <<forge, disk, call, history>>, Stored'
  PROVE  Faithful'
<1>1. UNCHANGED <<world, kind, posted, drafts, savedNote, savedCache, call, doubtful, raced, used>>
      /\ NoComment' = NoComment /\ NoThreads' = NoThreads /\ (Distinct' <=> Distinct) /\ Batch' = Batch
      /\ (EditOut' <=> EditOut)
  BY DEF forge, disk, history, NoComment, NoThreads, Distinct, Batch, EditOut
<1>2. \A i : /\ (Plain(i)' <=> Plain(i)) /\ LiveOf(i)' = LiveOf(i) /\ DraftedAs(i)' = DraftedAs(i)
             /\ SentAs(i)' = SentAs(i)
  BY <1>1 DEF Plain, LiveOf, Live, DraftedAs, SentAs
<1>3. Spent' /\ Mirrors'
  BY <1>1 DEF Faithful, Spent, Mirrors, Live
<1>4. Told'
  BY <1>1, <1>2 DEF Faithful, Told, ToldOf
<1>5. Tied'
  BY <1>1, <1>2 DEF Faithful, Tied, OnForge, InCache, InFetch, InEdit, InDrafts
<1>6. Worded'
  BY <1>1 DEF Faithful, Worded, WordsSent, WordsOf, Links
<1>7. Said'
  BY <1>1, <1>2 DEF Faithful, Said, SaysOf
<1> QED BY <1>3, <1>4, <1>5, <1>6, <1>7 DEF Faithful

\* A note's record is as it was; or in other words of the note's, which has no
\* address; or it is new.
Keeps(i) == savedNote[i] # Absent /\ savedNote'[i] = savedNote[i]
Rewords(i) ==
  /\ savedNote[i] # Absent /\ savedNote[i].upstream = NoComment
  /\ i \in Batch => i \in raced'
  /\ savedNote'[i].upstream = NoComment /\ savedNote'[i].body \in world.words[i]
Appears(i) ==
  /\ i \notin used /\ savedNote'[i].upstream = NoComment /\ savedNote'[i].body \in world.words[i]
Writes(i) == savedNote'[i] # Absent => Keeps(i) \/ Rewords(i) \/ Appears(i)

\* Nothing carries the marker of a note not yet written.
LEMMA UnwrittenIsNowhere ==
  ASSUME Types, Count, Spent, Mirrors, NEW i \in NoteId, i \notin used
  PROVE  /\ LiveOf(i) = {} /\ DraftedAs(i) = {} /\ i \notin Batch /\ call.linked # i
         /\ \A c \in DOMAIN savedCache : savedCache[c].marker # i
         /\ \A c \in DOMAIN call.fetched : call.fetched[c].marker # i
<1>1. i # NoNote /\ i \notin Batch /\ DOMAIN call.fetched \subseteq DOMAIN posted
  BY PublishAssumption DEF Types, CallTypes, IsFetch
<1>2. DraftedAs(i) = {}
  BY DEF Count, Known, On
<1>3. \A c \in DOMAIN posted : posted[c].marker # i
  BY <1>1 DEF Spent
<1> QED BY <1>1, <1>2, <1>3 DEF Spent, Mirrors, LiveOf, Live

LEMMA WriteFaithful ==
  ASSUME Types, Count, Faithful, UNCHANGED <<forge, savedCache, open, call, doubtful>>, Stored',
         used \subseteq used', raced \subseteq raced', \A i \in NoteId : Writes(i),
         \A i \in Batch \ raced' : savedNote'[i] = savedNote[i]
  PROVE  Faithful'
<1>1. UNCHANGED <<world, kind, posted, drafts, savedCache, call, doubtful>>
      /\ NoComment' = NoComment /\ NoThreads' = NoThreads /\ (Distinct' <=> Distinct) /\ Batch' = Batch
      /\ (EditOut' <=> EditOut)
  BY DEF forge, NoComment, NoThreads, Distinct, Batch, EditOut
<1>2. \A i : LiveOf(i)' = LiveOf(i) /\ DraftedAs(i)' = DraftedAs(i) /\ SentAs(i)' = SentAs(i)
  BY <1>1 DEF LiveOf, Live, DraftedAs, SentAs
<1>3. Spent /\ Mirrors /\ Told /\ Tied /\ Worded /\ Said
  BY DEF Faithful
<1>4. Spent' /\ Mirrors'
  BY <1>1, <1>3 DEF Spent, Mirrors, Live
<1>5. \A i \in NoteId : Plain(i)' => i \notin doubtful /\ savedNote'[i] # Absent /\ (Plain(i) \/ i \notin used)
  BY <1>1 DEF Plain, Writes, Keeps, Rewords, Appears
<1>6. Told'
  <2>1. ASSUME NEW i \in NoteId, ToldOf(i) PROVE ToldOf(i)'
    <3>1. i \in Batch /\ Batch \subseteq used
      BY <2>1 DEF ToldOf, Types, CallTypes
    <3> QED BY <1>1, <1>2, <1>5, <2>1, <3>1 DEF ToldOf
  <2> QED BY <1>1, <1>3, <2>1 DEF Told
<1>7. ASSUME NEW i \in NoteId, Plain(i)'
      PROVE  (OnForge(i) /\ InCache(i) /\ InFetch(i) /\ InEdit(i) /\ InDrafts(i))'
  <2>1. CASE i \notin used
    <3>1. /\ LiveOf(i) = {} /\ DraftedAs(i) = {} /\ i \notin Batch /\ call.linked # i
          /\ \A c \in DOMAIN savedCache : savedCache[c].marker # i
          /\ \A c \in DOMAIN call.fetched : call.fetched[c].marker # i
      BY <1>3, <2>1, UnwrittenIsNowhere
    <3> QED BY <1>1, <1>2, <3>1 DEF OnForge, InCache, InFetch, InEdit, InDrafts
  <2>2. CASE i \in used
    <3>1. Plain(i) /\ savedNote'[i].upstream = savedNote[i].upstream
      BY <1>5, <1>7, <2>2 DEF Writes, Keeps, Rewords, Appears
    <3>2. OnForge(i) /\ InCache(i) /\ InFetch(i) /\ InEdit(i) /\ InDrafts(i)
      BY <1>3, <3>1 DEF Tied
    <3> QED BY <1>1, <1>2, <3>1, <3>2 DEF OnForge, InCache, InFetch, InEdit, InDrafts
  <2> QED BY <2>1, <2>2
<1>8. Tied'
  BY <1>7 DEF Tied
<1>9. Worded'
  <2> SUFFICES ASSUME Distinct
               PROVE  (WordsSent /\ \A i \in NoteId : savedNote[i] # Absent => WordsOf(i))'
    BY <1>1 DEF Worded
  <2>1. WordsSent /\ \A i \in NoteId : savedNote[i] # Absent => WordsOf(i)
    BY <1>3 DEF Worded
  <2>2. WordsSent'
    BY <1>1, <2>1 DEF WordsSent
  <2>3. ASSUME NEW i \in NoteId, savedNote'[i] # Absent PROVE WordsOf(i)'
    <3>1. CASE Keeps(i)
      BY <1>1, <2>1, <3>1 DEF Keeps, WordsOf, Links
    <3>2. CASE Rewords(i)
      BY <1>1, <2>1, <3>2 DEF Rewords, WordsOf, Links
    <3>3. CASE Appears(i)
      <4>1. \A c \in DOMAIN savedCache : savedCache[c].marker # i
        BY <1>3, <3>3, UnwrittenIsNowhere DEF Appears
      <4>2. call.kind = "edit" => call.target # NoComment
        BY DEF Types, CallTypes, ForgeTypes, NoComment
      <4> QED BY <1>1, <3>3, <4>1, <4>2 DEF Appears, WordsOf, Links
    <3> QED BY <2>3, <3>1, <3>2, <3>3 DEF Writes
  <2> QED BY <2>2, <2>3
<1>10. Said'
  <2>1. \A i \in Batch \ raced : savedNote[i] # Absent /\ savedNote[i].body = call.batch[i].body
    BY <1>3 DEF Said
  <2>2. \A i \in Batch' \ raced' : savedNote'[i] # Absent /\ savedNote'[i].body = call'.batch[i].body
    BY <1>1, <2>1
  <2>3. ASSUME NEW i \in NoteId \ raced', Plain(i)' PROVE SaysOf(i)'
    <3>1. CASE Keeps(i)
      <4>1. Plain(i)
        BY <1>5, <2>3, <3>1 DEF Keeps, Plain
      <4>2. SaysOf(i)
        BY <1>3, <2>3, <4>1 DEF Said
      <4> QED BY <1>1, <1>2, <3>1, <4>2 DEF Keeps, SaysOf
    <3>2. CASE Rewords(i)
      <4>1. Plain(i) /\ i \notin Batch
        BY <1>5, <2>3, <3>2 DEF Rewords, Plain
      <4>2. \A c \in LiveOf(i) : c # NoComment
        BY DEF Types, ForgeTypes, NoComment, LiveOf, Live
      <4>3. LiveOf(i) = {}
        BY <1>3, <3>2, <4>1, <4>2 DEF Tied, OnForge, Rewords
      <4> QED BY <1>2, <4>3 DEF SaysOf
    <3>3. CASE Appears(i)
      <4>1. LiveOf(i) = {}
        BY <1>3, <3>3, UnwrittenIsNowhere DEF Appears
      <4> QED BY <1>2, <4>1 DEF SaysOf
    <3> QED BY <2>3, <3>1, <3>2, <3>3 DEF Writes, Plain
  <2> QED BY <1>1, <1>3, <2>2, <2>3 DEF Said
<1> QED BY <1>4, <1>6, <1>8, <1>9, <1>10 DEF Faithful

LEMMA PublishingBegins ==
  ASSUME Types, call' = Publishing(savedNote, savedCache)
  PROVE  Begins(call')
<1>0. kind \in {"github", "gitlab"} /\ savedNote \in Notes /\ IsFetch(savedCache)
  BY DEF Types, ForgeTypes, RecordTypes
<1>1. PICK C, R : C = Comments(savedNote, savedCache) /\ R = Replies(savedNote, savedCache)
  OBVIOUS
<1>2. call' = [NoCall EXCEPT !.kind = "publish", !.stage = "head", !.batch = savedNote, !.comments = C, !.replies = R]
  BY <1>1 DEF Publishing
<1>3. call'.linked = NoNote
  BY <1>2, NoCallType DEF Calls
<1>4. PICK d : d = Publishing(savedNote, savedCache)
  OBVIOUS
<1>5. LET e == Publishing(savedNote, savedCache) IN
      /\ e \in Calls /\ e.kind = "publish" /\ e.stage = "head" /\ e.batch = savedNote
      /\ e.sent = NoCall.sent /\ ~e.has_threads /\ e.fetched = NoThreads
      /\ e.comments \subseteq Unsent(savedNote) /\ e.replies \subseteq Unsent(savedNote)
  BY <1>0, PublishingTypes
<1>6. /\ call' \in Calls /\ call'.kind = "publish" /\ call'.stage = "head" /\ call'.batch = savedNote
      /\ call'.sent = NoCall.sent /\ ~call'.has_threads /\ call'.fetched = NoThreads
      /\ call'.comments \subseteq Unsent(savedNote) /\ call'.replies \subseteq Unsent(savedNote)
  BY <1>5
<1> QED BY <1>3, <1>6 DEF Begins, Unsent, Ids

LEMMA SinglesBegin ==
  ASSUME Types,
         \/ call' = [NoCall EXCEPT !.kind = "fetch", !.stage = "refetch"]
         \/ \E c \in DOMAIN posted : call' = [NoCall EXCEPT !.kind = "delete", !.stage = "act", !.target = c]
  PROVE  Begins(call')
<1>0. posted \in Seq(Comment)
  BY DEF Types, ForgeTypes
<1>1. Single(call')
  BY <1>0, SinglesAre
<1>2. call'.kind # "edit" /\ call'.linked = NoNote
  BY NoCallType DEF Calls
<1> QED BY <1>1, <1>2 DEF Begins, Single

LEMMA EditBegins ==
  ASSUME Types, note = savedNote, cache = savedCache, NEW c \in DOMAIN posted, NEW b \in Spoken, StartEdit(c, b)
  PROVE  Begins(call')
<1>0. posted \in Seq(Comment) /\ b \in Body /\ NoNote \notin NoteId
  BY PublishAssumption DEF Types, ForgeTypes, Spoken
<1>1. PICK i \in LinkedTo(c) :
        /\ i # NoNote => b \in world.words[i]
        /\ call' = [NoCall EXCEPT !.kind = "edit", !.stage = "act", !.target = c, !.text = b, !.linked = i]
  BY DEF StartEdit, Begin
<1>2. \/ i = NoNote /\ \A j \in NoteId : ~Links(savedNote, savedCache, j, c)
      \/ i \in NoteId /\ Links(savedNote, savedCache, i, c)
  BY DEF LinkedTo
<1>3. Single(call')
  BY <1>0, <1>1, <1>2, SinglesAre
<1>4. call'.kind = "edit" /\ call'.stage = "act" /\ call'.target = c /\ call'.text = b /\ call'.linked = i
  BY <1>1, NoCallType DEF Calls
<1> QED BY <1>0, <1>1, <1>2, <1>3, <1>4 DEF Begins, EditsOne, Single

LEMMA ReaderBeginsFaithful ==
  ASSUME Types, Count, Faithful,
         \/ OpenReview \/ PostFromCli \/ StartFetch \/ StartPublish
         \/ \E c \in DOMAIN posted : StartDelete(c) \/ \E b \in Spoken : StartEdit(c, b)
  PROVE  Faithful'
<1>1. ASSUME OpenReview \/ PostFromCli
      PROVE  call = NoCall /\ UNCHANGED <<forge, disk, history>> /\ Stored'
  <2>1. /\ call = NoCall /\ UNCHANGED <<forge, disk, history, listed>> /\ open' # "no"
        /\ note' = savedNote /\ cache' = savedCache
    BY <1>1 DEF OpenReview, PostFromCli, Count, Linked
  <2> QED BY <2>1 DEF Stored, disk
<1>2. ASSUME \/ StartFetch \/ StartPublish
             \/ \E c \in DOMAIN posted : StartDelete(c) \/ \E b \in Spoken : StartEdit(c, b)
      PROVE  /\ call = NoCall /\ UNCHANGED <<forge, disk, history>> /\ Stored'
             /\ note = savedNote /\ cache = savedCache
  <2>1. call = NoCall /\ UNCHANGED <<forge, disk, session, history>> /\ open # "no"
    BY <1>2 DEF StartFetch, StartPublish, StartDelete, StartEdit, Ready, InDiff, Begin
  <2> QED BY <2>1 DEF Faithful, Stored, disk, session
<1>3. CASE OpenReview \/ StartFetch
  <2>1. Begins(call')
    BY <1>3, SinglesBegin DEF OpenReview, StartFetch, Begin
  <2> QED BY <1>1, <1>2, <1>3, <2>1, BeginFaithful
<1>4. CASE PostFromCli \/ StartPublish
  <2>1. call' = Publishing(savedNote, savedCache)
    BY <1>2, <1>4 DEF PostFromCli, StartPublish, Begin
  <2> QED BY <1>1, <1>2, <1>4, <2>1, PublishingBegins, BeginFaithful
<1>5. ASSUME NEW c \in DOMAIN posted, StartDelete(c)
      PROVE  Faithful'
  <2>1. Begins(call')
    BY <1>5, SinglesBegin DEF StartDelete, Begin
  <2> QED BY <1>2, <1>5, <2>1, BeginFaithful
<1>6. ASSUME NEW c \in DOMAIN posted, NEW b \in Spoken, StartEdit(c, b)
      PROVE  Faithful'
  <2>1. Begins(call')
    BY <1>2, <1>6, EditBegins
  <2> QED BY <1>2, <1>6, <2>1, BeginFaithful
<1> QED BY <1>3, <1>4, <1>5, <1>6

\* Notes G go, those of the running call with a mark.
LEMMA RemovalFaithful ==
  ASSUME Types, Count, Faithful, open # "no",
         UNCHANGED <<forge, savedCache, open, cache, call, doubtful, used>>,
         NEW G \in SUBSET NoteId, SetNotes(Without(G)), raced \subseteq raced', G \cap Batch \subseteq raced'
  PROVE  Faithful'
<1>1. note = savedNote /\ cache = savedCache
  BY RecordsAgree DEF Faithful
<1>2. \A i \in NoteId : savedNote'[i] = IF i \in G THEN Absent ELSE savedNote[i]
  BY <1>1 DEF SetNotes, Without
<1>3. Stored'
  BY <1>1 DEF Stored, SetNotes
<1>4. \A i \in NoteId : Writes(i)
  BY <1>2 DEF Writes, Keeps
<1>5. \A i \in Batch \ raced' : savedNote'[i] = savedNote[i]
  BY <1>2, ApartSends DEF Batch
<1> QED BY <1>3, <1>4, <1>5, WriteFaithful

LEMMA RemovalsFaithful ==
  ASSUME Types, Count, Faithful,
         \/ ClearNotes
         \/ \E i \in NoteId : DeleteNote(i) \/ DeleteListed(i)
  PROVE  Faithful'
<1>0. UNCHANGED <<forge, savedCache, open, cache, call, doubtful, used>>
  BY RemovalsRemove
<1>1. listed # {} => open # "no"
  BY DEF Faithful, Stored
<1>2. CASE ClearNotes
  <2>1. SetNotes(Without(Unsent(note))) /\ Unsent(note) \in SUBSET NoteId
    BY <1>2 DEF ClearNotes, Without, Unsent, Ids
  <2>2. open # "no" /\ raced \subseteq raced' /\ Unsent(note) \cap Batch \subseteq raced'
    BY <1>1, <1>2 DEF ClearNotes
  <2> QED BY <1>0, <2>1, <2>2, RemovalFaithful
<1>3. ASSUME NEW i \in NoteId, DeleteNote(i) \/ DeleteListed(i)
      PROVE  Faithful'
  <2>1. SetNotes([note EXCEPT ![i] = Absent]) /\ Races(i) /\ open # "no"
    BY <1>1, <1>3 DEF DeleteNote, DeleteListed, InDiff
  <2>2. Without({i}) = [note EXCEPT ![i] = Absent]
    BY DEF Without, Types, RecordTypes, Notes
  <2>3. raced \subseteq raced' /\ {i} \cap Batch \subseteq raced' /\ {i} \in SUBSET NoteId
    BY <2>1 DEF Races
  <2> QED BY <1>0, <2>1, <2>2, <2>3, RemovalFaithful
<1> QED BY <1>2, <1>3

LEMMA EditNoteFaithful ==
  ASSUME Types, Count, Faithful, NEW i \in NoteId, NEW b \in world.words[i], EditNote(i, b)
  PROVE  Faithful'
<1>1. /\ note = savedNote /\ cache = savedCache /\ i \in Unsent(note) /\ b \in Body /\ Races(i)
      /\ SetNotes([note EXCEPT ![i].body = b]) /\ note \in Notes
      /\ UNCHANGED <<forge, savedCache, open, cache, call, doubtful, used>>
  BY RecordsAgree, PublishAssumption DEF EditNote, InDiff, Faithful, Types, ForgeTypes, RecordTypes
<1>2. Stored'
  BY <1>1 DEF Faithful, Stored, SetNotes, EditNote, InDiff
<1>3. PICK x \in Note : x = savedNote[i] /\ x.upstream = NoComment
  BY <1>1 DEF Notes, Unsent, Ids
<1>4. savedNote' = [savedNote EXCEPT ![i] = [x EXCEPT !.body = b]]
  BY <1>1, <1>3 DEF SetNotes
<1>5. [x EXCEPT !.body = b].body = b /\ [x EXCEPT !.body = b].upstream = x.upstream /\ x # Absent
  BY PublishAssumption DEF Note
<1>6. raced \subseteq raced' /\ (i \in Batch => i \in raced')
  BY <1>1 DEF Races
<1>7. \A j \in NoteId \ {i} : savedNote'[j] = savedNote[j]
  BY <1>1, <1>4 DEF Notes
<1>8. savedNote'[i].body = b /\ savedNote'[i].upstream = NoComment /\ savedNote[i] # Absent
  BY <1>1, <1>3, <1>4, <1>5 DEF Notes
<1>9. \A j \in NoteId : Writes(j)
  BY <1>3, <1>6, <1>7, <1>8 DEF Writes, Keeps, Rewords
<1>10. \A j \in Batch \ raced' : savedNote'[j] = savedNote[j]
  BY <1>6, <1>7, ApartSends DEF Batch
<1> QED BY <1>1, <1>2, <1>6, <1>9, <1>10, WriteFaithful

LEMMA AddNoteFaithful ==
  ASSUME Types, Count, Faithful, NEW i \in NoteId, NEW b \in world.words[i], NEW t, AddNote(i, b, t)
  PROVE  Faithful'
<1>1. /\ note = savedNote /\ cache = savedCache /\ i \notin used /\ used \subseteq used' /\ note \in Notes
      /\ SetNotes([note EXCEPT ![i] = [body |-> b, reply_to |-> t, upstream |-> NoComment]])
      /\ UNCHANGED <<forge, savedCache, open, cache, call, doubtful, raced>>
  BY RecordsAgree DEF AddNote, InDiff, Faithful, Types, RecordTypes
<1>2. Stored'
  BY <1>1 DEF Faithful, Stored, SetNotes, AddNote, InDiff
<1>3. \A j \in NoteId \ {i} : savedNote'[j] = savedNote[j]
  BY <1>1 DEF SetNotes, Notes
<1>4. savedNote'[i].body = b /\ savedNote'[i].upstream = NoComment
  BY <1>1 DEF SetNotes, Notes
<1>5. \A j \in NoteId : Writes(j)
  BY <1>1, <1>3, <1>4 DEF Writes, Keeps, Appears
<1>6. \A j \in Batch \ raced' : savedNote'[j] = savedNote[j]
  BY <1>1, <1>3, ApartSends DEF Batch, Types, CallTypes
<1> QED BY <1>1, <1>2, <1>5, <1>6, WriteFaithful

LEMMA ReaderFaithful ==
  ASSUME Types, Count, Faithful, Reader
  PROVE  Faithful'
<1>1. CASE OpenList \/ CloseList
  <2>1. UNCHANGED <<forge, disk, call, history, open, note, cache>> /\ (open = "no" => listed' = {})
    BY <1>1 DEF OpenList, CloseList, InDiff
  <2>2. Stored'
    BY <2>1 DEF Faithful, Stored, disk
  <2> QED BY <2>1, <2>2, StandsFaithful
<1>2. CASE ClearNotes \/ \E i \in NoteId : DeleteNote(i) \/ DeleteListed(i)
  BY <1>2, RemovalsFaithful
<1>3. CASE \/ OpenReview \/ PostFromCli \/ StartFetch \/ StartPublish
           \/ \E c \in DOMAIN posted : StartDelete(c) \/ \E b \in Spoken : StartEdit(c, b)
  BY <1>3, ReaderBeginsFaithful
<1> QED BY <1>1, <1>2, <1>3, EditNoteFaithful, AddNoteFaithful DEF Reader

----------------------------------------------------------------------------
(* The invariant *)

LEMMA InitFaithful == Init => Faithful
<1> SUFFICES ASSUME Init PROVE Faithful
  OBVIOUS
<1>1. /\ call = NoCall /\ savedNote = NoNotes /\ note = NoNotes /\ savedCache = NoThreads /\ cache = NoThreads
      /\ drafts = <<>> /\ open = "no" /\ listed = {} /\ posted = Opened
  BY DEF Init
<1>2. \A i \in NoteId : savedNote[i] = Absent
  BY <1>1 DEF NoNotes
<1>3. Batch = {} /\ ~EditOut /\ call.kind = "none" /\ call.linked = NoNote /\ call.fetched = NoThreads
      /\ ~call.has_threads /\ call.stage = "answered" /\ \A i \in NoteId : call.sent[i] = NoComment
  BY <1>1, NoCallType DEF Batch, EditOut, NoComment
<1>4. \A c \in DOMAIN posted : posted[c].marker = NoNote
  BY <1>1, PublishAssumption
<1>5. Stored /\ Spent /\ Mirrors
  BY <1>1, <1>3, <1>4, EmptyFetch DEF Stored, Spent, Mirrors
<1>6. Told
  BY <1>3 DEF Told
<1>7. Tied /\ Said
  BY <1>2, <1>3 DEF Tied, Said, Plain
<1>8. Worded
  BY <1>1, <1>2, <1>3, <1>4 DEF Worded, WordsSent
<1> QED BY <1>5, <1>6, <1>7, <1>8 DEF Faithful

LEMMA TheWorldStays ==
  ASSUME [Next]_vars
  PROVE  UNCHANGED world
BY DEF Next, vars, forge, Worker, Record, RecordError, RecordThreads, RecordEdit, RecordDelete, CallIsOver, Reader,
       OpenReview, PostFromCli, StartFetch, StartPublish, OpenList, CloseList, ClearNotes, DeleteNote, DeleteListed,
       EditNote, AddNote, StartDelete, StartEdit, Begin, Quit, Outside, WebDelete, WebComment

LEMMA NextFaithful ==
  ASSUME Types, Origin, Count, ~world.lossy, Faithful, [Next]_vars
  PROVE  Faithful'
<1>1. CASE UNCHANGED vars
  <2>1. UNCHANGED <<forge, disk, call, history, open, note, cache, listed>>
    BY <1>1 DEF vars, session
  <2>2. Stored'
    BY <2>1 DEF Faithful, Stored, disk
  <2> QED BY <2>1, <2>2, StandsFaithful
<1>2. CASE Record
  BY <1>2, RecordFaithful
<1> QED BY <1>1, <1>2, WorkerFaithful, ReaderFaithful, QuitFaithful, OutsideFaithful DEF Next

\* Where no answer and no save is lost, the request says between calls what the
\* stored record says, of every note that was not changed while it was being
\* sent (`edit_comment`, `record_publish`, `set_threads`), whatever the reader
\* writes, edits, deletes or does on the forge's page meanwhile.
THEOREM TheRequestHasTheLastWord == Spec => []LastWord
<1> DEFINE Inv == Types /\ Origin /\ Count /\ (~world.lossy => Faithful)
<1>1. Inv => LastWord
  <2> SUFFICES ASSUME Inv, call = NoCall, ~world.lossy, NEW i \in NoteId \ (doubtful \cup raced), NEW c \in LiveOf(i),
                      savedNote[i] # Absent, posted[c].bared => Distinct
               PROVE  posted[c].body = savedNote[i].body
    BY DEF LastWord
  <2>1. Batch = {} /\ ~EditOut
    BY NoCallType DEF Batch, EditOut
  <2>2. Plain(i) /\ i \notin raced
    BY DEF Plain
  <2> QED BY <2>1, <2>2, OutOfTheCall
<1>2. Init => Inv
  BY InitTypes, InitOrigin, InitCount, InitFaithful
<1>3. Inv /\ [Next]_vars => Inv'
  <2> SUFFICES ASSUME Inv, [Next]_vars PROVE Inv'
    OBVIOUS
  <2>1. Types' /\ Origin' /\ Count'
    BY NextTypes, NextOrigin, NextCount
  <2>2. ~world'.lossy => Faithful'
    BY TheWorldStays, NextFaithful
  <2> QED BY <2>1, <2>2
<1> HIDE DEF Inv
<1> QED BY <1>1, <1>2, <1>3, PTL DEF Spec
=============================================================================
