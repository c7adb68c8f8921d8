------------------------------- MODULE Listening -------------------------------
(***************************************************************************)
(* What the skill asks around a recording, and what it does with the       *)
(* answers: did you enjoy it, would you like to report it, shall we go on, *)
(* continue where you stopped, hear what is new, follow the creator.       *)
(*                                                                         *)
(* A turn is one request.  The operators take a turn and return it         *)
(* changed: its document (loaded and migrated), the session's attributes,  *)
(* the backend's inbox of notices, the question that the answer ends with, *)
(* and the effects that leave the skill.  Conversation routes requests to  *)
(* them.                                                                   *)
(***************************************************************************)
EXTENDS DialogState, Following, Sequences, FiniteSets

CONSTANTS
  Queue,        \* the recordings a search finds, in the order they are queued
  Publication,  \* the publication whose tracks the queue has
  Tracks,       \* those of the queue's recordings
  Notices,      \* notices of the listener's inbox
  NoticeItem,   \* the recording that each of them offers
  NoItem,       \* the absence of a recording
  NoNotice      \* the absence of a notice

QueueItems == {Queue[k] : k \in DOMAIN Queue}
Items == QueueItems \union {NoticeItem[n] : n \in Notices}
Subjects == {Publication} \union (Items \ Tracks)

ASSUME ListeningAssumption ==
  /\ Queue \in Seq(QueueItems)
  /\ \A j, k \in DOMAIN Queue : Queue[j] = Queue[k] => j = k
  /\ Tracks \subseteq QueueItems /\ IsFiniteSet(Tracks) /\ Tracks # {}
  /\ NoItem \notin Items /\ Publication \notin Items \union {NoItem}
  /\ NoNotice \notin Notices

\* The subject that is rated: the publication for a track, else the recording.
SubjectOf(i) == IF i \in Tracks THEN Publication ELSE i

NextOf(i) ==
  IF \E k \in DOMAIN Queue : Queue[k] = i /\ k < Len(Queue)
  THEN Queue[(CHOOSE k \in DOMAIN Queue : Queue[k] = i) + 1]
  ELSE NoItem

Statuses == {"none", "starting", "playing", "paused", "completed", "abandoned", "failed"}
InboxStatuses == {"pending", "offered", "resolving", "queued", "consumed", "dismissed",
                  "unavailable"}

Unfinished(s) == s.playing.status \in {"starting", "playing", "paused"}

-----------------------------------------------------------------------------
(* The answer that a turn ends with, and its effects.                      *)

Says(t, kind, about) == [t EXCEPT !.asked = [kind |-> kind, about |-> about]]
Idle(t) == Says(t, "idle", NoItem)       \* "What would you like to listen to?"
Closes(t) == Says(t, "closed", NoItem)   \* the session ends
Does(t, what, about) == [t EXCEPT !.effects = @ \union {<<what, about>>}]

-----------------------------------------------------------------------------
(* What a question is about (the context of its dialogue).                 *)

About(subject, item) ==
  [about |-> subject, item |-> item, requested |-> FALSE, completed |-> FALSE,
   unclear |-> 0, resume |-> FALSE]

\* A candidate for a rating; a publication has no content id.
Candidate(i) ==
  [About(SubjectOf(i), IF i \in Tracks THEN NoItem ELSE i) EXCEPT !.completed = TRUE]

-----------------------------------------------------------------------------
(* FeedbackService.                                                        *)

RatingAsked(s) == "feedback" \in s.flags

MarkAnswered(s) ==
  LET p == s.pending["feedback"]
  IN  [s EXCEPT !.answered = IF p = NoContext THEN @ ELSE @ \union {p.about},
                !.flags = @ \ {"feedback", "feedback_continuation"},
                !.pending["feedback"] = NoContext,
                !.pending["feedback_continuation"] = NoContext,
                !.active = NoDialog]

ClearFeedback(s) ==
  LET gone == {"feedback", "feedback_continuation", "report_decision"}
  IN  [s EXCEPT !.active = NoDialog,
                !.flags = @ \ gone,
                !.pending = [k \in Held |-> IF k \in gone THEN NoContext ELSE @[k]],
                !.follow = FALSE]

\* A dialogue of another type stays, and so does a report decision.
Dismiss(s) ==
  LET gone == {"feedback", "feedback_continuation"}
  IN  [s EXCEPT !.active = IF @.type = "feedback" THEN NoDialog ELSE @,
                !.flags = @ \ gone,
                !.pending = [k \in Held |-> IF k \in gone THEN NoContext ELSE @[k]],
                !.follow = FALSE]

\* Mutant: a subject that was answered is asked about again.
ActivateBestAgain(s, candidates) ==
  IF candidates = {} \/ (RatingAsked(s) /\ s.pending["feedback"] # NoContext) THEN s
  ELSE LET c == CHOOSE c \in candidates : TRUE
       IN  Activate(Hold(s, "feedback", c), "feedback", c)

\* There is one candidate at most, of the recording that plays: a question
\* that is pending is not older.
ActivateBest(s, candidates) ==
  LET open == {c \in candidates : c.about \notin s.answered}
  IN  IF open = {} \/ (RatingAsked(s) /\ s.pending["feedback"] # NoContext) THEN s
      ELSE LET c == CHOOSE c \in open : TRUE
           IN  Activate(Hold(s, "feedback", c), "feedback", c)

\* Half of the publication was heard, and more than one track of several.
Eligible(heard) ==
  /\ 2 * Cardinality(heard) >= Cardinality(Tracks)
  /\ Cardinality(Tracks) = 1 \/ Cardinality(heard) >= 2

\* finalize_publication: the candidate, if any, and the progress that is left.
Finalized(s) ==
  IF s.progress = {} THEN {}
  ELSE IF Publication \notin s.answered /\ Eligible(s.progress)
  THEN {Candidate(CHOOSE i \in Tracks : TRUE)} ELSE {}

Finalize(s) ==
  [s EXCEPT !.progress = IF Publication \in s.answered \/ Eligible(@) THEN {} ELSE @]

Heard(s, i) == [s EXCEPT !.progress = IF i \in Tracks THEN @ \union {i} ELSE @]

\* _save_completed_source.
SaveCompletedSource(s, i) == [s EXCEPT !.latest.finished = i]

LastTrack(i) == NextOf(i) \notin Tracks

\* record_candidate and activate_best, when a recording has finished.
RateFinished(s, i) ==
  LET heard == Heard(s, i)
  IN  IF i \notin Tracks THEN ActivateBest(s, {Candidate(i)})
      ELSE IF LastTrack(i) THEN ActivateBest(Finalize(heard), Finalized(heard))
      ELSE heard

\* request_current_rating.
RequestedRating(s) ==
  LET i == s.playing.item
  IN  IF i # NoItem
      THEN [About(SubjectOf(i), i) EXCEPT !.requested = TRUE,
              !.completed = s.playing.status = "completed"]
      ELSE IF s.pending["feedback"] # NoContext
      THEN [s.pending["feedback"] EXCEPT !.requested = TRUE]
      ELSE NoContext

NoteUnrecognised(s) ==
  LET c == [s.active.context EXCEPT !.unclear = 1]
  IN  IF s.active.context.unclear >= 1 THEN MarkAnswered(s)
      ELSE [s EXCEPT !.active.context = c, !.pending["feedback"] = c]

-----------------------------------------------------------------------------
(* Playback, as far as the conversation sees it.                           *)

\* Mutant: a question about the recording before stays open.
StartSessionUndismissed(s, i) ==
  [s EXCEPT !.playing = [item |-> i, status |-> "starting"], !.prepared = FALSE]

\* The rating of a publication that this interrupts is activated and dismissed.
StartSession(s, i) ==
  LET others == i \notin Tracks
      rated == IF others THEN ActivateBest(Finalize(s), Finalized(s)) ELSE s
  IN  [Dismiss(rated) EXCEPT !.playing = [item |-> i, status |-> "starting"],
                             !.prepared = FALSE]

Start(t, i) ==
  Closes(Does([t EXCEPT !.doc = StartSession(@, i)], "play", i))

\* play_queue_delta.
PlayNext(t) ==
  LET i == NextOf(t.doc.playing.item)
  IN  IF i = NoItem THEN Idle(t) ELSE Start(t, i)

\* restart_active.
Restart(t) ==
  IF t.doc.playing.item = NoItem THEN Idle(t)
  ELSE IF t.doc.playing.status = "completed" THEN PlayNext(t)
  ELSE Closes(Does([t EXCEPT !.doc.playing.status = "starting", !.doc.prepared = FALSE],
                   "resume", t.doc.playing.item))

\* pause_active.
PauseActive(t) ==
  [t EXCEPT !.doc.playing.status = IF @ \in {"none", "completed"} THEN @ ELSE "paused"]

\* flush_previous.
Flush(t) == [t EXCEPT !.doc.playing.status = IF Unfinished(t.doc) THEN "paused" ELSE @]

-----------------------------------------------------------------------------
(* Notices.                                                                *)

\* update_status: whether the backend has taken the status is told to nobody, and
\* the callers go on alike.  History: "missed" is what later goes wrong because of it,
\* an acceptance that the backend never learns of, or how the playing went.
UpdateStatus(t, n, status) ==
  IF status \notin t.world.lost THEN [t EXCEPT !.inbox[n] = status]
  ELSE IF status = "queued" THEN [t EXCEPT !.missed = @ \union {<<n, "accepted">>}]
  ELSE IF t.inbox[n] = "queued" THEN [t EXCEPT !.missed = @ \union {<<n, "outcome">>}]
  ELSE t

\* What the inbox may still hold: the backend lists them.
Listed(t) ==
  t.world.notice # NoNotice /\ t.inbox[t.world.notice] \in {"pending", "offered", "resolving"}

Busy(s) ==
  \/ s.active.type = "onboarding" \/ s.setup.consent \/ s.setup.permission
  \/ s.flags \intersect {"resume", "feedback", "feedback_continuation", "report_decision"} # {}
  \/ s.keep \/ Unfinished(s)

\* A notice is offered, or "otherwise" is said.
Offer(t, explicit, otherwise) ==
  LET n == t.world.notice
      c == About(n, NoItem)
  IN  IF ~Listed(t) \/ (~explicit /\ Busy(t.doc)) THEN otherwise
      ELSE Says([UpdateStatus(t, n, "offered") EXCEPT
                   !.doc = Activate(Hold(@, "notification", c), "notification", c)],
                "notification", n)

FollowUp(t) == Offer(t, FALSE, Idle(t))

\* _clear_dialog: a setup that an onboarded listener left open ends as well.
ClearNotification(s) ==
  LET stale == /\ s.active.type = "notification" /\ s.onboarded
               /\ SetupOpen(s) \/ s.setup.choices # <<>>
      quiet == IF stale THEN ForgetSetup(s) ELSE s
  IN  Clear(Lower(Release(quiet, "notification"), "notification"), {"notification"})

\* Mutant: the notice that plays is not noted in the document.
AcceptUntracked(t) ==
  LET c == t.doc.pending["notification"]
      n == c.about
      cleared == [UpdateStatus(t, n, "resolving") EXCEPT !.doc = ClearNotification(@)]
  IN  IF c = NoContext \/ t.world.search # "plays" THEN Idle(t)
      ELSE Does(Start(UpdateStatus(cleared, n, "queued"), NoticeItem[n]), "accept", n)

\* Its recordings are searched for; when playing them breaks, the request fails
\* and its document is not saved.
Accept(t) ==
  LET c == t.doc.pending["notification"]
      n == c.about
      cleared == [UpdateStatus(t, n, "resolving") EXCEPT !.doc = ClearNotification(@)]
      queued == [UpdateStatus(cleared, n, "queued") EXCEPT !.doc.offered = n]
      broken == [UpdateStatus(queued, n, "pending") EXCEPT !.doc = t.saved]
  IN  IF c = NoContext THEN Idle(t)
      ELSE CASE t.world.search = "plays" -> Does(Start(queued, NoticeItem[n]), "accept", n)
             [] t.world.search = "fails" -> Idle(UpdateStatus(cleared, n, "pending"))
             [] t.world.search = "empty" -> Idle(UpdateStatus(cleared, n, "unavailable"))
             [] OTHER -> Idle(broken)

\* Mutant: the notice stays in the document.
DeclineKept(t) ==
  LET c == t.doc.pending["notification"]
      done == [t EXCEPT !.doc = Lower(@, "notification")]
  IN  Idle(IF c = NoContext THEN done
           ELSE Does(UpdateStatus(done, c.about, "dismissed"), "dismiss", c.about))

Decline(t) ==
  LET c == t.doc.pending["notification"]
      done == [t EXCEPT !.doc = ClearNotification(@)]
  IN  Idle(IF c = NoContext THEN done
           ELSE Does(UpdateStatus(done, c.about, "dismissed"), "dismiss", c.about))

\* Mutant: any recording that starts settles the notice.
ResolveNoticeOfAny(t, i, status) ==
  LET n == t.doc.offered
  IN  IF n = NoNotice THEN t
      ELSE [UpdateStatus(t, n, status) EXCEPT !.doc.offered = NoNotice]

\* playback_started and playback_failed.
ResolveNotice(t, i, status) ==
  LET n == t.doc.offered
  IN  IF n = NoNotice \/ NoticeItem[n] # i THEN t
      ELSE [UpdateStatus(t, n, status) EXCEPT !.doc.offered = NoNotice]

-----------------------------------------------------------------------------
(* Answers to a rating and what follows them.                              *)

\* FeedbackContinuation: more of the queue, or "otherwise".
Continuation(t, otherwise) ==
  LET i == t.doc.playing.item
      c == About(NextOf(i), i)
  IN  IF i = NoItem \/ NextOf(i) = NoItem THEN otherwise
      ELSE Says([t EXCEPT !.doc = Activate(Hold(@, "feedback_continuation", c),
                                           "feedback_continuation", c)],
                "feedback_continuation", NextOf(i))

ContinueQueue(t) ==
  PlayNext([t EXCEPT !.doc = Clear(Lower(Release(@, "feedback_continuation"),
                                         "feedback_continuation"),
                                   {"feedback_continuation"})])

DeclineContinuation(t) ==
  FollowUp([t EXCEPT !.doc = Clear(Lower(Release(@, "feedback_continuation"),
                                         "feedback_continuation"),
                                   {"feedback_continuation"})])

\* submit: one event, and the subject counts as answered.
Submit(t, value) ==
  LET p == t.doc.pending["feedback"]
  IN  Does([t EXCEPT !.doc = MarkAnswered(@)], value, p.about)

\* The rating interrupted the recording.
Interrupted(p) == p.requested /\ ~p.completed

AskFollow(t) == Says([t EXCEPT !.doc.follow = TRUE], "follow", t.doc.playing.item)

\* FollowCheck.already_following, and what it records.
Following(t) == AlreadyFollowing(t.session, t.world.following)
CheckFollow(t) == [t EXCEPT !.session = Checked(@, t.world.following)]

Enjoyed(t) ==
  LET p == t.doc.pending["feedback"]
      rated == Submit(t, "enjoyed")
      cleared == [rated EXCEPT !.doc = ClearFeedback(@)]
  IN  IF ~RatingAsked(t.doc) THEN Idle(t)
      ELSE IF Interrupted(p) THEN Restart(cleared)
      ELSE Continuation(cleared,
             IF Following(cleared) THEN FollowUp(CheckFollow(cleared)) ELSE AskFollow(cleared))

Somewhat(t) ==
  LET p == t.doc.pending["feedback"]
      cleared == [Submit(t, "somewhat") EXCEPT !.doc = ClearFeedback(@)]
  IN  IF ~RatingAsked(t.doc) THEN Idle(t)
      ELSE IF Interrupted(p) THEN Restart(cleared)
      ELSE Continuation(cleared, FollowUp(cleared))

\* snapshot_report_context: what a report would be about.
ReportContext(s) ==
  LET saved == s.pending["report_decision"]
      p == s.pending["feedback"]
      item == IF saved # NoContext /\ saved.item # NoItem THEN saved.item
              ELSE IF p # NoContext /\ p.item # NoItem THEN p.item
              ELSE s.playing.item
  IN  [About(item, item) EXCEPT
         !.requested = (saved # NoContext /\ saved.requested) \/ (p # NoContext /\ p.requested)]

\* Mutant: the report does not remember the recording that was interrupted.
NotEnjoyedForgets(t) ==
  LET c == ReportContext(t.doc)
      rated == Submit(t, "not_enjoyed")
  IN  IF ~RatingAsked(t.doc) THEN Idle(t)
      ELSE Says([rated EXCEPT !.doc = Activate(Hold(Dismiss(@), "report_decision", c),
                                               "report_decision", c)],
                "report_decision", c.item)

NotEnjoyed(t) ==
  LET p == t.doc.pending["feedback"]
      c == [ReportContext(t.doc) EXCEPT !.resume = Interrupted(p)]
      rated == Submit(t, "not_enjoyed")
  IN  IF ~RatingAsked(t.doc) THEN Idle(t)
      ELSE Says([rated EXCEPT !.doc = Activate(Hold(Dismiss(@), "report_decision", c),
                                               "report_decision", c)],
                "report_decision", c.item)

\* SkipFeedback, for SkipFeedbackIntent and for "next" and "skip".
Skip(t, transport) ==
  LET s == t.doc
      p == s.pending["feedback"]
      r == s.pending["report_decision"]
      cleared == [t EXCEPT !.doc = ClearFeedback(@)]
      skipped == [Submit(t, "skipped") EXCEPT !.doc = ClearFeedback(@)]
  IN  IF s.active.type = "ambiguity" \/ s.pending["ambiguity"] # NoContext
      THEN Idle([t EXCEPT !.doc = DismissAmbiguity(@)])
      ELSE IF "feedback_continuation" \in s.flags /\ transport THEN ContinueQueue(t)
      ELSE IF "report_decision" \in s.flags
      THEN IF r # NoContext /\ r.resume THEN Restart(cleared)
           ELSE Continuation(cleared, FollowUp(cleared))
      ELSE IF ~RatingAsked(s) THEN Idle(t)
      ELSE IF Interrupted(p) THEN Restart(skipped)
      ELSE IF transport THEN PlayNext(skipped)
      ELSE Continuation(skipped, FollowUp(skipped))

\* RatingRequest.
RequestRating(t) ==
  LET c == RequestedRating(t.doc)
  IN  IF c = NoContext THEN Idle(t)
      ELSE Says(PauseActive([t EXCEPT
                  !.doc = Activate(Hold(@, "feedback", c), "feedback", c)]),
                "feedback", c.about)

-----------------------------------------------------------------------------
(* Reports, the follow question, resuming, launching.                      *)

AskKeepListening(t) == Says(t, "keep_listening", t.doc.playing.item)

\* ReportContentHandler.  A question about a rating stays open when the
\* recording is unfinished.
ReportContent(t) ==
  LET c == ReportContext(t.doc)
      filed == [Does(t, "report", c.item) EXCEPT
                  !.doc = Clear(Lower(Release(@, "report_decision"), "report_decision"),
                                {"report_decision"})]
      cleared == [filed EXCEPT !.doc = ClearFeedback(@)]
      settled == IF c.requested THEN filed ELSE cleared
      ask == IF ~Unfinished(t.doc) THEN Idle(cleared)
             ELSE AskKeepListening(PauseActive([settled EXCEPT !.doc.keep = TRUE]))
  IN  IF c.item = NoItem THEN Idle(t)
      ELSE IF c.requested THEN ask ELSE Continuation(cleared, ask)

\* FollowCreator.  The first yes of the backend is believed.
Follow(t) ==
  LET sent == Does([t EXCEPT !.session = Record(@, "has")], "follow", t.doc.playing.item)
      done == IF Following(t) THEN CheckFollow(t) ELSE sent
  IN  IF t.doc.playing.item = NoItem THEN Idle(t)
      ELSE IF t.doc.follow THEN FollowUp([done EXCEPT !.doc = ClearFeedback(@)])
      ELSE Idle(done)

\* UnfollowCreator.
Unfollow(t) ==
  IF t.doc.playing.item = NoItem \/ Status(t.session) = "lacks" THEN Closes(t)
  ELSE Idle(Does([t EXCEPT !.session = Record(@, "lacks")], "unfollow", t.doc.playing.item))

ResumeYes(t) ==
  LET closed == [t EXCEPT !.doc = Clear(Lower(@, "resume"), {"resume"})]
  IN  IF t.doc.playing.item = NoItem THEN Idle(closed)
      ELSE Closes(Does([closed EXCEPT !.doc.playing.status = "starting",
                                      !.doc.prepared = FALSE],
                       "resume", t.doc.playing.item))

ResumeNo(t) ==
  LET i == t.doc.playing.item
      abandoned == [t EXCEPT !.doc.playing.status = IF i = NoItem THEN @ ELSE "abandoned"]
      s == abandoned.doc
      rated == IF i \in Tracks THEN ActivateBest(Finalize(s), Finalized(s)) ELSE s
      closed == Clear(Lower(rated, "resume"), {"resume"})
      after == [abandoned EXCEPT !.doc = closed]
  IN  IF RatingAsked(closed)
      THEN Says(after, "feedback", closed.pending["feedback"].about)
      ELSE FollowUp(after)

\* handle_returning_user: once for the recording that was last completed.
OfferLatest(t) ==
  LET i == t.doc.latest.finished
      c == About(i, i)
      offered == [Hold(t.doc, "latest_source", c) EXCEPT !.latest.offered = i]
  IN  IF i \in {NoItem, t.doc.latest.offered} THEN Idle(t)
      ELSE Says([t EXCEPT !.doc = Activate(offered, "latest_source", c)], "latest_source", i)

CloseLatest(s) == Clear(Release(s, "latest_source"), {"latest_source"})

\* LaunchRequestHandler.
LaunchReturning(t) ==
  LET quiet == [Flush(t) EXCEPT !.doc = ClearTransient(@)]
      free == [quiet EXCEPT !.doc.keep = FALSE,
                            !.session = SyncForLaunch(@, t.world.following)]
      c == About(quiet.doc.playing.item, quiet.doc.playing.item)
  IN  IF quiet.doc.keep /\ Unfinished(quiet.doc) THEN AskKeepListening(quiet)
      ELSE IF Unfinished(free.doc)
      THEN Says([free EXCEPT !.doc = Activate(@, "resume", c)], "resume", c.item)
      ELSE Offer(free, FALSE, OfferLatest(free))

=============================================================================
