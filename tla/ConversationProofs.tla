-------------------------- MODULE ConversationProofs --------------------------
(***************************************************************************)
(* Proofs about Conversation for any catalogue, any notices, any phrases   *)
(* and any scenarios.                                                      *)
(*                                                                         *)
(* Most operators on a turn are calm: they change neither the inbox nor    *)
(* the session, hold no notice that was not held before, and ask and do    *)
(* nothing about following or about what was heard.  What a handler ends   *)
(* with is calm, or one of the few answers that have a proof of their own. *)
(***************************************************************************)
EXTENDS Conversation, EntityRankingProofs, DialogStateProofs

\* A document that has the fields which notices are about.
Shaped(s) ==
  /\ {"active", "pending", "offered", "playing", "flags"} \subseteq DOMAIN s
  /\ {"type", "context", "left"} \subseteq DOMAIN s.active /\ s.active.type # "follow"
  /\ DOMAIN s.pending = Held /\ "item" \in DOMAIN s.playing

\* r holds no notice that s does not hold, and tracks the same one.
Mild(s, r) ==
  Shaped(r) /\ r.offered = s.offered /\ NoticeContexts(r) \subseteq NoticeContexts(s)

-----------------------------------------------------------------------------
(* Operators on documents. *)

LEMMA MildSelf == ASSUME NEW s, Shaped(s) PROVE Mild(s, s)
BY DEF Mild

LEMMA MildShaped == ASSUME NEW s, NEW r, Mild(s, r) PROVE Shaped(r)
BY DEF Mild

LEMMA MildTrans == ASSUME NEW s, NEW r, NEW q, Mild(s, r), Mild(r, q) PROVE Mild(s, q)
BY DEF Mild

\* What leaves the dialogue and the subjects alone is mild.
LEMMA MildBeside ==
  ASSUME NEW s, NEW r, Shaped(s), DOMAIN r = DOMAIN s,
         r.active = s.active, r.pending = s.pending, r.offered = s.offered,
         "item" \in DOMAIN r.playing
  PROVE  Mild(s, r)
BY DEF Mild, Shaped, NoticeContexts

LEMMA MildOps ==
  ASSUME NEW s, NEW k, NEW c, Shaped(s)
  PROVE  /\ Mild(s, Raise(s, k)) /\ Mild(s, Lower(s, k))
         /\ Mild(s, Release(s, k))
         /\ k # "notification" => Mild(s, Hold(s, k, c))
         /\ k \notin {"notification", "follow"} => Mild(s, Activate(s, k, c))
<1>1. Mild(s, Raise(s, k)) /\ Mild(s, Lower(s, k))
  BY MildBeside DEF Raise, Lower, Shaped
<1>2. Mild(s, Release(s, k))
  BY DEF Release, Hold, Mild, Shaped, NoticeContexts
<1>3. k # "notification" => Mild(s, Hold(s, k, c))
  BY DEF Hold, Mild, Shaped, NoticeContexts
<1>4. k \notin {"notification", "follow"} => Mild(s, Activate(s, k, c))
  BY DEF Activate, Fresh, Mild, Shaped, NoticeContexts
<1> QED BY <1>1, <1>2, <1>3, <1>4

LEMMA MildClear ==
  ASSUME NEW s, NEW types, Shaped(s)
  PROVE  Mild(s, Clear(s, types))
<1>1. ASSUME NEW k PROVE Mild(s, ClearOf(s, k, types))
  BY DEF ClearOf, NoDialog, Mild, Shaped, NoticeContexts
<1> QED BY <1>1 DEF Clear

LEMMA MildEnds ==
  ASSUME NEW s, Shaped(s)
  PROVE  /\ Mild(s, ClearTransient(s))
         /\ Mild(s, DismissAmbiguity(s))
         /\ Mild(s, MarkAnswered(s))
         /\ Mild(s, ClearFeedback(s))
         /\ Mild(s, Dismiss(s))
<1>1. Mild(s, ClearTransient(s))
  <2> DEFINE r == ClearTransient(s)
  <2>1. DOMAIN r = DOMAIN s /\ r.offered = s.offered /\ r.playing = s.playing
    BY DEF ClearTransient, Shaped
  <2>2. r.active \in {NoDialog, s.active}
    BY DEF ClearTransient, Shaped
  <2>3. DOMAIN r.pending = Held
        /\ r.pending["notification"] = s.pending["notification"]
    BY DEF ClearTransient, Shaped, Held
  <2> HIDE DEF r
  <2>4. Mild(s, r)
    BY <2>1, <2>2, <2>3 DEF NoDialog, Mild, Shaped, NoticeContexts
  <2> QED BY <2>4 DEF r
<1>2. Mild(s, DismissAmbiguity(s))
  BY DEF DismissAmbiguity, Release, Hold, NoDialog, Mild, Shaped, NoticeContexts
<1>3. Mild(s, MarkAnswered(s))
  <2> DEFINE r == MarkAnswered(s)
  <2>1. DOMAIN r = DOMAIN s /\ r.offered = s.offered /\ r.active = NoDialog
        /\ r.playing = s.playing
    BY DEF MarkAnswered, Shaped
  <2>2. DOMAIN r.pending = Held
        /\ r.pending["notification"] = s.pending["notification"]
    BY DEF MarkAnswered, Shaped, Held
  <2> HIDE DEF r
  <2>3. Mild(s, r)
    BY <2>1, <2>2 DEF NoDialog, Mild, Shaped, NoticeContexts
  <2> QED BY <2>3 DEF r
<1>4. Mild(s, ClearFeedback(s))
  BY DEF ClearFeedback, NoDialog, Mild, Shaped, NoticeContexts, Held
<1>5. Mild(s, Dismiss(s))
  BY DEF Dismiss, NoDialog, Mild, Shaped, NoticeContexts, Held
<1> QED BY <1>1, <1>2, <1>3, <1>4, <1>5

\* Dialogues that handlers open are no notices, but where a notice is offered.
LEMMA MildRating ==
  ASSUME NEW s, NEW candidates, Shaped(s)
  PROVE  Mild(s, ActivateBest(s, candidates))
<1>1. ASSUME NEW c PROVE Mild(s, Activate(Hold(s, "feedback", c), "feedback", c))
  <2>1. Mild(s, Hold(s, "feedback", c))
    BY MildOps
  <2>2. Mild(Hold(s, "feedback", c), Activate(Hold(s, "feedback", c), "feedback", c))
    BY <2>1, MildOps DEF Mild
  <2> QED BY <2>1, <2>2, MildTrans
<1> QED BY <1>1, MildSelf DEF ActivateBest

LEMMA MildPublication ==
  ASSUME NEW s, NEW i, Shaped(s)
  PROVE  Mild(s, Finalize(s)) /\ Mild(s, Heard(s, i)) /\ Mild(s, SaveCompletedSource(s, i))
<1>1. Mild(s, Finalize(s))
  BY MildBeside DEF Finalize, Shaped
<1>2. Mild(s, Heard(s, i))
  BY MildBeside DEF Heard, Shaped
<1>3. Mild(s, SaveCompletedSource(s, i))
  BY MildBeside DEF SaveCompletedSource, Shaped
<1> QED BY <1>1, <1>2, <1>3

LEMMA MildFinished ==
  ASSUME NEW s, NEW i, Shaped(s)
  PROVE  Mild(s, RateFinished(s, i))
<1> DEFINE h == Heard(s, i)
<1>1. Mild(s, h) /\ Shaped(h)
  BY MildPublication DEF Mild
<1>2. Mild(h, Finalize(h)) /\ Shaped(Finalize(h))
  BY <1>1, MildPublication DEF Mild
<1>3. Mild(Finalize(h), ActivateBest(Finalize(h), Finalized(h)))
  BY <1>2, MildRating
<1>4. Mild(s, ActivateBest(Finalize(h), Finalized(h)))
  BY <1>1, <1>2, <1>3, MildTrans
<1>5. Mild(s, ActivateBest(s, {Candidate(i)}))
  BY MildRating
<1> HIDE DEF h
<1>6. RateFinished(s, i) \in {ActivateBest(s, {Candidate(i)}), h,
                              ActivateBest(Finalize(h), Finalized(h))}
  BY DEF RateFinished, h
<1> QED BY <1>1, <1>4, <1>5, <1>6

LEMMA MildSession ==
  ASSUME NEW s, NEW i, Shaped(s)
  PROVE  Mild(s, StartSession(s, i)) /\ StartSession(s, i).playing.item = i
<1> DEFINE rated == IF i \notin Tracks THEN ActivateBest(Finalize(s), Finalized(s)) ELSE s
           d == Dismiss(rated)
           r == [d EXCEPT !.playing = [item |-> i, status |-> "starting"], !.prepared = FALSE]
<1>1. Mild(s, rated)
  BY MildPublication, MildRating, MildTrans, MildSelf DEF Mild
<1>2. Mild(s, d) /\ Shaped(d)
  BY <1>1, MildEnds, MildTrans DEF Mild
<1> HIDE DEF rated
<1>3. StartSession(s, i) = r
  BY DEF StartSession, rated
<1> HIDE DEF d
<1>4. Mild(d, r) /\ r.playing.item = i
  <2>1. /\ DOMAIN r = DOMAIN d /\ r.active = d.active /\ r.pending = d.pending
        /\ r.offered = d.offered /\ r.playing = [item |-> i, status |-> "starting"]
    BY <1>2 DEF Shaped
  <2> HIDE DEF r
  <2> QED BY <1>2, <2>1, MildBeside
<1> QED BY <1>2, <1>3, <1>4, MildTrans

LEMMA MildClosed ==
  ASSUME NEW s, NEW k, Shaped(s)
  PROVE  /\ Mild(s, Clear(Lower(s, k), {k}))
         /\ Mild(s, Clear(Lower(Release(s, k), k), {k}))
<1>1. ASSUME NEW q, Mild(s, q) PROVE Mild(s, Clear(Lower(q, k), {k}))
  <2>1. Mild(q, Lower(q, k)) /\ Shaped(Lower(q, k))
    BY <1>1, MildOps DEF Mild
  <2>2. Mild(Lower(q, k), Clear(Lower(q, k), {k}))
    BY <2>1, MildClear
  <2> QED BY <1>1, <2>1, <2>2, MildTrans
<1>2. Mild(s, s) /\ Mild(s, Release(s, k))
  BY MildSelf, MildOps
<1> QED BY <1>1, <1>2

LEMMA MildNotes ==
  ASSUME NEW s, Shaped(s)
  PROVE  /\ Mild(s, EndChoices(s)) /\ Mild(s, CloseLatest(s)) /\ Mild(s, ForgetTown(s))
         /\ Mild(s, DropSearch(s)) /\ Mild(s, ClearConfirmed(s))
         /\ Mild(s, DropStaleMeanings(s))
<1>1. \A q, types : Mild(s, q) => Mild(s, Clear(q, types))
  BY MildClear, MildTrans DEF Mild
<1>2. \A q, k : Mild(s, q) => Mild(s, Release(q, k)) /\ Mild(s, Lower(q, k))
  BY MildOps, MildTrans DEF Mild
<1>3. \A q : Mild(s, q) => Mild(s, ForgetTown(q)) /\ Mild(s, [q EXCEPT !.topic = NoSearch])
  <2>1. ASSUME NEW q, Shaped(q)
        PROVE  Mild(q, ForgetTown(q)) /\ Mild(q, [q EXCEPT !.topic = NoSearch])
    BY <2>1, MildBeside DEF ForgetTown, Shaped
  <2> QED BY <2>1, MildTrans DEF Mild
<1>4. Mild(s, s)
  BY MildSelf
<1>5. Mild(s, EndChoices(s)) /\ Mild(s, CloseLatest(s)) /\ Mild(s, ForgetTown(s))
  BY <1>1, <1>2, <1>3, <1>4 DEF EndChoices, CloseLatest
<1>6. Mild(s, DropSearch(s))
  BY <1>2, <1>4 DEF DropSearch
<1>7. Mild(s, ClearConfirmed(s))
  BY <1>1, <1>3, <1>6 DEF ClearConfirmed
<1>8. Mild(s, DropStaleMeanings(s))
  BY <1>1, <1>2, <1>4 DEF DropStaleMeanings
<1> QED BY <1>5, <1>6, <1>7, <1>8

\* The listener's setup is no concern of notices.
LEMMA MildSetup ==
  ASSUME NEW s, NEW town, NEW b, Shaped(s)
  PROVE  /\ Mild(s, StartTownCapture(s)) /\ Mild(s, RequestLocationChange(s))
         /\ Mild(s, AwaitConfirmation(s, town)) /\ Mild(s, ClearConfirmation(s))
         /\ Mild(s, CompleteWithoutLocation(s)) /\ Mild(s, CompleteLocation(s, town, b))
         /\ Mild(s, AskTown(s)) /\ Mild(s, EndTown(s)) /\ Mild(s, EndProfile(s))
         /\ Mild(s, ForgetSetup(s)) /\ Mild(s, RepairSetup(s))
<1> DEFINE q == Release(s, "ambiguity")
           w == CompleteWithoutLocation(s)
           f == ForgetSetup(s)
           Beside(u, r) == /\ DOMAIN r = DOMAIN u
                           /\ r.active = u.active /\ r.pending = u.pending
                           /\ r.offered = u.offered /\ r.playing = u.playing
<1>0. ASSUME NEW u, NEW r, Shaped(u), Beside(u, r) PROVE Mild(u, r)
  BY <1>0, MildBeside DEF Shaped
<1>1. Mild(s, q) /\ Shaped(q)
  BY MildOps DEF Mild
<1>2. Mild(s, StartTownCapture(s)) /\ Mild(s, RequestLocationChange(s))
  <2> HIDE DEF q
  <2>1. Beside(q, StartTownCapture(s))
    BY <1>1 DEF StartTownCapture, Shaped, q
  <2>2. Beside(q, RequestLocationChange(s))
    BY <1>1 DEF RequestLocationChange, Shaped, q
  <2> QED BY <1>0, <1>1, <2>1, <2>2, MildTrans
<1>3. Mild(s, AwaitConfirmation(s, town)) /\ Mild(s, ClearConfirmation(s))
  <2>1. Beside(s, AwaitConfirmation(s, town))
    BY DEF AwaitConfirmation, Shaped
  <2>2. Beside(s, ClearConfirmation(s))
    BY DEF ClearConfirmation, Shaped
  <2> QED BY <1>0, <2>1, <2>2
<1>4. Mild(s, w) /\ Shaped(w)
  <2>1. Beside(s, w)
    BY DEF CompleteWithoutLocation, Shaped
  <2> QED BY <1>0, <2>1 DEF Mild
<1>5. Mild(s, CompleteLocation(s, town, b))
  <2> HIDE DEF w
  <2>1. Beside(w, CompleteLocation(s, town, b))
    BY <1>4 DEF CompleteLocation, Shaped, w
  <2> QED BY <1>0, <1>4, <2>1, MildTrans
<1>6. Mild(s, AskTown(s)) /\ Mild(s, EndTown(s))
  BY MildOps, MildClear DEF AskTown, EndTown
<1>7. Mild(s, EndProfile(s))
  <2>1. Beside(s, EndProfile(s))
    BY DEF EndProfile, Shaped
  <2> QED BY <1>0, <2>1
<1>8. Mild(s, f) /\ Shaped(f)
  BY MildBeside DEF ForgetSetup, Shaped, Mild
<1>9. Mild(s, RepairSetup(s))
  <2> DEFINE r == [f EXCEPT !.active = NoDialog, !.setup.choices = s.setup.choices]
  <2>1. Mild(f, r)
    <3> HIDE DEF f
    <3> QED BY <1>8 DEF Mild, Shaped, NoticeContexts, NoDialog
  <2> QED BY <1>8, <2>1, MildTrans, MildSelf DEF RepairSetup
<1> QED BY <1>2, <1>3, <1>4, <1>5, <1>6, <1>7, <1>8, <1>9

\* Loading the document finds no notice that it did not hold.
LEMMA MildMigrate ==
  ASSUME NEW s, Shaped(s)
  PROVE  Mild(s, Migrate(s))
<1> DEFINE f == DropExpired(s)
           d == ActiveDialog(f)
           c == Context(f, d)
<1>1. Mild(s, f) /\ Shaped(f)
  BY DEF DropExpired, Mild, Shaped, NoticeContexts, NoDialog
<1>2. Migrate(s) = MigrateTo(f, d)
  BY DEF Migrate
<1> HIDE DEF f
<1>3. CASE d.type = "none"
  <2> DEFINE r == Forgotten(f)
  <2>1. Mild(f, r)
    BY <1>1 DEF Forgotten, Mild, Shaped, NoticeContexts, NoDialog, Held
  <2> QED BY <1>1, <1>2, <1>3, <2>1, MildTrans DEF MigrateTo
<1>4. CASE d.type # "none"
  <2>1. \/ d = f.active
        \/ \E k \in DialogTypes : d = Fresh(k, LegacyContext(f, k))
    <3>1. d \in {NoDialog, LegacyDialog(f), f.active}
      BY DEF ActiveDialog
    <3>2. d # NoDialog
      BY <1>4 DEF NoDialog
    <3> QED BY <3>1, <3>2, LegacyIsLive
  <2> HIDE DEF d
  <2>2. /\ {"type", "context", "left"} \subseteq DOMAIN d /\ d.type # "follow"
        /\ d.type = "notification" =>
             c \in NoticeContexts(f) \union {NoContext}
    <3>1. CASE d = f.active
      BY <1>1, <3>1 DEF Shaped, NoticeContexts, Context
    <3>2. CASE \E k \in DialogTypes : d = Fresh(k, LegacyContext(f, k))
      <4>1. PICK k \in DialogTypes : d = Fresh(k, LegacyContext(f, k))
        BY <3>2
      <4>2. d.type = k /\ d.context = LegacyContext(f, k)
            /\ {"type", "context", "left"} \subseteq DOMAIN d /\ k # "follow"
        BY <4>1 DEF Fresh, DialogTypes, Flagged, Held, Transient
      <4> QED BY <4>2 DEF LegacyContext, Held, NoticeContexts, Context
    <3> QED BY <2>1, <3>1, <3>2
  <2> HIDE DEF c
  <2> DEFINE r == Agreeing(f, d, c)
  <2>3. /\ DOMAIN r = DOMAIN f /\ r.offered = f.offered /\ r.playing = f.playing
        /\ r.active = [d EXCEPT !.context = c]
        /\ r.pending = IF d.type \in Copied THEN [f.pending EXCEPT ![d.type] = c] ELSE f.pending
    BY <1>1 DEF Agreeing, Shaped
  <2>4. r.active.type = d.type /\ r.active.context = c /\ DOMAIN r.active = DOMAIN d
    BY <2>2, <2>3
  <2>5. DOMAIN r.pending = Held /\ r.pending["notification"] \in {f.pending["notification"]}
          \union (IF d.type = "notification" THEN {c} ELSE {})
    BY <1>1, <2>3 DEF Shaped, Held
  <2> HIDE DEF r
  <2>6. Mild(f, r)
    BY <1>1, <2>2, <2>3, <2>4, <2>5 DEF Mild, Shaped, NoticeContexts
  <2> QED BY <1>1, <1>2, <1>4, <2>6, MildTrans DEF MigrateTo, r, c
<1> QED BY <1>3, <1>4

\* Once it is cleared, no notice is held.
LEMMA NotificationCleared ==
  ASSUME NEW s, Shaped(s)
  PROVE  Mild(s, ClearNotification(s)) /\ NoticeContexts(ClearNotification(s)) = {}
<1> DEFINE stale == /\ s.active.type = "notification" /\ s.onboarded
                    /\ SetupOpen(s) \/ s.setup.choices # <<>>
           a == IF stale THEN ForgetSetup(s) ELSE s
           b == Lower(Release(a, "notification"), "notification")
           r == Clear(b, {"notification"})
<1>1. Mild(s, a) /\ Shaped(a)
  BY MildSetup, MildSelf DEF Mild
<1> HIDE DEF a
<1>2. Mild(a, Release(a, "notification")) /\ Shaped(Release(a, "notification"))
  BY <1>1, MildOps DEF Mild
<1>3. Mild(a, b) /\ Shaped(b) /\ b.pending["notification"] = NoContext
  <2>1. Mild(Release(a, "notification"), b)
    BY <1>2, MildOps
  <2>2. b.pending["notification"] = NoContext
    BY <1>1 DEF Release, Hold, Lower, Shaped, Held
  <2> QED BY <1>2, <2>1, <2>2, MildTrans DEF Mild
<1>4. ClearNotification(s) = r
  BY DEF ClearNotification, a
<1> HIDE DEF b
<1>5. Mild(b, r)
  BY <1>3, MildClear
<1>6. r.pending["notification"] = NoContext /\ r.active.type # "notification"
  BY <1>3 DEF Clear, ClearOf, Shaped, NoDialog
<1> HIDE DEF r
<1>7. NoticeContexts(r) = {}
  BY <1>6 DEF NoticeContexts
<1> QED BY <1>1, <1>3, <1>4, <1>5, <1>7, MildTrans

\* What the interceptors and the FeedbackGate leave of a document.
LEMMA MildPassed ==
  ASSUME NEW s, NEW intent, Shaped(s)
  PROVE  Mild(s, Passed(s, intent))
<1>1. Mild(s, Intercepted(s, intent)) /\ Shaped(Intercepted(s, intent))
  <2>1. Mild(s, EndChoices(s)) /\ Shaped(EndChoices(s))
    BY MildNotes DEF Mild
  <2>2. Mild(s, DropStaleMeanings(EndChoices(s)))
    BY <2>1, MildNotes, MildTrans
  <2> QED BY <2>2, MildNotes, MildSelf DEF Intercepted, Mild
<1>2. ASSUME NEW r, Shaped(r) PROVE Mild(r, Settle(r, intent))
  <2>1. \A b : Mild(r, [r EXCEPT !.follow = b])
    BY <1>2, MildBeside DEF Shaped
  <2> QED BY <1>2, <2>1, MildOps, MildSelf DEF Settle
<1> QED BY <1>1, <1>2, MildTrans DEF Passed

-----------------------------------------------------------------------------
(* Turns. *)

IsTurn(t) ==
  /\ {"doc", "saved", "session", "inbox", "asked", "effects", "world",
    "missed"} \subseteq DOMAIN t
  /\ Shaped(t.doc)
  /\ DOMAIN t.session = {"known", "said"}
  /\ DOMAIN t.inbox = Notices
  /\ t.world.lookup \in {"match", "several", "none", "down"}
  /\ t.world.notice \in Notices \union {NoNotice}

\* Effects that the properties speak of.
Noted == {"heard", "follow", "unfollow"}

Calm(t, u) ==
  /\ IsTurn(u) /\ Mild(t.doc, u.doc)
  /\ u.inbox = t.inbox /\ u.session = t.session /\ u.world = t.world /\ u.missed = t.missed
  /\ \A e \in u.effects : e \in t.effects \/ e[1] \notin Noted
  /\ u.asked = t.asked \/ u.asked.kind # "follow"

LEMMA CalmSelf == ASSUME NEW t, IsTurn(t) PROVE Calm(t, t)
BY MildSelf DEF Calm, IsTurn

LEMMA CalmTrans == ASSUME NEW t, NEW u, NEW v, Calm(t, u), Calm(u, v) PROVE Calm(t, v)
BY MildTrans DEF Calm

LEMMA CalmIsTurn == ASSUME NEW t, NEW u, Calm(t, u) PROVE IsTurn(u) /\ Shaped(u.doc)
BY DEF Calm, IsTurn

\* A mild change of the document.
LEMMA CalmDoc ==
  ASSUME NEW t, NEW u, NEW s, Calm(t, u), Mild(u.doc, s)
  PROVE  Calm(t, [u EXCEPT !.doc = s])
<1> DEFINE v == [u EXCEPT !.doc = s]
<1>1. IsTurn(u)
  BY DEF Calm
<1>2. /\ v.doc = s /\ v.inbox = u.inbox /\ v.session = u.session /\ v.world = u.world
      /\ v.effects = u.effects /\ v.asked = u.asked /\ DOMAIN v = DOMAIN u
      /\ v.missed = u.missed
  BY <1>1 DEF IsTurn
<1> HIDE DEF v
<1>3. IsTurn(v) /\ Mild(t.doc, v.doc)
  BY <1>1, <1>2, MildTrans DEF IsTurn, Mild, Calm
<1>4. Calm(t, v)
  BY <1>2, <1>3 DEF Calm
<1> QED BY <1>4 DEF v

\* A change of the document beside its dialogue, its subjects and its notice.
LEMMA CalmBeside ==
  ASSUME NEW t, NEW u, NEW s, Calm(t, u), DOMAIN s = DOMAIN u.doc,
         s.active = u.doc.active, s.pending = u.doc.pending, s.offered = u.doc.offered,
         "item" \in DOMAIN s.playing
  PROVE  Calm(t, [u EXCEPT !.doc = s])
<1>1. Mild(u.doc, s)
  BY CalmIsTurn, MildBeside
<1> QED BY <1>1, CalmDoc

LEMMA CalmSays ==
  ASSUME NEW t, NEW u, NEW k, NEW about, Calm(t, u), k # "follow"
  PROVE  Calm(t, Says(u, k, about))
<1> DEFINE v == Says(u, k, about)
<1>1. IsTurn(u)
  BY DEF Calm
<1>2. /\ v.doc = u.doc /\ v.inbox = u.inbox /\ v.session = u.session /\ v.world = u.world
      /\ v.effects = u.effects /\ v.asked.kind = k /\ DOMAIN v = DOMAIN u
      /\ v.missed = u.missed
  BY <1>1 DEF IsTurn, Says
<1> HIDE DEF v
<1>3. IsTurn(v)
  BY <1>1, <1>2 DEF IsTurn
<1>4. Calm(t, v)
  BY <1>2, <1>3 DEF Calm
<1> QED BY <1>4 DEF v

LEMMA CalmIdle ==
  ASSUME NEW t, NEW u, Calm(t, u) PROVE Calm(t, Idle(u)) /\ Calm(t, Closes(u))
BY CalmSays DEF Idle, Closes

LEMMA CalmDoes ==
  ASSUME NEW t, NEW u, NEW what, NEW about, Calm(t, u), what \notin Noted
  PROVE  Calm(t, Does(u, what, about))
<1> DEFINE v == Does(u, what, about)
<1>1. IsTurn(u)
  BY DEF Calm
<1>2. /\ v.doc = u.doc /\ v.inbox = u.inbox /\ v.session = u.session /\ v.world = u.world
      /\ v.effects = u.effects \union {<<what, about>>} /\ v.asked = u.asked
      /\ DOMAIN v = DOMAIN u /\ v.missed = u.missed
  BY <1>1 DEF IsTurn, Does
<1> HIDE DEF v
<1>3. IsTurn(v)
  BY <1>1, <1>2 DEF IsTurn
<1>4. Calm(t, v)
  BY <1>2, <1>3 DEF Calm
<1> QED BY <1>4 DEF v

-----------------------------------------------------------------------------
(* Operators of Listening on turns. *)

LEMMA CalmStart ==
  ASSUME NEW t, NEW u, NEW i, Calm(t, u) PROVE Calm(t, Start(u, i))
<1> DEFINE v == [u EXCEPT !.doc = StartSession(u.doc, i)]
<1>1. Calm(t, v)
  BY CalmIsTurn, MildSession, CalmDoc
<1>2. Calm(t, Does(v, "play", i))
  BY <1>1, CalmDoes DEF Noted
<1> QED BY <1>2, CalmIdle DEF Start

LEMMA CalmPlayNext ==
  ASSUME NEW t, NEW u, Calm(t, u) PROVE Calm(t, PlayNext(u))
BY CalmStart, CalmIdle DEF PlayNext

LEMMA CalmRestart ==
  ASSUME NEW t, NEW u, Calm(t, u) PROVE Calm(t, Restart(u))
<1> DEFINE s == [u.doc EXCEPT !.playing.status = "starting", !.prepared = FALSE]
           v == [u EXCEPT !.doc = s]
           w == [u EXCEPT !.doc.playing.status = "starting", !.doc.prepared = FALSE]
<1>1. Calm(t, v)
  BY CalmIsTurn, CalmBeside DEF Shaped
<1>2. w = v
  BY CalmIsTurn DEF IsTurn
<1>3. Calm(t, Closes(Does(w, "resume", u.doc.playing.item)))
  BY <1>1, <1>2, CalmDoes, CalmIdle DEF Noted
<1> QED BY <1>3, CalmPlayNext, CalmIdle DEF Restart

LEMMA CalmPauses ==
  ASSUME NEW t, NEW u, Calm(t, u) PROVE Calm(t, PauseActive(u)) /\ Calm(t, Flush(u))
<1>1. ASSUME NEW status PROVE Calm(t, [u EXCEPT !.doc.playing.status = status])
  BY CalmIsTurn, CalmBeside DEF Shaped
<1> QED BY <1>1 DEF PauseActive, Flush

LEMMA CalmContinuation ==
  ASSUME NEW t, NEW u, NEW v, Calm(t, u), Calm(t, v) PROVE Calm(t, Continuation(u, v))
<1> DEFINE k == "feedback_continuation"
           c == About(NextOf(u.doc.playing.item), u.doc.playing.item)
           s == Activate(Hold(u.doc, k, c), k, c)
<1>1. Mild(u.doc, s)
  BY CalmIsTurn, MildOps, MildTrans DEF Mild
<1>2. Calm(t, Says([u EXCEPT !.doc = s], k, NextOf(u.doc.playing.item)))
  BY <1>1, CalmDoc, CalmSays
<1> QED BY <1>2 DEF Continuation

LEMMA CalmContinueQueue ==
  ASSUME NEW t, NEW u, Calm(t, u) PROVE Calm(t, ContinueQueue(u))
<1> DEFINE k == "feedback_continuation"
           s == Clear(Lower(Release(u.doc, k), k), {k})
<1>1. Mild(u.doc, s)
  BY CalmIsTurn, MildClosed
<1>2. Calm(t, [u EXCEPT !.doc = s])
  BY <1>1, CalmDoc
<1> QED BY <1>2, CalmPlayNext DEF ContinueQueue

LEMMA CalmSubmit ==
  ASSUME NEW t, NEW u, NEW value, Calm(t, u), value \notin Noted
  PROVE  Calm(t, Submit(u, value))
<1>1. Calm(t, [u EXCEPT !.doc = MarkAnswered(u.doc)])
  BY CalmIsTurn, MildEnds, CalmDoc
<1> QED BY <1>1, CalmDoes DEF Submit

LEMMA CalmClearFeedback ==
  ASSUME NEW t, NEW u, Calm(t, u) PROVE Calm(t, [u EXCEPT !.doc = ClearFeedback(u.doc)])
BY CalmIsTurn, MildEnds, CalmDoc

LEMMA CalmNotEnjoyed ==
  ASSUME NEW t, NEW u, Calm(t, u) PROVE Calm(t, NotEnjoyed(u))
<1> DEFINE rated == Submit(u, "not_enjoyed")
           c == [ReportContext(u.doc) EXCEPT !.resume = Interrupted(u.doc.pending["feedback"])]
           k == "report_decision"
           d == Dismiss(rated.doc)
           s == Activate(Hold(d, k, c), k, c)
<1>1. Calm(t, rated) /\ Shaped(rated.doc)
  BY CalmSubmit, CalmIsTurn DEF Noted
<1> HIDE DEF rated, c
<1>2. Mild(rated.doc, d) /\ Shaped(d)
  BY <1>1, MildEnds DEF Mild
<1> HIDE DEF d
<1>3. Mild(rated.doc, s)
  BY <1>2, MildOps, MildTrans DEF Mild
<1>4. Calm(t, Says([rated EXCEPT !.doc = s], k, c.item))
  BY <1>1, <1>3, CalmDoc, CalmSays
<1> QED BY <1>4, CalmIdle DEF NotEnjoyed, rated, c, d

LEMMA CalmRequestRating ==
  ASSUME NEW t, NEW u, Calm(t, u) PROVE Calm(t, RequestRating(u))
<1> DEFINE c == RequestedRating(u.doc)
           s == Activate(Hold(u.doc, "feedback", c), "feedback", c)
<1> HIDE DEF c
<1>1. Mild(u.doc, s)
  BY CalmIsTurn, MildOps, MildTrans DEF Mild
<1>2. Calm(t, Says(PauseActive([u EXCEPT !.doc = s]), "feedback", c.about))
  BY <1>1, CalmDoc, CalmPauses, CalmSays
<1> QED BY <1>2, CalmIdle DEF RequestRating, c

LEMMA CalmReportContent ==
  ASSUME NEW t, NEW u, Calm(t, u) PROVE Calm(t, ReportContent(u))
<1> DEFINE c == ReportContext(u.doc)
           k == "report_decision"
           a == Does(u, "report", c.item)
           filed == [a EXCEPT !.doc = Clear(Lower(Release(a.doc, k), k), {k})]
           cleared == [filed EXCEPT !.doc = ClearFeedback(filed.doc)]
           settled == IF c.requested THEN filed ELSE cleared
           kept == [settled EXCEPT !.doc.keep = TRUE]
           keeps == Says(PauseActive(kept), "keep_listening",
                         PauseActive(kept).doc.playing.item)
           ask == IF ~Unfinished(u.doc) THEN Idle(cleared) ELSE keeps
<1>1. Calm(t, a)
  BY CalmDoes DEF Noted
<1> HIDE DEF a, c
<1>2. Calm(t, filed)
  <2>1. Mild(a.doc, Clear(Lower(Release(a.doc, k), k), {k}))
    BY <1>1, CalmIsTurn, MildClosed
  <2> QED BY <1>1, <2>1, CalmDoc
<1> HIDE DEF filed
<1>3. Calm(t, cleared)
  BY <1>2, CalmClearFeedback
<1> HIDE DEF cleared
<1>4. Calm(t, settled)
  BY <1>2, <1>3
<1> HIDE DEF settled
<1>5. Calm(t, kept)
  BY <1>4, CalmIsTurn, CalmBeside DEF Shaped
<1> HIDE DEF kept
<1>6. Calm(t, keeps)
  BY <1>5, CalmPauses, CalmSays
<1> HIDE DEF keeps
<1>7. Calm(t, ask)
  BY <1>3, <1>6, CalmIdle
<1> HIDE DEF ask
<1>8. Calm(t, Continuation(cleared, ask))
  BY <1>3, <1>7, CalmContinuation
<1>9. ReportContent(u) \in {Idle(u), ask, Continuation(cleared, ask)}
  BY DEF ReportContent, AskKeepListening, c, a, filed, cleared, settled, kept, keeps, ask
<1> QED BY <1>7, <1>8, <1>9, CalmIdle

LEMMA CalmResumeYes ==
  ASSUME NEW t, NEW u, Calm(t, u) PROVE Calm(t, ResumeYes(u))
<1> DEFINE closed == [u EXCEPT !.doc = Clear(Lower(u.doc, "resume"), {"resume"})]
           s == [closed.doc EXCEPT !.playing.status = "starting", !.prepared = FALSE]
           w == [closed EXCEPT !.doc.playing.status = "starting", !.doc.prepared = FALSE]
<1>1. Calm(t, closed)
  <2>1. Mild(u.doc, Clear(Lower(u.doc, "resume"), {"resume"}))
    BY CalmIsTurn, MildClosed
  <2> QED BY <2>1, CalmDoc
<1> HIDE DEF closed
<1>2. w = [closed EXCEPT !.doc = s]
  BY <1>1, CalmIsTurn DEF IsTurn
<1>3. Calm(t, w)
  BY <1>1, <1>2, CalmIsTurn, CalmBeside DEF Shaped
<1> HIDE DEF w
<1>4. Calm(t, Closes(Does(w, "resume", u.doc.playing.item)))
  BY <1>3, CalmDoes, CalmIdle DEF Noted
<1> QED BY <1>1, <1>4, CalmIdle DEF ResumeYes, closed, w

LEMMA CalmOfferLatest ==
  ASSUME NEW t, NEW u, Calm(t, u) PROVE Calm(t, OfferLatest(u))
<1> DEFINE k == "latest_source"
           i == u.doc.latest.finished
           c == About(i, i)
           held == Hold(u.doc, k, c)
           offered == [held EXCEPT !.latest.offered = i]
           s == Activate(offered, k, c)
<1>1. Mild(u.doc, held) /\ Shaped(held)
  BY CalmIsTurn, MildOps DEF Mild
<1> HIDE DEF held
<1>2. Mild(held, offered) /\ Shaped(offered)
  BY <1>1, MildBeside DEF Shaped, Mild
<1> HIDE DEF offered
<1>3. Mild(offered, s)
  BY <1>2, MildOps
<1>4. Mild(u.doc, s)
  BY <1>1, <1>2, <1>3, MildTrans
<1>5. Calm(t, Says([u EXCEPT !.doc = s], k, i))
  BY <1>4, CalmDoc, CalmSays
<1> QED BY <1>5, CalmIdle DEF OfferLatest, held, offered

-----------------------------------------------------------------------------
(* Operators of Finding on turns. *)

LEMMA CalmHear ==
  ASSUME NEW t, NEW u, NEW what, Calm(t, u)
  PROVE  Calm(t, Hear(u, what)) /\ Calm(t, HearFound(u, what))
<1>1. Calm(t, [u EXCEPT !.doc = EndChoices(u.doc)])
  BY CalmIsTurn, MildNotes, CalmDoc
<1>2. Calm(t, Hear(u, what))
  BY <1>1, CalmStart, CalmDoes DEF Hear, Noted
<1> QED BY <1>2, CalmIdle DEF HearFound

LEMMA CalmNothing ==
  ASSUME NEW t, NEW u, Calm(t, u) PROVE Calm(t, NothingThere(u))
<1>1. Calm(t, [u EXCEPT !.doc = EndChoices(u.doc)])
  BY CalmIsTurn, MildNotes, CalmDoc
<1> QED BY <1>1, CalmIdle DEF NothingThere

LEMMA CalmPlayLatest ==
  ASSUME NEW t, NEW u, Calm(t, u) PROVE Calm(t, PlayLatest(u))
<1>1. Calm(t, [u EXCEPT !.doc = CloseLatest(u.doc)])
  BY CalmIsTurn, MildNotes, CalmDoc
<1> QED BY <1>1, CalmHear DEF PlayLatest

LEMMA CalmPlayFollowed ==
  ASSUME NEW t, NEW u, Calm(t, u) PROVE Calm(t, PlayFollowed(u))
<1>1. Calm(t, [u EXCEPT !.doc.follow = FALSE])
  BY CalmIsTurn, CalmBeside DEF Shaped
<1> QED BY <1>1, CalmHear, CalmIdle DEF PlayFollowed

LEMMA CalmActivates ==
  ASSUME NEW t, NEW u, NEW k, NEW c, NEW kind, NEW about,
         Calm(t, u), k \notin {"notification", "follow"}, kind # "follow"
  PROVE  Calm(t, Says([u EXCEPT !.doc = Activate(u.doc, k, c)], kind, about))
<1>1. Mild(u.doc, Activate(u.doc, k, c))
  BY CalmIsTurn, MildOps
<1> QED BY <1>1, CalmDoc, CalmSays

LEMMA CalmAsks ==
  ASSUME NEW t, NEW u, NEW kind, NEW c, Calm(t, u), kind # "follow"
  PROVE  Calm(t, Asks(u, kind, c))
BY CalmActivates DEF Asks

LEMMA CalmAskSources ==
  ASSUME NEW t, NEW u, NEW list, Calm(t, u) PROVE Calm(t, AskSources(u, list))
BY CalmAsks DEF AskSources

LEMMA CalmBeginLocal ==
  ASSUME NEW t, NEW u, Calm(t, u) PROVE Calm(t, BeginLocal(u))
<1> DEFINE a == [u EXCEPT !.doc.setup.consent = TRUE]
           v == [a EXCEPT !.doc.setup.community = TRUE]
           d == Does(u, "list", "local")
<1>1. Calm(t, a)
  BY CalmIsTurn, CalmBeside DEF Shaped
<1> HIDE DEF a
<1>2. Calm(t, v)
  BY <1>1, CalmIsTurn, CalmBeside DEF Shaped
<1> HIDE DEF v
<1>3. Calm(t, d)
  BY CalmDoes DEF Noted
<1> HIDE DEF d
<1>4. Calm(t, Says(v, "profile", NoItem)) /\ Calm(t, AskSources(d, "local"))
      /\ Calm(t, NothingThere(d))
  BY <1>2, <1>3, CalmSays, CalmAskSources, CalmNothing
<1>5. BeginLocal(u) \in {Says(v, "profile", NoItem), AskSources(d, "local"), NothingThere(d)}
  BY DEF BeginLocal, a, v, d
<1> QED BY <1>4, <1>5

LEMMA CalmBeginPlace ==
  ASSUME NEW t, NEW u, NEW q, Calm(t, u) PROVE Calm(t, BeginPlace(u, q))
<1>1. Calm(t, Does(u, "list", q))
  BY CalmDoes DEF Noted
<1>2. Calm(t, AskSources(Does(u, "list", q), "local"))
      /\ Calm(t, NothingThere(Does(u, "list", q)))
  BY <1>1, CalmAskSources, CalmNothing
<1> QED BY <1>2, CalmHear DEF BeginPlace, PlayMixed

LEMMA CalmAskCreatorCity ==
  ASSUME NEW t, NEW u, Calm(t, u) PROVE Calm(t, AskCreatorCity(u))
BY CalmActivates DEF AskCreatorCity

LEMMA CalmBeginCreators ==
  ASSUME NEW t, NEW u, NEW town, Calm(t, u) PROVE Calm(t, BeginCreators(u, town))
<1> DEFINE named == [u EXCEPT !.doc = Clear(u.doc, {"creator_location"})]
<1>1. Calm(t, named)
  BY CalmIsTurn, MildClear, CalmDoc
<1> HIDE DEF named
<1>2. Calm(t, AskSources(named, "creators")) /\ Calm(t, NothingThere(named))
  BY <1>1, CalmAskSources, CalmNothing
<1> QED BY <1>2, CalmAskCreatorCity DEF BeginCreators, named

LEMMA CalmBeginSource ==
  ASSUME NEW t, NEW u, NEW s, NEW v, Calm(t, u), Calm(t, v)
  PROVE  Calm(t, BeginSource(u, s, v)) /\ Calm(t, BeginEditions(u, s, v))
<1>1. \A c : Calm(t, Asks(u, "choices", c))
  BY CalmAsks
<1>2. Calm(t, BeginSource(u, s, v))
  BY <1>1, CalmHear, CalmNothing DEF BeginSource
<1>3. Calm(t, BeginEditions(u, s, v))
  BY <1>1, CalmHear, CalmNothing DEF BeginEditions
<1> QED BY <1>2, <1>3

LEMMA CalmBeginRecommended ==
  ASSUME NEW t, NEW u, Calm(t, u) PROVE Calm(t, BeginRecommended(u))
BY CalmAskSources, CalmNothing DEF BeginRecommended

LEMMA CalmPaging ==
  ASSUME NEW t, NEW u, Calm(t, u)
  PROVE  Calm(t, More(u)) /\ Calm(t, Previous(u)) /\ Calm(t, Reread(u))
<1>1. \A x : Calm(t, Does(u, "load", x))
  BY CalmDoes DEF Noted
<1>2. \A v, kind, c : Calm(t, v) /\ kind # "follow" => Calm(t, Asks(v, kind, c))
  BY CalmAsks
<1>3. Calm(t, More(u))
  BY <1>1, <1>2 DEF More
<1>4. Calm(t, Previous(u))
  BY <1>1, <1>2 DEF Previous
<1>5. Calm(t, Reread(u))
  BY <1>2 DEF Reread
<1> QED BY <1>3, <1>4, <1>5

LEMMA CalmSelect ==
  ASSUME NEW t, NEW u, NEW choice, Calm(t, u)
  PROVE  Calm(t, Select(u, choice)) /\ Calm(t, SelectFormat(u, choice))
<1>1. Calm(t, [u EXCEPT !.doc = EndChoices(u.doc)])
  BY CalmIsTurn, MildNotes, CalmDoc
<1>2. Calm(t, Select(u, choice))
  BY <1>1, CalmBeginSource, CalmHear, CalmNothing DEF Select
<1>3. Calm(t, SelectFormat(u, choice))
  BY CalmHear, CalmAsks DEF SelectFormat
<1> QED BY <1>2, <1>3

LEMMA CalmChoose ==
  ASSUME NEW t, NEW u, NEW choice, Calm(t, u)
  PROVE  Calm(t, Choose(u, choice)) /\ Calm(t, ChooseYes(u)) /\ Calm(t, ChooseNo(u))
<1>1. Calm(t, Choose(u, choice))
  BY CalmSelect, CalmPaging DEF Choose
<1>2. Calm(t, ChooseYes(u))
  BY CalmSelect, CalmPaging, CalmHear DEF ChooseYes
<1>3. Calm(t, ChooseNo(u))
  BY CalmHear, CalmNothing DEF ChooseNo
<1> QED BY <1>1, <1>2, <1>3

LEMMA CalmAskSearch ==
  ASSUME NEW t, NEW u, NEW q, NEW choice, Calm(t, u)
  PROVE  Calm(t, AskSearch(u, q, choice))
<1> DEFINE k == "search_confirmation"
           r == Resolution(q, choice)
           a == [u.doc EXCEPT !.topic = NoSearch, !.setup.community = FALSE]
           held == Hold(a, k, r)
           s == Activate(held, k, r)
<1> HIDE DEF r
<1>1. Mild(u.doc, a) /\ Shaped(a)
  <2>1. DOMAIN a = DOMAIN u.doc /\ a.active = u.doc.active /\ a.pending = u.doc.pending
        /\ a.offered = u.doc.offered /\ "item" \in DOMAIN a.playing
    BY CalmIsTurn DEF Shaped
  <2> QED BY <2>1, CalmIsTurn, MildBeside DEF Mild
<1> HIDE DEF a
<1>2. Mild(a, held) /\ Shaped(held)
  BY <1>1, MildOps DEF Mild
<1>3. Mild(held, s)
  BY <1>2, MildOps
<1> HIDE DEF held, s
<1>4. Mild(u.doc, s)
  BY <1>1, <1>2, <1>3, MildTrans
<1>5. Calm(t, Says([u EXCEPT !.doc = s], k, q))
  BY <1>4, CalmDoc, CalmSays
<1> QED BY <1>5 DEF AskSearch, a, held, s, r

LEMMA CalmPresent ==
  ASSUME NEW t, NEW u, NEW q, Calm(t, u)
  PROVE  Calm(t, Present(u, q)) /\ Calm(t, Take(u, q))
<1> DEFINE v == [u EXCEPT !.doc.fresh.search = ResolutionLife]
           a == AskSearch(v, Named[q], TRUE)
<1>1. Calm(t, v)
  BY CalmIsTurn, CalmBeside DEF Shaped
<1> HIDE DEF v
<1>2. Calm(t, AskSearch(v, q, FALSE)) /\ Calm(t, a)
  BY <1>1, CalmAskSearch
<1> HIDE DEF a
<1>3. Calm(t, [a EXCEPT !.doc.topic = q])
  BY <1>2, CalmIsTurn, CalmBeside DEF Shaped
<1>4. Calm(t, Present(u, q))
  BY <1>2, <1>3 DEF Present, v, a
<1> QED BY <1>4, CalmBeginPlace DEF Take

LEMMA CalmAskBroader ==
  ASSUME NEW t, NEW u, NEW q, Calm(t, u)
  PROVE  Calm(t, AskBroader(u, q)) /\ Calm(t, SearchCatalogue(u, q))
<1> DEFINE k == "search_confirmation"
           r == Relaxed(q)
           a == [u.doc EXCEPT !.fresh.search = ResolutionLife]
           held == Hold(a, k, r)
           s == Activate(held, k, r)
<1> HIDE DEF r
<1>1. Mild(u.doc, a) /\ Shaped(a)
  BY CalmIsTurn, MildBeside DEF Shaped, Mild
<1> HIDE DEF a
<1>2. Mild(a, held) /\ Shaped(held)
  BY <1>1, MildOps DEF Mild
<1>3. Mild(held, s)
  BY <1>2, MildOps
<1> HIDE DEF held, s
<1>4. Mild(u.doc, s)
  BY <1>1, <1>2, <1>3, MildTrans
<1>5. Calm(t, Says([u EXCEPT !.doc = s], k, Broader[q]))
  BY <1>4, CalmDoc, CalmSays
<1>6. Calm(t, AskBroader(u, q))
  BY <1>5, CalmIdle DEF AskBroader, a, held, s, r
<1> QED BY <1>6, CalmHear, CalmIdle DEF SearchCatalogue

LEMMA CalmExecute ==
  ASSUME NEW t, NEW u, NEW q, Calm(t, u) PROVE Calm(t, Execute(u, q))
<1> DEFINE v == Does(u, "search", q)
<1>1. Calm(t, v)
  BY CalmDoes DEF Noted
<1> HIDE DEF v
<1>2. Calm(t, SearchCatalogue(v, q)) /\ Calm(t, BeginPlace(v, q))
  BY <1>1, CalmAskBroader, CalmBeginPlace
<1> QED BY <1>1, <1>2, CalmBeginSource DEF Execute, v

LEMMA CalmConfirmSearch ==
  ASSUME NEW t, NEW u, Calm(t, u) PROVE Calm(t, ConfirmSearch(u))
<1>1. /\ Calm(t, [u EXCEPT !.doc = Lower(u.doc, "search_confirmation")])
      /\ Calm(t, [u EXCEPT !.doc = DropSearch(u.doc)])
      /\ Calm(t, [u EXCEPT !.doc = ClearConfirmed(u.doc)])
  BY CalmIsTurn, MildOps, MildNotes, CalmDoc
<1> QED BY <1>1, CalmIdle, CalmExecute DEF ConfirmSearch

LEMMA CalmDeclineSearch ==
  ASSUME NEW t, NEW u, Calm(t, u) PROVE Calm(t, DeclineSearch(u))
<1> DEFINE a == DropSearch(u.doc)
           b == Release(a, "ambiguity")
           c == ForgetTown(b)
           d == Clear(c, {"search_confirmation"})
<1>1. Mild(u.doc, a) /\ Shaped(a)
  BY CalmIsTurn, MildNotes DEF Mild
<1>2. Mild(a, b) /\ Shaped(b)
  BY <1>1, MildOps DEF Mild
<1>3. Mild(b, c) /\ Shaped(c)
  BY <1>2, MildNotes DEF Mild
<1>4. Mild(c, d)
  BY <1>3, MildClear
<1> HIDE DEF a, b, c
<1>5. Calm(t, [u EXCEPT !.doc = d])
  BY <1>1, <1>2, <1>3, <1>4, MildTrans, CalmDoc
<1>6. Calm(t, [u EXCEPT !.doc = Lower(u.doc, "search_confirmation")])
  BY CalmIsTurn, MildOps, CalmDoc
<1> QED BY <1>5, <1>6, CalmIdle, CalmAskSearch DEF DeclineSearch, a, b, c

LEMMA CalmAskMeaning ==
  ASSUME NEW t, NEW u, Calm(t, u) PROVE Calm(t, AskMeaning(u)) /\ Calm(t, Unmatched(u))
<1> DEFINE k == "ambiguity"
           c == [options |-> Meanings, offset |-> 0]
           f == ForgetTown(u.doc)
           a == [f EXCEPT !.fresh.ambiguity = ResolutionLife]
           held == Hold(a, k, c)
           s == Activate(held, k, c)
<1> HIDE DEF c
<1>1. Mild(u.doc, f) /\ Shaped(f)
  BY CalmIsTurn, MildNotes DEF Mild
<1> HIDE DEF f
<1>2. Mild(f, a) /\ Shaped(a)
  BY <1>1, MildBeside DEF Shaped, Mild
<1> HIDE DEF a
<1>3. Mild(a, held) /\ Shaped(held)
  BY <1>2, MildOps DEF Mild
<1>4. Mild(held, s)
  BY <1>3, MildOps
<1> HIDE DEF held, s
<1>5. Mild(u.doc, s)
  BY <1>1, <1>2, <1>3, <1>4, MildTrans
<1>6. Calm(t, Says([u EXCEPT !.doc = s], k, NoItem))
  BY <1>5, CalmDoc, CalmSays
<1>7. Calm(t, AskMeaning(u))
  BY <1>6 DEF AskMeaning, a, f, held, s, c
<1> QED BY <1>7, CalmIdle DEF Unmatched

LEMMA CalmMeanings ==
  ASSUME NEW t, NEW u, Calm(t, u)
  PROVE  Calm(t, MoreMeanings(u)) /\ Calm(t, PreviousMeanings(u))
<1>1. ASSUME NEW offset PROVE Calm(t, MeaningsFrom(u, offset))
  <2> DEFINE k == "ambiguity"
             c == [u.doc.pending["ambiguity"] EXCEPT !.offset = offset]
             s == Activate(Hold(u.doc, k, c), k, c)
  <2> HIDE DEF c
  <2>1. Mild(u.doc, s)
    BY CalmIsTurn, MildOps, MildTrans DEF Mild
  <2>2. Calm(t, Says([u EXCEPT !.doc = s], k, NoItem))
    BY <2>1, CalmDoc, CalmSays
  <2> QED BY <2>2 DEF MeaningsFrom, c
<1> QED BY <1>1, CalmSays DEF MoreMeanings, PreviousMeanings

LEMMA CalmSettled ==
  ASSUME NEW t, NEW u, NEW q, Calm(t, u)
  PROVE  Calm(t, Settled(u)) /\ Calm(t, SettleMeaning(u, q))
<1> DEFINE b == Release(u.doc, "ambiguity")
           c == ForgetTown(b)
           d == Clear(c, {"ambiguity"})
<1>1. Mild(u.doc, b) /\ Shaped(b)
  BY CalmIsTurn, MildOps DEF Mild
<1>2. Mild(b, c) /\ Shaped(c)
  BY <1>1, MildNotes DEF Mild
<1>3. Mild(c, d)
  BY <1>2, MildClear
<1> HIDE DEF b, c
<1>4. Calm(t, [u EXCEPT !.doc = d])
  BY <1>1, <1>2, <1>3, MildTrans, CalmDoc
<1>5. Calm(t, Settled(u))
  BY <1>4 DEF Settled, b, c
<1> QED BY <1>5, CalmHear, CalmPresent DEF SettleMeaning

LEMMA CalmDiscover ==
  ASSUME NEW t, NEW u, NEW q, Calm(t, u)
  PROVE  Calm(t, Discover(u, q)) /\ Calm(t, DiscoverSeveral(u))
<1>1. u.world.lookup \in {"match", "several", "none", "down"}
  BY CalmIsTurn DEF IsTurn
<1>2. Calm(t, SettleMeaning(u, q)) /\ Calm(t, Take(Settled(u), q))
  BY CalmSettled, CalmPresent
<1> QED BY <1>1, <1>2, CalmIdle, CalmAskMeaning DEF Discover, DiscoverSeveral

LEMMA CalmPlayCommunity ==
  ASSUME NEW t, NEW u, Calm(t, u) PROVE Calm(t, PlayCommunity(u))
<1> DEFINE a == [u.doc EXCEPT !.setup.community = FALSE]
           b == DropSearch(a)
           d == Clear(b, {"search_confirmation"})
<1>1. Mild(u.doc, a) /\ Shaped(a)
  BY CalmIsTurn, MildBeside DEF Shaped, Mild
<1> HIDE DEF a
<1>2. Mild(a, b) /\ Shaped(b)
  BY <1>1, MildNotes DEF Mild
<1>3. Mild(b, d)
  BY <1>2, MildClear
<1> HIDE DEF b
<1>4. Calm(t, [u EXCEPT !.doc = d])
  BY <1>1, <1>2, <1>3, MildTrans, CalmDoc
<1> QED BY <1>4, CalmBeginLocal DEF PlayCommunity, a, b

-----------------------------------------------------------------------------
(* Operators of SourceNames and Setup on turns. *)

LEMMA CalmDecide ==
  ASSUME NEW t, NEW u, NEW p, Calm(t, u) PROVE Calm(t, Decide(u, p))
BY CalmAskMeaning, CalmIdle, CalmPresent DEF Decide

LEMMA CalmAskFor ==
  ASSUME NEW t, NEW u, Calm(t, u)
  PROVE  Calm(t, AskNewspaper(u)) /\ Calm(t, AskPublication(u)) /\ Calm(t, AskRepair(u))
BY CalmActivates DEF AskNewspaper, AskPublication, AskRepair, AskFor

LEMMA CalmRepair ==
  ASSUME NEW t, NEW u, Calm(t, u)
  PROVE  Calm(t, RepairYes(u)) /\ Calm(t, RepairNo(u))
<1> DEFINE a == Clear(u.doc, {"asr_repair"})
           b == Raise(a, "organization_name")
<1>1. Mild(u.doc, a) /\ Shaped(a)
  BY CalmIsTurn, MildClear DEF Mild
<1> HIDE DEF a
<1>2. Mild(a, b)
  BY <1>1, MildOps
<1> HIDE DEF b
<1>3. Calm(t, [u EXCEPT !.doc = a]) /\ Calm(t, [u EXCEPT !.doc = b])
  BY <1>1, <1>2, MildTrans, CalmDoc
<1> QED BY <1>3, CalmAskFor, CalmIdle DEF RepairYes, RepairNo, a, b

LEMMA CalmAnySource ==
  ASSUME NEW t, NEW u, NEW kind, Calm(t, u) PROVE Calm(t, AnySource(u, kind))
<1>1. Calm(t, [u EXCEPT !.doc = Clear(u.doc, {"organization_name"})])
  BY CalmIsTurn, MildClear, CalmDoc
<1> QED BY <1>1, CalmAskFor, CalmAskCreatorCity, CalmIdle DEF AnySource

LEMMA CalmPlaySource ==
  ASSUME NEW t, NEW u, NEW kind, NEW q, Calm(t, u) PROVE Calm(t, PlaySource(u, kind, q))
<1>1. Calm(t, NotRecognised(u, kind))
  BY CalmAskFor, CalmHear DEF NotRecognised
<1> QED BY <1>1, CalmIdle, CalmAskMeaning, CalmPresent DEF PlaySource

LEMMA CalmAnswerName ==
  ASSUME NEW t, NEW u, NEW dialog, NEW q, Calm(t, u) PROVE Calm(t, AnswerName(u, dialog, q))
<1>1. Calm(t, [u EXCEPT !.doc = Clear(u.doc, {dialog})])
  BY CalmIsTurn, MildClear, CalmDoc
<1> QED BY <1>1, CalmPlaySource, CalmIdle, CalmPresent DEF AnswerName

LEMMA CalmFindSource ==
  ASSUME NEW t, NEW u, NEW kind, NEW q, Calm(t, u) PROVE Calm(t, FindSource(u, kind, q))
<1>1. Calm(t, [u EXCEPT !.doc = Lower(u.doc, "organization_name")])
  BY CalmIsTurn, MildOps, CalmDoc
<1>2. Calm(t, Unresolved(u, kind))
  BY <1>1, CalmAskCreatorCity, CalmIdle DEF Unresolved
<1> QED BY <1>2, CalmIdle, CalmAskMeaning, CalmPresent DEF FindSource

LEMMA CalmAsksTown ==
  ASSUME NEW t, NEW u, Calm(t, u) PROVE Calm(t, AsksTown(u))
BY CalmSays DEF AsksTown

\* A change of the document's setup, in a document that has changed mildly.
LEMMA MildSetupField ==
  ASSUME NEW s, NEW q, NEW x, Mild(s, q) PROVE Mild(s, [q EXCEPT !.setup = x])
<1>1. Mild(q, [q EXCEPT !.setup = x])
  BY MildBeside DEF Mild, Shaped
<1> QED BY <1>1, MildTrans

LEMMA MildFields ==
  ASSUME NEW s, NEW q, NEW x, Mild(s, q)
  PROVE  /\ Mild(s, [q EXCEPT !.stage = x]) /\ Mild(s, [q EXCEPT !.known = x])
         /\ Mild(s, [q EXCEPT !.keep = x]) /\ Mild(s, [q EXCEPT !.follow = x])
<1>1. Shaped(q)
  BY DEF Mild
<1>2. /\ Mild(q, [q EXCEPT !.stage = x]) /\ Mild(q, [q EXCEPT !.known = x])
      /\ Mild(q, [q EXCEPT !.keep = x]) /\ Mild(q, [q EXCEPT !.follow = x])
  BY <1>1, MildBeside DEF Shaped
<1> QED BY <1>2, MildTrans

LEMMA CalmAskForPermission ==
  ASSUME NEW t, NEW u, Calm(t, u) PROVE Calm(t, AskForPermission(u))
<1> DEFINE a == [u.doc EXCEPT !.stage = "ask_permission"]
           b == AskTown(a)
<1>1. Mild(u.doc, a) /\ Shaped(a)
  BY CalmIsTurn, MildSelf, MildFields, MildShaped
<1> HIDE DEF a
<1>2. Mild(u.doc, b)
  BY <1>1, MildSetup, MildTrans
<1> HIDE DEF b
<1>3. Calm(t, Says([u EXCEPT !.doc = b], "permission", NoItem))
  BY <1>2, CalmDoc, CalmSays
<1> QED BY <1>3 DEF AskForPermission, a, b

\* Setup ends without a town.
LEMMA CalmGivesUp ==
  ASSUME NEW t, NEW u, Calm(t, u)
  PROVE  /\ Calm(t, Idle([u EXCEPT !.doc = EndTown(CompleteWithoutLocation(u.doc))]))
         /\ Calm(t, HandlePermissionNo(u))
<1> DEFINE a == CompleteWithoutLocation(u.doc)
           b == EndTown(a)
<1>1. Mild(u.doc, a) /\ Shaped(a)
  BY CalmIsTurn, MildSetup DEF Mild
<1> HIDE DEF a
<1>2. Mild(u.doc, b)
  BY <1>1, MildSetup, MildTrans
<1> HIDE DEF b
<1>3. Calm(t, Idle([u EXCEPT !.doc = b]))
  BY <1>2, CalmDoc, CalmIdle
<1> QED BY <1>3 DEF HandlePermissionNo, a, b

LEMMA CalmResumeTown ==
  ASSUME NEW t, NEW u, Calm(t, u) PROVE Calm(t, ResumeTownCapture(u))
<1> DEFINE n == u.doc.setup.attempts + 1
           v == [u EXCEPT !.doc.setup.attempts = n]
<1>1. Calm(t, v)
  BY CalmIsTurn, CalmBeside DEF Shaped
<1> HIDE DEF v
<1> QED BY <1>1, CalmGivesUp, CalmAsksTown DEF ResumeTownCapture, v

LEMMA CalmUnavailable ==
  ASSUME NEW t, NEW u, Calm(t, u) PROVE Calm(t, TownResolverUnavailable(u))
<1> DEFINE n == u.doc.setup.failures + 1
           a == [u.doc EXCEPT !.stage = "ask_town"]
           b == [a EXCEPT !.setup.failures = n]
           c == AskTown(b)
<1>1. Mild(u.doc, a) /\ Shaped(a)
  BY CalmIsTurn, MildSelf, MildFields, MildShaped
<1> HIDE DEF a
<1>2. Mild(u.doc, b) /\ Shaped(b)
  BY <1>1, MildSetupField, MildShaped
<1> HIDE DEF b
<1>3. Mild(u.doc, c)
  BY <1>2, MildSetup, MildTrans
<1> HIDE DEF c
<1>4. Calm(t, AsksTown([u EXCEPT !.doc = c]))
  BY <1>3, CalmDoc, CalmAsksTown
<1> QED BY <1>4, CalmGivesUp DEF TownResolverUnavailable, a, b, c

LEMMA CalmTownSkipped ==
  ASSUME NEW t, NEW u, Calm(t, u) PROVE Calm(t, FinalizeTownSkipped(u))
<1> DEFINE w == CompleteWithoutLocation(u.doc)
           done == [u EXCEPT !.doc = w]
           profile == EndTown(EndProfile(w))
           alone == [w EXCEPT !.setup.community = FALSE, !.setup.permission = FALSE]
           local == EndTown(alone)
           asking == EndTown([w EXCEPT !.setup.permission = TRUE])
<1>1. Mild(u.doc, w) /\ Shaped(w)
  BY CalmIsTurn, MildSetup DEF Mild
<1>2. Calm(t, done) /\ done.doc = w
  BY <1>1, CalmIsTurn, CalmDoc DEF IsTurn
<1> HIDE DEF w, done
<1>3. Mild(w, EndProfile(w)) /\ Shaped(EndProfile(w))
  BY <1>1, MildSetup DEF Mild
<1>4. Mild(w, profile)
  BY <1>3, MildSetup, MildTrans
<1>5. Mild(w, alone) /\ Shaped(alone)
  <2>1. DOMAIN alone = DOMAIN w /\ alone.active = w.active /\ alone.pending = w.pending
        /\ alone.offered = w.offered /\ "item" \in DOMAIN alone.playing
    BY <1>1 DEF Shaped
  <2> QED BY <1>1, <2>1, MildBeside DEF Mild
<1> HIDE DEF alone
<1>6. Mild(w, local)
  BY <1>5, MildSetup, MildTrans
<1>7. Mild(w, [w EXCEPT !.setup.permission = TRUE])
  BY <1>1, MildSelf, MildSetupField
<1>8. Mild(w, asking)
  BY <1>7, MildSetup, MildTrans DEF Mild
<1> HIDE DEF profile, local, asking
<1>9. /\ Calm(t, Idle([done EXCEPT !.doc = profile]))
      /\ Calm(t, Idle([done EXCEPT !.doc = local]))
      /\ Calm(t, Says([done EXCEPT !.doc = asking], "profile", NoItem))
  BY <1>2, <1>4, <1>6, <1>8, CalmDoc, CalmIdle, CalmSays
<1>10. FinalizeTownSkipped(u) \in {Idle([done EXCEPT !.doc = profile]),
                                   Idle([done EXCEPT !.doc = local]),
                                   Says([done EXCEPT !.doc = asking], "profile", NoItem)}
  BY <1>2 DEF FinalizeTownSkipped, w, done, profile, local, alone, asking
<1> QED BY <1>9, <1>10

LEMMA CalmTownFound ==
  ASSUME NEW t, NEW u, NEW reply, NEW picked, Calm(t, u)
  PROVE  Calm(t, TownFound(u, reply, picked))
<1> DEFINE kept == [u EXCEPT !.doc.setup.failures = 0]
           several == {c \in TownChoices : \E k \in DOMAIN c : c[k] = reply}
           sure == AskTown(AwaitConfirmation(kept.doc, reply))
           x == [kept EXCEPT !.doc.stage = "ask_town"]
           y == [x EXCEPT !.doc.setup.choices = CHOOSE c \in several : TRUE]
<1>1. Calm(t, kept) /\ Shaped(kept.doc)
  <2>1. Calm(t, kept)
    BY CalmIsTurn, CalmBeside DEF Shaped
  <2> QED BY <2>1, CalmIsTurn
<1> HIDE DEF kept, several
<1>2. Mild(kept.doc, AwaitConfirmation(kept.doc, reply))
  BY <1>1, MildSetup
<1>3. Mild(kept.doc, sure)
  BY <1>2, MildSetup, MildTrans DEF Mild
<1> HIDE DEF sure
<1>4. Calm(t, Says([kept EXCEPT !.doc = sure], "confirm_city", reply))
  BY <1>1, <1>3, CalmDoc, CalmSays
<1>5. Calm(t, x)
  BY <1>1, CalmIsTurn, CalmBeside DEF Shaped
<1> HIDE DEF x
<1>6. Calm(t, y)
  BY <1>5, CalmIsTurn, CalmBeside DEF Shaped
<1> HIDE DEF y
<1>7. Calm(t, Says(y, "which_town", NoItem)) /\ Calm(t, ResumeTownCapture(kept))
  BY <1>1, <1>6, CalmSays, CalmResumeTown
<1>8. TownFound(u, reply, picked) \in
        {Says([kept EXCEPT !.doc = sure], "confirm_city", reply),
         Says(y, "which_town", NoItem), ResumeTownCapture(kept)}
  BY DEF TownFound, kept, several, sure, x, y
<1> QED BY <1>4, <1>7, <1>8

LEMMA CalmCaptureTown ==
  ASSUME NEW t, NEW u, NEW reply, Calm(t, u)
  PROVE  Calm(t, CaptureTown(u, reply)) /\ Calm(t, SetLocation(u, reply))
<1> DEFINE looking == [u EXCEPT !.doc.setup.choices = <<>>]
           a == RequestLocationChange(u.doc)
           b == AskTown(a)
<1>1. Calm(t, looking)
  BY CalmIsTurn, CalmBeside DEF Shaped
<1> HIDE DEF looking
<1>2. Calm(t, TownResolverUnavailable(looking))
      /\ \A name, picked : Calm(t, TownFound(looking, name, picked))
  BY <1>1, CalmUnavailable, CalmTownFound
<1>3. Calm(t, StageTownConfirmation(u, reply))
  BY <1>2, CalmTownSkipped, CalmResumeTown DEF StageTownConfirmation, looking
<1>4. Mild(u.doc, a) /\ Shaped(a)
  BY CalmIsTurn, MildSetup DEF Mild
<1> HIDE DEF a
<1>5. Mild(u.doc, b)
  BY <1>4, MildSetup, MildTrans
<1> HIDE DEF b
<1>6. Calm(t, AsksTown([u EXCEPT !.doc = b]))
  BY <1>5, CalmDoc, CalmAsksTown
<1>7. Calm(t, CaptureTown(u, reply))
  BY <1>3, CalmResumeTown DEF CaptureTown
<1>8. Calm(t, SetLocation(u, reply))
  BY <1>3, <1>6 DEF SetLocation, a, b
<1> QED BY <1>7, <1>8

\* A town, or none, completes the setup.
LEMMA MildCompletes ==
  ASSUME NEW s, NEW town, NEW b, Shaped(s)
  PROVE  /\ Mild(s, EndTown(CompleteLocation(s, town, b)))
         /\ Mild(s, EndTown(CompleteWithoutLocation(s)))
         /\ Mild(s, EndProfile(CompleteLocation(s, town, b)))
         /\ Mild(s, AskTown(StartTownCapture(s)))
<1>1. /\ Mild(s, CompleteLocation(s, town, b)) /\ Mild(s, CompleteWithoutLocation(s))
      /\ Mild(s, StartTownCapture(s))
  BY MildSetup
<1>2. \A q : Mild(s, q) => Mild(s, EndTown(q)) /\ Mild(s, EndProfile(q)) /\ Mild(s, AskTown(q))
  <2>1. ASSUME NEW q, Mild(s, q)
        PROVE  Mild(q, EndTown(q)) /\ Mild(q, EndProfile(q)) /\ Mild(q, AskTown(q))
    BY <2>1, MildShaped, MildSetup
  <2> QED BY <2>1, MildTrans
<1> QED BY <1>1, <1>2

LEMMA CalmFirstRun ==
  ASSUME NEW t, NEW u, Calm(t, u) PROVE Calm(t, CompleteFirstRun(u))
<1> DEFINE a == EndTown(CompleteLocation(u.doc, DeviceTown, FALSE))
           b == EndTown(CompleteWithoutLocation(u.doc))
           c == AskTown(StartTownCapture(u.doc))
<1>1. Mild(u.doc, a) /\ Mild(u.doc, b) /\ Mild(u.doc, c)
  BY CalmIsTurn, MildCompletes
<1> HIDE DEF a, b, c
<1>2. Mild(u.doc, [a EXCEPT !.known = TRUE]) /\ Mild(u.doc, [b EXCEPT !.known = TRUE])
  BY <1>1, MildFields
<1>3. /\ Calm(t, Idle([u EXCEPT !.doc = [a EXCEPT !.known = TRUE]]))
      /\ Calm(t, Idle([u EXCEPT !.doc = [b EXCEPT !.known = TRUE]]))
      /\ Calm(t, AsksTown([u EXCEPT !.doc = c]))
  BY <1>1, <1>2, CalmDoc, CalmIdle, CalmAsksTown
<1> QED BY <1>3 DEF CompleteFirstRun, a, b, c

LEMMA CalmAskProfile ==
  ASSUME NEW t, NEW u, Calm(t, u) PROVE Calm(t, AskProfileSetup(u))
<1>1. Calm(t, [u EXCEPT !.doc.setup.consent = TRUE])
  BY CalmIsTurn, CalmBeside DEF Shaped
<1> QED BY <1>1, CalmSays DEF AskProfileSetup

LEMMA CalmManualProfile ==
  ASSUME NEW t, NEW u, Calm(t, u) PROVE Calm(t, BeginManualProfile(u))
<1> DEFINE a == StartTownCapture(u.doc)
           b == [a EXCEPT !.setup.permission = FALSE, !.setup.profileTown = TRUE,
                          !.setup.profileActive = TRUE]
           c == AskTown(b)
<1>1. Mild(u.doc, a) /\ Shaped(a)
  BY CalmIsTurn, MildSetup, MildShaped
<1> HIDE DEF a
<1>2. Mild(u.doc, b)
  <2>1. DOMAIN b = DOMAIN a /\ b.active = a.active /\ b.pending = a.pending
        /\ b.offered = a.offered /\ "item" \in DOMAIN b.playing
    BY <1>1 DEF Shaped
  <2> QED BY <1>1, <2>1, MildBeside, MildTrans
<1> HIDE DEF b
<1>3. Mild(u.doc, c)
  BY <1>2, MildShaped, MildSetup, MildTrans
<1> HIDE DEF c
<1>4. Calm(t, AsksTown([u EXCEPT !.doc = c]))
  BY <1>3, CalmDoc, CalmAsksTown
<1> QED BY <1>4 DEF BeginManualProfile, a, b, c

LEMMA CalmStartProfile ==
  ASSUME NEW t, NEW u, Calm(t, u) PROVE Calm(t, StartProfile(u))
<1> DEFINE a == [u EXCEPT !.doc.setup.consent = FALSE]
           agreed == [a EXCEPT !.doc.known = a.doc.known \/ u.world.scopes]
           located == [agreed EXCEPT
                         !.doc = EndProfile(CompleteLocation(agreed.doc, DeviceTown, FALSE))]
<1>1. Calm(t, a)
  BY CalmIsTurn, CalmBeside DEF Shaped
<1> HIDE DEF a
<1>2. Calm(t, agreed)
  BY <1>1, CalmIsTurn, CalmBeside DEF Shaped
<1> HIDE DEF agreed
<1>3. Calm(t, located)
  BY <1>2, CalmIsTurn, MildCompletes, CalmDoc
<1> HIDE DEF located
<1> DEFINE started == IF ~u.world.scopes \/ u.world.device # "resolved"
                      THEN BeginManualProfile(agreed) ELSE Idle(located)
<1>4. Calm(t, started)
  BY <1>2, <1>3, CalmManualProfile, CalmIdle
<1>5. StartProfile(u) = IF started.doc.setup.community /\ started.doc.city # NoTown
                        THEN PlayCommunity(started) ELSE started
  <2> DEFINE both == [u EXCEPT !.doc.setup.consent = FALSE, !.doc.known = @ \/ u.world.scopes]
  <2>1. both = agreed
    BY DEF agreed, a
  <2>2. [both EXCEPT !.doc = EndProfile(CompleteLocation(@, DeviceTown, FALSE))] = located
    BY <2>1 DEF located
  <2> HIDE DEF both
  <2>3. StartProfile(u) =
          LET begun == IF ~u.world.scopes \/ u.world.device # "resolved"
                       THEN BeginManualProfile(both)
                       ELSE Idle([both EXCEPT
                                    !.doc = EndProfile(CompleteLocation(@, DeviceTown, FALSE))])
          IN  IF begun.doc.setup.community /\ begun.doc.city # NoTown
              THEN PlayCommunity(begun) ELSE begun
    BY DEF StartProfile, both
  <2> QED BY <2>1, <2>2, <2>3
<1> HIDE DEF started
<1>6. CASE started.doc.setup.community /\ started.doc.city # NoTown
  BY <1>4, <1>5, <1>6, CalmPlayCommunity
<1>7. CASE ~(started.doc.setup.community /\ started.doc.city # NoTown)
  BY <1>4, <1>5, <1>7
<1> QED BY <1>6, <1>7

LEMMA CalmProfileSkipped ==
  ASSUME NEW t, NEW u, Calm(t, u) PROVE Calm(t, FinalizeProfileSkipped(u))
<1> DEFINE a == [u EXCEPT !.doc.setup.permission = FALSE]
           b == [a EXCEPT !.doc.known = TRUE]
<1>1. Calm(t, a)
  BY CalmIsTurn, CalmBeside DEF Shaped
<1> HIDE DEF a
<1>2. Calm(t, b)
  BY <1>1, CalmIsTurn, CalmBeside DEF Shaped
<1> HIDE DEF b
<1> QED BY <1>2, CalmIdle DEF FinalizeProfileSkipped, a, b

LEMMA CalmConfirmLocation ==
  ASSUME NEW t, NEW u, Calm(t, u) PROVE Calm(t, ConfirmLocation(u))
<1> DEFINE town == u.doc.setup.candidate
           waiting == u.doc.setup.community
           done == [u EXCEPT !.doc = EndTown(CompleteLocation(u.doc, town, waiting))]
           s == IF done.doc.setup.profileActive THEN EndProfile(done.doc) ELSE done.doc
           a == [done EXCEPT !.doc = s]
           ended == [a EXCEPT !.doc.known = a.doc.known \/ u.doc.setup.profileActive]
<1>1. Calm(t, done)
  BY CalmIsTurn, MildCompletes, CalmDoc
<1> HIDE DEF done
<1>2. Mild(done.doc, s)
  BY <1>1, CalmIsTurn, MildSetup, MildSelf
<1> HIDE DEF s
<1>3. Calm(t, a)
  BY <1>1, <1>2, CalmDoc
<1> HIDE DEF a
<1>4. Calm(t, ended)
  BY <1>3, CalmIsTurn, CalmBeside DEF Shaped
<1> HIDE DEF ended
<1>5. Calm(t, PlayCommunity(ended)) /\ Calm(t, Idle(ended))
  BY <1>4, CalmPlayCommunity, CalmIdle
<1>6. ConfirmLocation(u) \in {PlayCommunity(ended), Idle(ended)}
  BY DEF ConfirmLocation, done, s, a, ended
<1> QED BY <1>5, <1>6

LEMMA CalmDeclineTown ==
  ASSUME NEW t, NEW u, Calm(t, u) PROVE Calm(t, DeclineTown(u))
<1>1. Calm(t, [u EXCEPT !.doc = ClearConfirmation(u.doc)])
  BY CalmIsTurn, MildSetup, CalmDoc
<1> QED BY <1>1, CalmAsksTown DEF DeclineTown

LEMMA CalmGate ==
  ASSUME NEW t, NEW u, NEW intent, NEW reply, Calm(t, u)
  PROVE  Calm(t, Gate(u, intent, reply))
<1>1. Calm(t, SkipsSetup(u))
  BY CalmProfileSkipped, CalmTownSkipped DEF SkipsSetup
<1>2. Calm(t, [u EXCEPT !.doc = StartTownCapture(u.doc)])
  BY CalmIsTurn, MildSetup, CalmDoc
<1>3. Calm(t, CaptureTown([u EXCEPT !.doc = StartTownCapture(u.doc)], reply))
  BY <1>2, CalmCaptureTown
<1>4. Calm(t, CompleteFirstRun(u)) /\ Calm(t, HandlePermissionNo(u))
      /\ Calm(t, ResumeTownCapture(u))
  BY CalmFirstRun, CalmGivesUp, CalmResumeTown
<1>5. Calm(t, Says(u, "confirm_city", u.doc.setup.candidate))
      /\ Calm(t, Says(u, "permission", NoItem))
  BY CalmSays
<1> QED BY <1>1, <1>3, <1>4, <1>5 DEF Gate

-----------------------------------------------------------------------------
(* Questions that are asked again. *)

LEMMA CalmReject ==
  ASSUME NEW t, NEW u, NEW intent, Calm(t, u) PROVE Calm(t, Reject(u, intent))
<1> DEFINE s == CASE u.doc.active.type = "feedback" -> NoteUnrecognised(u.doc)
                  [] /\ u.doc.active.type = "search_confirmation"
                     /\ u.doc.active.context # NoContext /\ u.doc.active.context.choice ->
                       [u.doc EXCEPT !.active.context.unclear = 1]
                  [] OTHER -> u.doc
           v == [u EXCEPT !.doc = s]
<1>1. Shaped(u.doc)
  BY CalmIsTurn
<1>2. ASSUME u.doc.active.type = "feedback" PROVE Mild(u.doc, NoteUnrecognised(u.doc))
  <2> DEFINE c == [u.doc.active.context EXCEPT !.unclear = 1]
             r == [u.doc EXCEPT !.active.context = c, !.pending["feedback"] = c]
  <2> HIDE DEF c
  <2>1. /\ DOMAIN r = DOMAIN u.doc /\ r.offered = u.doc.offered
        /\ r.active = [u.doc.active EXCEPT !.context = c]
        /\ r.pending = [u.doc.pending EXCEPT !["feedback"] = c] /\ r.playing = u.doc.playing
    BY <1>1 DEF Shaped
  <2>2. DOMAIN r.active = DOMAIN u.doc.active /\ r.active.type = "feedback"
    BY <1>1, <1>2, <2>1 DEF Shaped
  <2>3. DOMAIN r.pending = Held
        /\ r.pending["notification"] = u.doc.pending["notification"]
    BY <1>1, <2>1 DEF Shaped, Held
  <2> HIDE DEF r
  <2>4. Mild(u.doc, r)
    BY <1>1, <2>1, <2>2, <2>3 DEF Mild, Shaped, NoticeContexts
  <2> QED BY <1>1, <2>4, MildEnds DEF NoteUnrecognised, r, c
<1>3. ASSUME u.doc.active.type = "search_confirmation"
      PROVE  Mild(u.doc, [u.doc EXCEPT !.active.context.unclear = 1])
  <2> DEFINE r == [u.doc EXCEPT !.active.context.unclear = 1]
  <2>1. /\ DOMAIN r = DOMAIN u.doc /\ r.offered = u.doc.offered /\ r.pending = u.doc.pending
        /\ DOMAIN r.active = DOMAIN u.doc.active /\ r.active.type = "search_confirmation"
        /\ r.playing = u.doc.playing
    BY <1>1, <1>3 DEF Shaped
  <2> HIDE DEF r
  <2>2. Mild(u.doc, r)
    BY <1>1, <2>1 DEF Mild, Shaped, NoticeContexts
  <2> QED BY <2>2 DEF r
<1>4. Mild(u.doc, s)
  BY <1>1, <1>2, <1>3, MildSelf
<1> HIDE DEF s
<1>5. Calm(t, v) /\ Shaped(v.doc)
  BY <1>4, CalmDoc, CalmIsTurn
<1> HIDE DEF v
<1>6. \A x : Calm(t, Idle([v EXCEPT !.doc = Clear(v.doc, x)]))
  BY <1>5, MildClear, CalmDoc, CalmIdle
<1>7. \A k, about : k # "follow" => Calm(t, Says(v, k, about))
  BY <1>5, CalmSays
<1>8. Calm(t, Idle(v))
  BY <1>5, CalmIdle
<1>9. u.doc.active.type # "follow"
  BY <1>1 DEF Shaped
<1> DEFINE k == u.doc.active.type
           c == u.doc.active.context
<1>10. Reject(u, intent) \in
         {Idle(v), Idle([v EXCEPT !.doc = Clear(v.doc, {k})]), Says(v, k, c.search),
          Says(v, "creator_city", NoItem), Says(v, "permission", NoItem),
          Says(v, "confirm_city", s.setup.candidate), Says(v, k, NoItem), Says(v, k, c.about)}
  BY DEF Reject, s, v
<1> QED BY <1>6, <1>7, <1>8, <1>9, <1>10

-----------------------------------------------------------------------------
(* What a request may end with. *)

Open == {"pending", "offered", "resolving"}

\* With one notice, the one that waits for its recording is the one tracked.
OneNotice == \A m, n \in Notices : m = n
Tracked(s, box, lost) ==
  OneNotice => \A n \in Notices : box[n] = "queued" /\ Trackable(n, lost) => s.offered = n

\* A turn as its handler takes it.
Fit(t) ==
  /\ IsTurn(t) /\ Shaped(t.saved) /\ Mild(t.saved, t.doc)
  /\ NoticesAgree(t.saved, t.inbox, t.missed) /\ Tracked(t.saved, t.inbox, t.missed)
  /\ t.effects = {}
  /\ t.asked.kind = "follow" => t.session.said # "has"

\* An effect for which there was cause when the request was made.
Caused(t, e) ==
  /\ e[1] = "follow" => t.session.said # "has"
  /\ e[1] = "unfollow" => t.session.said # "lacks"
  /\ e[1] = "heard" => e[2] \in Reported

\* Of the turn t that a handler takes, and of u that it makes of it.  A notice that the
\* document tracks is not offered.
Keeps(t, u) ==
  /\ IsTurn(u)
  /\ NoticesAgree(u.doc, u.inbox, u.missed) /\ Tracked(u.doc, u.inbox, u.missed)
  /\ t.missed \subseteq u.missed
  /\ \A n \in Notices :
       InTouch(n, t.missed) =>
         /\ t.inbox[n] \in TerminalStatuses => u.inbox[n] = t.inbox[n]
         /\ t.saved.offered = n => u.inbox[n] # "offered"
  /\ \A e \in u.effects : Caused(t, e)

\* Nothing but the player's events makes of a notice that the document tracks what it
\* becomes, or counts one as consumed.
Done(t, u) ==
  /\ Keeps(t, u)
  /\ \A n \in Notices :
       /\ u.inbox[n] = "consumed" => t.inbox[n] = "consumed"
       /\ InTouch(n, t.missed) /\ t.saved.offered = n => u.inbox[n] = "queued"

AsksWell(t, u) == u.asked.kind = "follow" => u.session.said # "has" /\ t.session.said # "has"

Good(t, u) == Done(t, u) /\ AsksWell(t, u)

LEMMA MildAgrees ==
  ASSUME NEW s, NEW r, NEW box, NEW lost, Mild(s, r), NoticesAgree(s, box, lost),
         Tracked(s, box, lost)
  PROVE  NoticesAgree(r, box, lost) /\ Tracked(r, box, lost)
BY DEF Mild, NoticesAgree, Tracked

LEMMA GoodSelf == ASSUME NEW t, Fit(t) PROVE Good(t, t)
<1>1. NoticesAgree(t.doc, t.inbox, t.missed) /\ Tracked(t.doc, t.inbox, t.missed)
  BY MildAgrees DEF Fit
<1>2. \A n \in Notices :
        InTouch(n, t.missed) /\ t.saved.offered = n => t.inbox[n] = "queued"
  BY DEF Fit, NoticesAgree
<1> QED BY <1>1, <1>2 DEF Fit, Good, Done, Keeps, AsksWell

LEMMA DoneCalm == ASSUME NEW t, NEW u, NEW v, Done(t, u), Calm(u, v) PROVE Done(t, v)
<1>1. NoticesAgree(v.doc, v.inbox, v.missed) /\ Tracked(v.doc, v.inbox, v.missed)
  BY MildAgrees DEF Done, Keeps, Calm
<1>2. \A e \in v.effects : Caused(t, e)
  BY DEF Done, Keeps, Calm, Caused, Noted
<1> QED BY <1>1, <1>2 DEF Done, Keeps, Calm

LEMMA GoodCalm == ASSUME NEW t, NEW u, NEW v, Good(t, u), Calm(u, v) PROVE Good(t, v)
BY DoneCalm DEF Good, AsksWell, Calm

LEMMA GoodSays ==
  ASSUME NEW t, NEW u, NEW k, NEW about, Done(t, u), k # "follow"
  PROVE  Good(t, Says(u, k, about))
<1>1. Calm(u, Says(u, k, about))
  BY CalmSays, CalmSelf DEF Done, Keeps
<1>2. Says(u, k, about).asked.kind = k
  BY DEF Says, Done, Keeps, IsTurn
<1> QED BY <1>1, <1>2, DoneCalm DEF Good, AsksWell

LEMMA GoodIdle ==
  ASSUME NEW t, NEW u, Done(t, u) PROVE Good(t, Idle(u)) /\ Good(t, Closes(u))
BY GoodSays DEF Idle, Closes

\* What the session knows of following is no concern of notices.
LEMMA DoneSession ==
  ASSUME NEW t, NEW u, NEW n, Done(t, u), DOMAIN n = {"known", "said"}
  PROVE  Done(t, [u EXCEPT !.session = n])
<1> DEFINE v == [u EXCEPT !.session = n]
<1>1. /\ DOMAIN v = DOMAIN u /\ v.session = n /\ v.doc = u.doc /\ v.inbox = u.inbox
      /\ v.effects = u.effects /\ v.world = u.world /\ v.missed = u.missed
  BY DEF Done, Keeps, IsTurn
<1> HIDE DEF v
<1>2. Done(t, v)
  BY <1>1 DEF Done, Keeps, IsTurn
<1> QED BY <1>2 DEF v

-----------------------------------------------------------------------------
(* The status of a notice is updated, or the update is lost. *)

\* Of a turn u and of v, in which the status of n was updated.
Took(u, v, n, status) ==
  /\ IsTurn(v)
  /\ v.session = u.session /\ v.asked = u.asked /\ v.effects = u.effects /\ v.world = u.world
  /\ u.missed \subseteq v.missed
  /\ \A m \in Notices \ {n} :
       /\ v.inbox[m] = u.inbox[m]
       /\ InTouch(m, u.missed) => InTouch(m, v.missed)
       /\ Trackable(m, u.missed) => Trackable(m, v.missed)
  /\ InTouch(n, u.missed) /\ status # "queued" => InTouch(n, v.missed)
  /\ Trackable(n, u.missed) /\ u.inbox[n] # "queued" => Trackable(n, v.missed)
  /\ \/ v.inbox[n] = status
     \/ v.inbox[n] = u.inbox[n] /\ status = "queued" /\ ~InTouch(n, v.missed)
     \/ v.inbox[n] = u.inbox[n] /\ status # "queued" /\ u.inbox[n] = "queued"
          /\ ~Trackable(n, v.missed)
     \/ v.inbox[n] = u.inbox[n] /\ status # "queued" /\ u.inbox[n] # "queued"

LEMMA UpdateTakes ==
  ASSUME NEW u, NEW n \in Notices, NEW status, IsTurn(u)
  PROVE  /\ Took(u, UpdateStatus(u, n, status), n, status)
         /\ UpdateStatus(u, n, status).doc = u.doc
<1> DEFINE v == UpdateStatus(u, n, status)
           set == [u EXCEPT !.inbox[n] = status]
           ends == [u EXCEPT !.missed = u.missed \union {<<n, "outcome">>}]
           starts == [u EXCEPT !.missed = u.missed \union {<<n, "accepted">>}]
<1>1. /\ status \notin u.world.lost => v = set
      /\ status \in u.world.lost /\ status = "queued" => v = starts
      /\ status \in u.world.lost /\ status # "queued" =>
           v = IF u.inbox[n] = "queued" THEN ends ELSE u
  BY DEF UpdateStatus
<1>2. /\ DOMAIN set = DOMAIN u /\ set.inbox = [u.inbox EXCEPT ![n] = status]
      /\ set.missed = u.missed /\ set.doc = u.doc
      /\ set.session = u.session /\ set.asked = u.asked /\ set.effects = u.effects
      /\ set.world = u.world
  BY DEF IsTurn
<1>3. \A w \in {ends, starts} :
        /\ DOMAIN w = DOMAIN u /\ w.inbox = u.inbox /\ w.doc = u.doc
        /\ w.session = u.session /\ w.asked = u.asked /\ w.effects = u.effects
        /\ w.world = u.world
  BY DEF IsTurn
<1>4. /\ ends.missed = u.missed \union {<<n, "outcome">>}
      /\ starts.missed = u.missed \union {<<n, "accepted">>}
  BY DEF IsTurn
<1> HIDE DEF set, ends, starts
<1>5. IsTurn(set) /\ IsTurn(ends) /\ IsTurn(starts)
  BY <1>2, <1>3 DEF IsTurn
<1>6. set.inbox[n] = status /\ \A m \in Notices \ {n} : set.inbox[m] = u.inbox[m]
  BY <1>2 DEF IsTurn
<1>7. Took(u, set, n, status)
  BY <1>2, <1>5, <1>6 DEF Took
<1>8. status # "queued" /\ u.inbox[n] = "queued" => Took(u, ends, n, status)
  <2>1. \A m \in Notices : InTouch(m, u.missed) => InTouch(m, ends.missed)
    BY <1>4 DEF InTouch
  <2>2. /\ \A m \in Notices \ {n} : Trackable(m, u.missed) => Trackable(m, ends.missed)
        /\ ~Trackable(n, ends.missed)
    BY <1>4 DEF Trackable
  <2> QED BY <1>3, <1>4, <1>5, <2>1, <2>2 DEF Took
<1>9. status = "queued" => Took(u, starts, n, status)
  <2>1. \A m \in Notices : Trackable(m, u.missed) => Trackable(m, starts.missed)
    BY <1>4 DEF Trackable
  <2>2. /\ \A m \in Notices \ {n} : InTouch(m, u.missed) => InTouch(m, starts.missed)
        /\ ~InTouch(n, starts.missed)
    BY <1>4 DEF InTouch
  <2> QED BY <1>3, <1>4, <1>5, <2>1, <2>2 DEF Took
<1>10. status # "queued" /\ u.inbox[n] # "queued" => Took(u, u, n, status)
  BY DEF Took
<1> HIDE DEF v
<1>11. Took(u, v, n, status) /\ v.doc = u.doc
  BY <1>1, <1>2, <1>3, <1>7, <1>8, <1>9, <1>10
<1> QED BY <1>11 DEF v

\* A change of the inbox at one notice, and of the document.
Noting(t, n, status, s) == [UpdateStatus(t, n, status) EXCEPT !.doc = s]

LEMMA NoticeChanged ==
  ASSUME NEW u, NEW n \in Notices, NEW status, NEW s, IsTurn(u), Shaped(s)
  PROVE  Took(u, Noting(u, n, status, s), n, status) /\ Noting(u, n, status, s).doc = s
<1> DEFINE v == UpdateStatus(u, n, status)
           w == [v EXCEPT !.doc = s]
<1>1. Took(u, v, n, status) /\ IsTurn(v)
  BY UpdateTakes DEF Took
<1> HIDE DEF v
<1>2. /\ DOMAIN w = DOMAIN v /\ w.doc = s /\ w.inbox = v.inbox /\ w.missed = v.missed
      /\ w.session = v.session /\ w.asked = v.asked /\ w.effects = v.effects
      /\ w.world = v.world
  BY <1>1 DEF IsTurn
<1> HIDE DEF w
<1>3. IsTurn(w)
  BY <1>1, <1>2 DEF IsTurn
<1>4. Took(u, w, n, status)
  BY <1>1, <1>2, <1>3 DEF Took
<1> QED BY <1>2, <1>4 DEF Noting, v, w

LEMMA InTouchBefore ==
  ASSUME NEW a, NEW b, a \subseteq b, NEW n
  PROVE  (InTouch(n, b) => InTouch(n, a)) /\ (Trackable(n, b) => Trackable(n, a))
BY DEF InTouch, Trackable

\* A notice is offered while it is open.
LEMMA GoodOffer ==
  ASSUME NEW t, NEW u, NEW v, NEW explicit, Done(t, u), Good(t, v)
  PROVE  Good(t, Offer(u, explicit, v))
<1> DEFINE n == u.world.notice
           c == About(n, NoItem)
           s == Activate(Hold(u.doc, "notification", c), "notification", c)
           w == Noting(u, n, "offered", s)
<1> SUFFICES ASSUME Listed(u) PROVE Good(t, Says(w, "notification", n))
  <2>1. IsTurn(u)
    BY DEF Done, Keeps
  <2>2. Listed(u) => n \in Notices
    BY <2>1 DEF Listed, IsTurn
  <2>3. Listed(u) => UpdateStatus(u, n, "offered").doc = u.doc
    BY <2>1, <2>2, UpdateTakes
  <2> QED BY <2>3 DEF Offer, Noting
<1>1. n \in Notices /\ u.inbox[n] \in Open /\ IsTurn(u)
  BY DEF Listed, Done, Keeps, IsTurn, Open
<1>2. c.about = n
  BY DEF About
<1>3. /\ Shaped(s) /\ s.offered = u.doc.offered
      /\ s.active.type = "notification" /\ s.active.context = c
      /\ s.pending["notification"] = c
  BY <1>1 DEF Activate, Hold, Fresh, Shaped, Held, IsTurn
<1> HIDE DEF c, s, n
<1>4. Took(u, w, n, "offered") /\ w.doc = s
  BY <1>1, <1>3, NoticeChanged
<1> HIDE DEF w
<1>5. /\ IsTurn(w) /\ w.inbox[n] \in Open
      /\ \A m \in Notices : m # n => w.inbox[m] = u.inbox[m]
      /\ \A m \in Notices : InTouch(m, w.missed) => InTouch(m, u.missed)
      /\ u.missed \subseteq w.missed /\ w.effects = u.effects
  BY <1>1, <1>4, InTouchBefore DEF Took, Open
<1>6. NoticesAgree(w.doc, w.inbox, w.missed)
  <2>1. NoticesAgree(u.doc, u.inbox, u.missed)
    BY DEF Done, Keeps
  <2>2. NoticeContexts(w.doc) \subseteq {c}
    BY <1>3, <1>4 DEF NoticeContexts
  <2>3. ASSUME NEW m \in Notices, InTouch(m, w.missed), w.doc.offered = m
        PROVE  m # n /\ w.inbox[m] = "queued"
    BY <1>1, <1>3, <1>4, <1>5, <2>1, <2>3 DEF NoticesAgree, Open
  <2>4. w.inbox[n] \notin TerminalStatuses
    BY <1>5 DEF Open, TerminalStatuses
  <2>5. w.doc.offered # NoNotice => w.doc.offered \in Notices
    BY <1>3, <1>4, <2>1 DEF NoticesAgree
  <2> QED BY <1>1, <1>2, <2>2, <2>3, <2>4, <2>5 DEF NoticesAgree
<1>7. Tracked(w.doc, w.inbox, w.missed)
  BY <1>1, <1>5 DEF Tracked, OneNotice, Open
<1>8. ASSUME NEW m \in Notices, InTouch(m, t.missed)
      PROVE  /\ t.inbox[m] \in TerminalStatuses => w.inbox[m] = t.inbox[m]
             /\ t.saved.offered = m => w.inbox[m] = "queued"
  BY <1>1, <1>5, <1>8 DEF Done, Keeps, Open, TerminalStatuses
<1>9. \A m \in Notices : w.inbox[m] = "consumed" => t.inbox[m] = "consumed"
  BY <1>1, <1>5 DEF Done, Open
<1>10. t.missed \subseteq w.missed
  BY <1>5 DEF Done, Keeps
<1>11. Done(t, w)
  BY <1>5, <1>6, <1>7, <1>8, <1>9, <1>10 DEF Done, Keeps
<1> QED BY <1>11, GoodSays

LEMMA GoodFollowUp ==
  ASSUME NEW t, NEW u, Done(t, u) PROVE Good(t, FollowUp(u))
BY GoodIdle, GoodOffer DEF FollowUp

LEMMA GoodContinuation ==
  ASSUME NEW t, NEW u, NEW v, Done(t, u), Good(t, v) PROVE Good(t, Continuation(u, v))
<1> DEFINE k == "feedback_continuation"
           c == About(NextOf(u.doc.playing.item), u.doc.playing.item)
           s == Activate(Hold(u.doc, k, c), k, c)
<1>1. Calm(u, u) /\ Shaped(u.doc)
  BY CalmSelf DEF Done, Keeps, IsTurn
<1>2. Mild(u.doc, s)
  BY <1>1, MildOps, MildTrans, MildShaped
<1>3. Done(t, [u EXCEPT !.doc = s])
  BY <1>1, <1>2, CalmDoc, DoneCalm
<1>4. Good(t, Says([u EXCEPT !.doc = s], k, NextOf(u.doc.playing.item)))
  BY <1>3, GoodSays
<1> QED BY <1>4 DEF Continuation

\* The notice that the listener is asked about is not settled, nor tracked.
LEMMA AskedIsOpen ==
  ASSUME NEW t, Fit(t), t.doc.pending["notification"] # NoContext
  PROVE  LET n == t.doc.pending["notification"].about
         IN  /\ n \in Notices
             /\ InTouch(n, t.missed) => t.inbox[n] \notin TerminalStatuses /\ t.saved.offered # n
<1>1. t.doc.pending["notification"] \in NoticeContexts(t.saved)
  BY DEF Fit, Mild, NoticeContexts
<1> QED BY <1>1 DEF Fit, NoticesAgree

\* Of what becomes of a notice that the listener was asked about, when nothing is
\* said of it in the document any more.
LEMMA NoticeLeft ==
  ASSUME NEW t, NEW n \in Notices, NEW u, Fit(t), IsTurn(u), u.effects = t.effects,
         InTouch(n, t.missed) => t.inbox[n] \notin TerminalStatuses /\ t.saved.offered # n,
         Mild(t.doc, u.doc), NoticeContexts(u.doc) = {}, t.missed \subseteq u.missed,
         u.inbox[n] = "queued" => ~Trackable(n, u.missed),
         u.inbox[n] = "consumed" => t.inbox[n] = "consumed",
         \A m \in Notices : m # n => u.inbox[m] = t.inbox[m]
  PROVE  Done(t, u)
<1>1. Good(t, t) /\ u.doc.offered = t.saved.offered
  BY GoodSelf DEF Fit, Mild
<1>2. \A m \in Notices : InTouch(m, u.missed) => InTouch(m, t.missed)
  BY InTouchBefore
<1>3. NoticesAgree(u.doc, u.inbox, u.missed)
  BY <1>1, <1>2 DEF NoticesAgree, Fit
<1>4. Tracked(u.doc, u.inbox, u.missed)
  BY DEF Tracked, OneNotice
<1>5. \A m \in Notices :
        InTouch(m, t.missed) =>
          /\ t.inbox[m] \in TerminalStatuses => u.inbox[m] = t.inbox[m]
          /\ t.saved.offered = m => u.inbox[m] = "queued"
  BY <1>1 DEF Good, Done
<1>6. \A m \in Notices : u.inbox[m] = "consumed" => t.inbox[m] = "consumed"
  OBVIOUS
<1> QED BY <1>3, <1>4, <1>5, <1>6 DEF Done, Keeps, Fit

LEMMA GoodDecline == ASSUME NEW t, Fit(t) PROVE Good(t, Decline(t))
<1> DEFINE c == t.doc.pending["notification"]
           n == c.about
           s == ClearNotification(t.doc)
           done == [t EXCEPT !.doc = s]
           settled == UpdateStatus(done, n, "dismissed")
<1>1. IsTurn(t) /\ Shaped(t.doc) /\ Calm(t, t) /\ Done(t, t)
  BY GoodSelf, CalmSelf DEF Fit, IsTurn, Good
<1>2. Mild(t.doc, s) /\ NoticeContexts(s) = {}
  BY <1>1, NotificationCleared
<1> HIDE DEF s
<1>3. /\ Calm(t, done) /\ done.doc = s /\ done.inbox = t.inbox
      /\ done.missed = t.missed /\ done.effects = t.effects
  BY <1>1, <1>2, CalmDoc DEF IsTurn
<1> HIDE DEF done
<1>4. Good(t, Idle(done))
  BY <1>1, <1>3, DoneCalm, GoodIdle
<1>5. ASSUME c # NoContext PROVE Good(t, Idle(Does(settled, "dismiss", n)))
  <2>1. /\ n \in Notices
        /\ InTouch(n, t.missed) => t.inbox[n] \notin TerminalStatuses /\ t.saved.offered # n
    BY <1>5, AskedIsOpen
  <2> HIDE DEF n
  <2>2. Took(done, settled, n, "dismissed") /\ settled.doc = s /\ IsTurn(settled)
    BY <1>3, <2>1, UpdateTakes DEF Calm, Took
  <2> HIDE DEF settled
  <2>3. \A e \in done.effects : e[1] \notin Noted
    BY <1>3 DEF Calm, Fit
  <2>4. Done(t, settled)
    BY <1>2, <1>3, <2>1, <2>2, NoticeLeft DEF Took, Calm
  <2>5. Calm(settled, Does(settled, "dismiss", n))
    BY <2>2, CalmSelf, CalmDoes DEF Noted
  <2> QED BY <2>4, <2>5, DoneCalm, GoodIdle
<1> HIDE DEF settled
<1>6. Decline(t) \in {Idle(done), Idle(Does(settled, "dismiss", n))}
      /\ (c = NoContext => Decline(t) = Idle(done))
  BY DEF Decline, done, s, settled
<1> QED BY <1>4, <1>5, <1>6

LEMMA GoodAccept == ASSUME NEW t, Fit(t) PROVE Good(t, Accept(t))
<1> DEFINE c == t.doc.pending["notification"]
           n == c.about
           s == ClearNotification(t.doc)
           cleared == Noting(t, n, "resolving", s)
           q == [s EXCEPT !.offered = n]
           queued == Noting(cleared, n, "queued", q)
           failed == UpdateStatus(cleared, n, "pending")
           gone == UpdateStatus(cleared, n, "unavailable")
           broken == Noting(queued, n, "pending", t.saved)
<1>1. IsTurn(t) /\ Shaped(t.doc) /\ Shaped(t.saved) /\ Done(t, t)
  BY GoodSelf DEF Fit, IsTurn, Good
<1>2. Mild(t.doc, s) /\ NoticeContexts(s) = {} /\ Shaped(s)
  BY <1>1, NotificationCleared, MildShaped
<1>3. CASE c = NoContext
  BY <1>1, <1>3, GoodIdle DEF Accept
<1>4. CASE c # NoContext
  <2>1. /\ n \in Notices
        /\ InTouch(n, t.missed) => t.inbox[n] \notin TerminalStatuses /\ t.saved.offered # n
        /\ c \in NoticeContexts(t.saved)
    BY <1>4, AskedIsOpen DEF Fit, Mild, NoticeContexts
  <2>2. Accept(t) \in {Does(Start(queued, NoticeItem[n]), "accept", n), Idle(failed),
                       Idle(gone), Idle(broken)}
    <3>1. cleared = [UpdateStatus(t, n, "resolving") EXCEPT !.doc = ClearNotification(t.doc)]
      BY DEF Noting
    <3>2. UpdateStatus(t, n, "resolving").doc = t.doc
      BY <1>1, <2>1, UpdateTakes
    <3>3. Took(t, cleared, n, "resolving") /\ cleared.doc = s /\ IsTurn(cleared)
      <4> HIDE DEF s, n
      <4> QED BY <1>1, <1>2, <2>1, NoticeChanged DEF Took
    <3>4. UpdateStatus(cleared, n, "queued").doc = s
      <4> HIDE DEF cleared, s, n
      <4> QED BY <2>1, <3>3, UpdateTakes
    <3>5. queued = [UpdateStatus(cleared, n, "queued") EXCEPT !.doc.offered = n]
      <4> HIDE DEF cleared, s, n
      <4> QED BY <3>4 DEF Noting
    <3> QED BY <1>4, <3>1, <3>2, <3>5 DEF Accept, Noting
  <2>3. Shaped(q) /\ q.offered = n /\ NoticeContexts(q) = {}
    BY <1>2 DEF Shaped, NoticeContexts
  <2> HIDE DEF s, n, q, c
  <2>4. Took(t, cleared, n, "resolving") /\ cleared.doc = s /\ IsTurn(cleared)
    BY <1>1, <1>2, <2>1, NoticeChanged DEF Took
  <2> HIDE DEF cleared
  <2>5. Took(cleared, queued, n, "queued") /\ queued.doc = q /\ IsTurn(queued)
    BY <2>1, <2>3, <2>4, NoticeChanged DEF Took
  <2>6. /\ Took(cleared, failed, n, "pending") /\ failed.doc = s /\ IsTurn(failed)
        /\ Took(cleared, gone, n, "unavailable") /\ gone.doc = s /\ IsTurn(gone)
    BY <2>1, <2>4, UpdateTakes DEF Took
  <2> HIDE DEF queued, failed, gone
  <2>7. Took(queued, broken, n, "pending") /\ broken.doc = t.saved /\ IsTurn(broken)
    BY <1>1, <2>1, <2>5, NoticeChanged DEF Took
  <2> HIDE DEF broken
  <2>8. Done(t, failed) /\ Done(t, gone)
    <3>1. ASSUME NEW u, NEW status \in {"pending", "unavailable"},
                 Took(cleared, u, n, status), u.doc = s, IsTurn(u)
          PROVE  Done(t, u)
      <4>1. /\ t.missed \subseteq u.missed /\ u.effects = t.effects
            /\ \A m \in Notices : m # n => u.inbox[m] = t.inbox[m]
        BY <2>1, <2>4, <3>1 DEF Took
      <4>2. u.inbox[n] = "queued" => ~Trackable(n, u.missed)
        BY <2>4, <3>1, InTouchBefore DEF Took
      <4>3. u.inbox[n] = "consumed" => t.inbox[n] = "consumed"
        BY <2>4, <3>1 DEF Took
      <4> QED BY <1>2, <2>1, <3>1, <4>1, <4>2, <4>3, NoticeLeft
    <3> QED BY <2>6, <3>1
  <2>9. Done(t, queued)
    <3>1. /\ t.missed \subseteq queued.missed /\ queued.effects = t.effects
          /\ \A m \in Notices : m # n => queued.inbox[m] = t.inbox[m]
      BY <2>1, <2>4, <2>5 DEF Took
    <3>2. InTouch(n, queued.missed) => queued.inbox[n] = "queued"
      BY <2>5 DEF Took
    <3>3. queued.inbox[n] = "consumed" => t.inbox[n] = "consumed"
      BY <2>4, <2>5 DEF Took
    <3>4. NoticesAgree(queued.doc, queued.inbox, queued.missed)
      BY <2>1, <2>3, <2>5, <3>2 DEF NoticesAgree
    <3>5. Tracked(queued.doc, queued.inbox, queued.missed)
      BY <2>1, <2>3, <2>5 DEF Tracked, OneNotice
    <3>6. \A m \in Notices :
            InTouch(m, t.missed) =>
              /\ t.inbox[m] \in TerminalStatuses => queued.inbox[m] = t.inbox[m]
              /\ t.saved.offered = m => queued.inbox[m] = "queued"
      BY <1>1, <2>1, <3>1 DEF Done
    <3>7. \A m \in Notices : queued.inbox[m] = "consumed" => t.inbox[m] = "consumed"
      BY <3>1, <3>3
    <3> QED BY <2>5, <3>1, <3>4, <3>5, <3>6, <3>7 DEF Done, Keeps, Fit
  <2>10. Done(t, broken)
    <3>1. /\ t.missed \subseteq broken.missed /\ broken.effects = t.effects
          /\ \A m \in Notices : m # n => broken.inbox[m] = t.inbox[m]
      BY <2>1, <2>4, <2>5, <2>7 DEF Took
    <3>2. broken.inbox[n] = "queued" => ~Trackable(n, broken.missed)
      BY <2>4, <2>5, <2>7, InTouchBefore DEF Took
    <3>3. InTouch(n, broken.missed) => broken.inbox[n] \notin TerminalStatuses
      <4>1. InTouch(n, broken.missed) => queued.inbox[n] = "queued"
        BY <2>5, <2>7, InTouchBefore DEF Took
      <4> QED BY <2>7, <4>1 DEF Took, TerminalStatuses
    <3>4. broken.inbox[n] = "consumed" => t.inbox[n] = "consumed"
      BY <2>4, <2>5, <2>7 DEF Took
    <3>5. \A m \in Notices : InTouch(m, broken.missed) => InTouch(m, t.missed)
      BY <3>1, InTouchBefore
    <3>6. NoticesAgree(broken.doc, broken.inbox, broken.missed)
      BY <2>1, <2>7, <3>1, <3>3, <3>5 DEF NoticesAgree, Fit
    <3>7. Tracked(broken.doc, broken.inbox, broken.missed)
      BY <2>1, <3>2 DEF Tracked, OneNotice
    <3>8. \A m \in Notices :
            InTouch(m, t.missed) =>
              /\ t.inbox[m] \in TerminalStatuses => broken.inbox[m] = t.inbox[m]
              /\ t.saved.offered = m => broken.inbox[m] = "queued"
      BY <1>1, <2>1, <3>1 DEF Done
    <3>9. \A m \in Notices : broken.inbox[m] = "consumed" => t.inbox[m] = "consumed"
      BY <3>1, <3>4
    <3> QED BY <2>7, <3>1, <3>6, <3>7, <3>8, <3>9 DEF Done, Keeps, Fit
  <2>11. Good(t, Does(Start(queued, NoticeItem[n]), "accept", n))
    <3> DEFINE i == NoticeItem[n]
               started == [queued EXCEPT !.doc = StartSession(queued.doc, i)]
               plays == Does(started, "play", i)
    <3> HIDE DEF i
    <3>1. Calm(queued, queued) /\ Shaped(queued.doc)
      BY <2>5, CalmSelf DEF IsTurn
    <3>2. Calm(queued, started)
      BY <3>1, MildSession, CalmDoc
    <3> HIDE DEF started
    <3>3. Calm(queued, plays)
      BY <3>2, CalmDoes DEF Noted
    <3>4. Good(t, Closes(plays))
      BY <2>9, <3>3, DoneCalm, GoodIdle
    <3>5. Calm(Closes(plays), Does(Closes(plays), "accept", n))
      BY <3>4, CalmSelf, CalmDoes DEF Good, Done, Keeps, Noted
    <3>6. Start(queued, i) = Closes(plays)
      BY DEF Start, plays, started
    <3> QED BY <3>4, <3>5, <3>6, GoodCalm DEF i
  <2> QED BY <2>2, <2>8, <2>10, <2>11, GoodIdle
<1> QED BY <1>3, <1>4

-----------------------------------------------------------------------------
(* Answers after which a notice may be offered, or the creator followed. *)

\* What a handler of a calm turn offers when nothing else is to be said.
LEMMA GoodAfter ==
  ASSUME NEW t, NEW u, Fit(t), Calm(t, u)
  PROVE  Good(t, u) /\ Done(t, u) /\ Good(t, Idle(u)) /\ Good(t, FollowUp(u))
BY GoodSelf, GoodCalm, GoodIdle, GoodFollowUp DEF Good

LEMMA KnownSessions ==
  ASSUME NEW n, NEW answer, NEW standing, DOMAIN n = {"known", "said"}
  PROVE  /\ DOMAIN Record(n, standing) = {"known", "said"}
         /\ DOMAIN Checked(n, answer) = {"known", "said"}
         /\ DOMAIN SyncForLaunch(n, answer) = {"known", "said"}
         /\ DOMAIN Hydrate(n, answer) = {"known", "said"}
         /\ Hydrate(n, answer).said = n.said /\ SyncForLaunch(n, answer).said = n.said
         /\ ~AlreadyFollowing(n, answer) => n.said # "has"
BY DEF Record, Checked, SyncForLaunch, Hydrate, ReplaceSnapshot, AlreadyFollowing, Status,
       Applied

\* FollowCheck, and the question that it leads to.
LEMMA GoodFollowCheck ==
  ASSUME NEW t, NEW u, Fit(t), Calm(t, u)
  PROVE  /\ Done(t, CheckFollow(u)) /\ Good(t, FollowUp(CheckFollow(u)))
         /\ ~Following(u) => Good(t, AskFollow(u))
<1>1. Done(t, u) /\ DOMAIN u.session = {"known", "said"} /\ u.session = t.session
  BY GoodAfter DEF Calm, IsTurn
<1>2. Done(t, CheckFollow(u))
  BY <1>1, KnownSessions, DoneSession DEF CheckFollow
<1>3. ASSUME ~Following(u) PROVE Good(t, AskFollow(u))
  <2> DEFINE a == [u EXCEPT !.doc.follow = TRUE]
             v == Says(a, "follow", a.doc.playing.item)
  <2>1. Calm(t, a)
    BY CalmIsTurn, CalmBeside DEF Shaped
  <2>2. Done(t, a) /\ IsTurn(a) /\ a.session = t.session
    BY <2>1, GoodAfter DEF Calm
  <2>3. AskFollow(u) = Says(a, "follow", u.doc.playing.item)
    BY DEF AskFollow, Says
  <2> HIDE DEF a
  <2>4. ASSUME NEW x PROVE Good(t, Says(a, "follow", x))
    <3> DEFINE w == Says(a, "follow", x)
    <3>1. /\ DOMAIN w = DOMAIN a /\ w.doc = a.doc /\ w.inbox = a.inbox
          /\ w.session = a.session /\ w.world = a.world /\ w.effects = a.effects
          /\ w.missed = a.missed
      BY <2>2 DEF Says, IsTurn
    <3> HIDE DEF w
    <3>2. Done(t, w)
      BY <2>2, <3>1 DEF Done, Keeps, IsTurn
    <3>3. t.session.said # "has"
      BY <1>1, <1>3, KnownSessions DEF Following
    <3>4. Good(t, w)
      BY <2>2, <3>1, <3>2, <3>3 DEF Good, AsksWell
    <3> QED BY <3>4 DEF w
  <2> QED BY <2>3, <2>4
<1> QED BY <1>2, <1>3, GoodFollowUp

LEMMA CalmRated ==
  ASSUME NEW t, NEW value, Fit(t), value \notin Noted
  PROVE  Calm(t, [Submit(t, value) EXCEPT !.doc = ClearFeedback(Submit(t, value).doc)])
<1>1. Calm(t, Submit(t, value))
  BY CalmSelf, CalmSubmit DEF Fit
<1> QED BY <1>1, CalmClearFeedback

LEMMA GoodEnjoyed ==
  ASSUME NEW t, Fit(t) PROVE Good(t, Enjoyed(t)) /\ Good(t, Somewhat(t))
<1>1. ASSUME NEW u, Calm(t, u) PROVE Good(t, Restart(u))
  BY <1>1, CalmRestart, GoodAfter
<1>2. Good(t, Idle(t))
  BY GoodSelf, GoodIdle DEF Good
<1>3. Good(t, Enjoyed(t))
  <2> DEFINE rated == Submit(t, "enjoyed")
             u == [rated EXCEPT !.doc = ClearFeedback(rated.doc)]
             otherwise == IF Following(u) THEN FollowUp(CheckFollow(u)) ELSE AskFollow(u)
  <2>1. Calm(t, u)
    BY CalmRated DEF Noted
  <2>2. Enjoyed(t) \in {Idle(t), Restart(u), Continuation(u, otherwise)}
    BY DEF Enjoyed, u, rated
  <2> HIDE DEF u, rated
  <2>3. Good(t, otherwise)
    BY <2>1, GoodFollowCheck
  <2>4. Good(t, Continuation(u, otherwise))
    BY <2>1, <2>3, GoodAfter, GoodContinuation
  <2> QED BY <1>1, <1>2, <2>1, <2>2, <2>4
<1>4. Good(t, Somewhat(t))
  <2> DEFINE rated == Submit(t, "somewhat")
             u == [rated EXCEPT !.doc = ClearFeedback(rated.doc)]
  <2>1. Calm(t, u)
    BY CalmRated DEF Noted
  <2>2. Somewhat(t) \in {Idle(t), Restart(u), Continuation(u, FollowUp(u))}
    BY DEF Somewhat, u, rated
  <2> HIDE DEF u, rated
  <2>3. Good(t, Continuation(u, FollowUp(u)))
    BY <2>1, GoodAfter, GoodContinuation
  <2> QED BY <1>1, <1>2, <2>1, <2>2, <2>3
<1> QED BY <1>3, <1>4

LEMMA GoodSkip == ASSUME NEW t, NEW transport, Fit(t) PROVE Good(t, Skip(t, transport))
<1> DEFINE cleared == [t EXCEPT !.doc = ClearFeedback(t.doc)]
           rated == Submit(t, "skipped")
           skipped == [rated EXCEPT !.doc = ClearFeedback(rated.doc)]
           dismissed == [t EXCEPT !.doc = DismissAmbiguity(t.doc)]
<1>1. Calm(t, t)
  BY CalmSelf DEF Fit
<1>2. Calm(t, cleared) /\ Calm(t, skipped) /\ Calm(t, dismissed)
  BY <1>1, CalmRated, CalmClearFeedback, CalmIsTurn, MildEnds, CalmDoc DEF Noted
<1>3. Skip(t, transport) \in
        {Idle(dismissed), ContinueQueue(t), Restart(cleared),
         Continuation(cleared, FollowUp(cleared)), Idle(t), Restart(skipped),
         PlayNext(skipped), Continuation(skipped, FollowUp(skipped))}
  BY DEF Skip, cleared, skipped, rated, dismissed
<1> HIDE DEF cleared, skipped, dismissed
<1>4. \A u : Calm(t, u) => Good(t, Restart(u)) /\ Good(t, PlayNext(u))
                            /\ Good(t, ContinueQueue(u)) /\ Good(t, Idle(u))
                            /\ Good(t, Continuation(u, FollowUp(u)))
  <2>1. ASSUME NEW u, Calm(t, u)
        PROVE  Good(t, Restart(u)) /\ Good(t, PlayNext(u)) /\ Good(t, ContinueQueue(u))
    BY <2>1, CalmRestart, CalmPlayNext, CalmContinueQueue, GoodAfter
  <2> QED BY <2>1, GoodAfter, GoodContinuation
<1> QED BY <1>1, <1>2, <1>3, <1>4

LEMMA GoodDeclineContinuation ==
  ASSUME NEW t, Fit(t) PROVE Good(t, DeclineContinuation(t))
<1> DEFINE k == "feedback_continuation"
           s == Clear(Lower(Release(t.doc, k), k), {k})
<1>1. Calm(t, [t EXCEPT !.doc = s])
  BY CalmSelf, CalmIsTurn, MildClosed, CalmDoc DEF Fit
<1> QED BY <1>1, GoodAfter DEF DeclineContinuation

\* A listener who follows the source is not made to follow it again.
LEMMA GoodFollow == ASSUME NEW t, Fit(t) PROVE Good(t, Follow(t)) /\ Good(t, Unfollow(t))
<1>1. Calm(t, t) /\ Done(t, t) /\ IsTurn(t) /\ Good(t, Idle(t)) /\ Good(t, Closes(t))
  BY CalmSelf, GoodAfter, GoodIdle DEF Fit
<1>2. ASSUME NEW standing, NEW what, NEW x, Caused(t, <<what, x>>)
      PROVE  Done(t, Does([t EXCEPT !.session = Record(t.session, standing)], what, x))
  <2> DEFINE a == [t EXCEPT !.session = Record(t.session, standing)]
             u == Does(a, what, x)
  <2>1. Done(t, a)
    BY <1>1, KnownSessions, DoneSession DEF IsTurn
  <2> HIDE DEF a
  <2>2. /\ DOMAIN u = DOMAIN a /\ u.doc = a.doc /\ u.inbox = a.inbox
        /\ u.session = a.session /\ u.world = a.world /\ u.missed = a.missed
        /\ u.effects = a.effects \union {<<what, x>>}
    BY <2>1 DEF Does, Done, Keeps, IsTurn
  <2> HIDE DEF u
  <2>3. Done(t, u)
    BY <1>2, <2>1, <2>2 DEF Done, Keeps, IsTurn
  <2> QED BY <2>3 DEF u, a
<1>3. Good(t, Follow(t))
  <2> DEFINE i == t.doc.playing.item
             sent == Does([t EXCEPT !.session = Record(t.session, "has")], "follow", i)
             done == IF Following(t) THEN CheckFollow(t) ELSE sent
             u == [done EXCEPT !.doc = ClearFeedback(done.doc)]
  <2>1. ~Following(t) => Done(t, sent)
    <3>1. ~Following(t) => t.session.said # "has"
      BY <1>1, KnownSessions DEF IsTurn, Following
    <3>2. t.session.said # "has" => Caused(t, <<"follow", i>>)
      BY DEF Caused
    <3> QED BY <1>2, <3>1, <3>2
  <2> HIDE DEF sent
  <2>2. Done(t, done)
    BY <1>1, <2>1, GoodFollowCheck
  <2> HIDE DEF done
  <2>3. Calm(done, u)
    BY <2>2, CalmSelf, CalmClearFeedback DEF Done, Keeps
  <2>4. Good(t, FollowUp(u)) /\ Good(t, Idle(done))
    BY <2>2, <2>3, DoneCalm, GoodFollowUp, GoodIdle
  <2>5. Follow(t) \in {Idle(t), FollowUp(u), Idle(done)}
    BY DEF Follow, u, done, sent
  <2> QED BY <1>1, <2>4, <2>5
<1>4. Good(t, Unfollow(t))
  <2> DEFINE sent == Does([t EXCEPT !.session = Record(t.session, "lacks")], "unfollow",
                          t.doc.playing.item)
  <2>1. Status(t.session) # "lacks" => Done(t, sent)
    <3>1. Status(t.session) # "lacks" => t.session.said # "lacks"
      BY DEF Status, Applied
    <3>2. t.session.said # "lacks" => Caused(t, <<"unfollow", t.doc.playing.item>>)
      BY DEF Caused
    <3> QED BY <1>2, <3>1, <3>2
  <2> HIDE DEF sent
  <2>2. Status(t.session) # "lacks" => Good(t, Idle(sent))
    BY <2>1, GoodIdle
  <2>3. \/ Unfollow(t) = Closes(t)
        \/ Status(t.session) # "lacks" /\ Unfollow(t) = Idle(sent)
    BY DEF Unfollow, sent
  <2> QED BY <1>1, <2>2, <2>3
<1> QED BY <1>3, <1>4

LEMMA GoodResumeNo == ASSUME NEW t, Fit(t) PROVE Good(t, ResumeNo(t))
<1> DEFINE i == t.doc.playing.item
           abandoned == [t EXCEPT !.doc.playing.status = IF i = NoItem THEN @ ELSE "abandoned"]
           s == abandoned.doc
           rated == IF i \in Tracks THEN ActivateBest(Finalize(s), Finalized(s)) ELSE s
           closed == Clear(Lower(rated, "resume"), {"resume"})
           after == [abandoned EXCEPT !.doc = closed]
<1>1. ASSUME NEW status PROVE Calm(t, [t EXCEPT !.doc.playing.status = status])
  BY CalmSelf, CalmBeside DEF Shaped, Fit, IsTurn
<1>2. Calm(t, abandoned)
  BY <1>1
<1> HIDE DEF abandoned
<1>3. Mild(s, rated)
  <2>1. Shaped(s)
    BY <1>2, CalmIsTurn
  <2> QED BY <2>1, MildPublication, MildRating, MildTrans, MildShaped, MildSelf
<1> HIDE DEF rated
<1>4. Mild(s, closed)
  BY <1>3, MildShaped, MildClosed, MildTrans
<1> HIDE DEF closed
<1>5. Calm(t, after)
  BY <1>2, <1>4, CalmDoc
<1> HIDE DEF after
<1>6. \A x : Good(t, Says(after, "feedback", x))
  BY <1>5, GoodAfter, GoodSays
<1>7. \/ \E x : ResumeNo(t) = Says(after, "feedback", x)
      \/ ResumeNo(t) = FollowUp(after)
  BY DEF ResumeNo, after, closed, rated, abandoned
<1> QED BY <1>5, <1>6, <1>7, GoodAfter

\* The session of a launch is a new one; what the last one ended with may not be.
LEMMA GoodLaunch ==
  ASSUME NEW t, NEW u, Done(t, u) PROVE Good(t, LaunchReturning(u))
<1> DEFINE flushed == Flush(u)
           quiet == [flushed EXCEPT !.doc = ClearTransient(flushed.doc)]
           kept == [quiet EXCEPT !.doc.keep = FALSE]
           n == SyncForLaunch(quiet.session, u.world.following)
           free == [kept EXCEPT !.session = n]
           c == About(quiet.doc.playing.item, quiet.doc.playing.item)
           resumed == [free EXCEPT !.doc = Activate(free.doc, "resume", c)]
<1>1. Calm(u, u)
  BY CalmSelf DEF Done, Keeps
<1>2. Calm(u, flushed)
  BY <1>1, CalmPauses
<1> HIDE DEF flushed
<1>3. Calm(u, quiet)
  BY <1>2, CalmIsTurn, MildEnds, CalmDoc
<1> HIDE DEF quiet
<1>4. Calm(u, kept)
  BY <1>3, CalmIsTurn, CalmBeside DEF Shaped
<1>5. DOMAIN n = {"known", "said"}
  BY <1>3, CalmIsTurn, KnownSessions DEF IsTurn
<1>6. [quiet EXCEPT !.doc.keep = FALSE, !.session = n] = free
  BY <1>3, CalmIsTurn DEF IsTurn
<1> HIDE DEF kept, n
<1>7. Done(t, free)
  BY <1>4, <1>5, DoneCalm, DoneSession
<1> HIDE DEF free, c
<1>8. Calm(free, free)
  BY <1>7, CalmSelf DEF Done, Keeps
<1>9. Good(t, Says(resumed, "resume", c.item))
  BY <1>7, <1>8, CalmActivates, GoodCalm, DoneCalm, GoodSays, CalmIsTurn, MildOps, CalmDoc
<1>10. Good(t, OfferLatest(free))
  <2>1. Done(t, OfferLatest(free))
    BY <1>7, <1>8, CalmOfferLatest, DoneCalm
  <2>2. OfferLatest(free).asked.kind # "follow"
    BY <1>7 DEF OfferLatest, Idle, Says, Done, Keeps, IsTurn
  <2> QED BY <2>1, <2>2 DEF Good, AsksWell
<1>11. Good(t, Offer(free, FALSE, OfferLatest(free)))
  BY <1>7, <1>10, GoodOffer
<1>12. Good(t, AskKeepListening(quiet))
  BY <1>3, DoneCalm, GoodSays DEF AskKeepListening
<1>13. LaunchReturning(u) \in {AskKeepListening(quiet), Says(resumed, "resume", c.item),
                              Offer(free, FALSE, OfferLatest(free))}
  BY <1>6 DEF LaunchReturning, resumed, free, kept, n, c, quiet, flushed
<1> QED BY <1>9, <1>11, <1>12, <1>13

LEMMA GoodWords ==
  ASSUME NEW t, Fit(t), t.world.heard \in Reported PROVE Good(t, DiscoverWords(t))
<1> DEFINE heard == t.world.heard
           u == Does(t, "heard", heard)
<1>1. Good(t, t) /\ IsTurn(t)
  BY GoodSelf DEF Fit
<1>2. Caused(t, <<"heard", heard>>)
  BY DEF Caused
<1>3. /\ DOMAIN u = DOMAIN t /\ u.doc = t.doc /\ u.inbox = t.inbox
      /\ u.session = t.session /\ u.world = t.world /\ u.asked = t.asked
      /\ u.missed = t.missed
      /\ u.effects = t.effects \union {<<"heard", heard>>}
  BY <1>1 DEF Does, IsTurn
<1> HIDE DEF u
<1>4. Good(t, u)
  BY <1>1, <1>2, <1>3 DEF Good, Done, Keeps, AsksWell, IsTurn
<1>5. \A p : Good(t, Decide(u, p))
  BY <1>4, CalmSelf, CalmDecide, GoodCalm DEF Good, Done, Keeps
<1> QED BY <1>5 DEF DiscoverWords, u

-----------------------------------------------------------------------------
(* Yes and no. *)

LEMMA GoodAffirm == ASSUME NEW t, Fit(t) PROVE Good(t, Affirm(t))
<1> DEFINE unkept == [t EXCEPT !.doc.keep = FALSE]
<1>1. Calm(t, t)
  BY CalmSelf DEF Fit
<1>2. Calm(t, [t EXCEPT !.doc = Clear(t.doc, {"help"})])
  BY <1>1, CalmIsTurn, MildClear, CalmDoc
<1>3. Calm(t, unkept)
  BY <1>1, CalmIsTurn, CalmBeside DEF Shaped
<1> DEFINE helped == [t EXCEPT !.doc = Clear(t.doc, {"help"})]
<1>4. Affirm(t) \in
        {Idle(helped), StartProfile(t), RepairYes(t), PlayLatest(t), ContinueQueue(t),
         ConfirmSearch(t), ConfirmLocation(t), PlayCommunity(t), ResumeYes(t),
         Restart(unkept), Idle(t)} \union {Accept(t), Enjoyed(t), Follow(t)}
  BY DEF Affirm, helped, unkept
<1> HIDE DEF helped, unkept
<1>5. /\ Calm(t, Idle(helped)) /\ Calm(t, Restart(unkept)) /\ Calm(t, Idle(t))
      /\ Calm(t, ContinueQueue(t)) /\ Calm(t, ResumeYes(t))
  BY <1>1, <1>2, <1>3, CalmIdle, CalmRestart, CalmContinueQueue, CalmResumeYes DEF helped
<1>6. /\ Calm(t, StartProfile(t)) /\ Calm(t, ConfirmLocation(t)) /\ Calm(t, PlayCommunity(t))
  BY <1>1, CalmStartProfile, CalmConfirmLocation, CalmPlayCommunity
<1>7. /\ Calm(t, RepairYes(t)) /\ Calm(t, PlayLatest(t)) /\ Calm(t, ConfirmSearch(t))
  BY <1>1, CalmRepair, CalmPlayLatest, CalmConfirmSearch
<1> QED BY <1>4, <1>5, <1>6, <1>7, GoodAfter, GoodAccept, GoodEnjoyed, GoodFollow

LEMMA GoodDeny == ASSUME NEW t, Fit(t) PROVE Good(t, Deny(t))
<1> DEFINE unkept == [t EXCEPT !.doc.keep = FALSE]
           helped == [t EXCEPT !.doc = Clear(t.doc, {"help"})]
           settled == [t EXCEPT !.doc = DismissAmbiguity(t.doc)]
           heard == [t EXCEPT !.doc = CloseLatest(t.doc)]
           withdrawn == [t EXCEPT !.doc.setup.community = FALSE]
           asked0 == [t EXCEPT !.doc.setup.consent = FALSE]
           unconsented == [t EXCEPT !.doc.setup.consent = FALSE, !.doc.setup.community = FALSE]
           passed == [t EXCEPT !.doc = ClearFeedback(t.doc)]
<1>1. Calm(t, t)
  BY CalmSelf DEF Fit
<1>2. Calm(t, helped) /\ Calm(t, settled) /\ Calm(t, heard) /\ Calm(t, passed)
  BY <1>1, CalmIsTurn, MildClear, MildEnds, MildNotes, CalmDoc
<1>3. Calm(t, unkept) /\ Calm(t, withdrawn) /\ Calm(t, asked0)
  BY <1>1, CalmIsTurn, CalmBeside DEF Shaped
<1>4. Calm(t, unconsented)
  <2> DEFINE w == [asked0 EXCEPT !.doc.setup.community = FALSE]
  <2>1. w = unconsented
    BY <1>1, CalmIsTurn DEF IsTurn, Shaped
  <2> HIDE DEF asked0
  <2>2. Calm(t, w)
    BY <1>3, CalmIsTurn, CalmBeside DEF Shaped
  <2> QED BY <2>1, <2>2
<1>5. Deny(t) \in
        {Idle(helped), Idle(settled), RepairNo(t), Idle(heard), DeclineSearch(t),
         DeclineTown(t), Idle(withdrawn), NotEnjoyed(t), Idle(unconsented),
         FinalizeProfileSkipped(t), PlayNext(unkept), Idle(t)}
        \union {Decline(t), Skip(t, FALSE), DeclineContinuation(t), ResumeNo(t),
                FollowUp(passed)}
  BY DEF Deny, helped, settled, heard, withdrawn, unconsented, unkept, passed
<1> HIDE DEF unkept, helped, settled, heard, withdrawn, asked0, unconsented, passed
<1>6. /\ Calm(t, Idle(helped)) /\ Calm(t, Idle(settled)) /\ Calm(t, Idle(heard))
      /\ Calm(t, Idle(withdrawn)) /\ Calm(t, Idle(unconsented)) /\ Calm(t, Idle(t))
      /\ Calm(t, PlayNext(unkept))
  BY <1>1, <1>2, <1>3, <1>4, CalmIdle, CalmPlayNext
<1>7. /\ Calm(t, RepairNo(t)) /\ Calm(t, DeclineSearch(t)) /\ Calm(t, DeclineTown(t))
      /\ Calm(t, NotEnjoyed(t)) /\ Calm(t, FinalizeProfileSkipped(t))
  BY <1>1, CalmRepair, CalmDeclineSearch, CalmDeclineTown, CalmNotEnjoyed, CalmProfileSkipped
<1>8. Good(t, FollowUp(passed))
  BY <1>2, GoodAfter
<1> QED BY <1>5, <1>6, <1>7, <1>8, GoodAfter, GoodDecline, GoodSkip,
           GoodDeclineContinuation, GoodResumeNo

-----------------------------------------------------------------------------
(* Requests. *)

\* The documents, sessions and inboxes of requests.
IInv ==
  /\ scenario \in Scenarios
  /\ Shaped(doc) /\ DOMAIN inbox = Notices /\ DOMAIN session = {"known", "said"}
  /\ TalkInv /\ Tracked(doc, inbox, missed)

\* What every step does, whichever it is.
Step ==
  /\ scenario' = scenario
  /\ Shaped(doc') /\ DOMAIN inbox' = Notices /\ DOMAIN session' = {"known", "said"}
  /\ NoticesAgree(doc', inbox', missed') /\ Tracked(doc', inbox', missed')
  /\ asked'.kind = "follow" => session'.said # "has" /\ session.said # "has"
  /\ \A n \in Notices :
       inbox[n] \in TerminalStatuses /\ InTouch(n, missed) => inbox'[n] = inbox[n]
  /\ \A n \in Notices :
       inbox'[n] = "consumed" =>
         \/ inbox[n] = "consumed" \/ doc'.playing.item = NoticeItem[n]
         \/ doc' = doc /\ NextOf(doc.playing.item) = NoticeItem[n]
  /\ \A e \in last' :
       /\ e[1] = "follow" => session.said # "has"
       /\ e[1] = "unfollow" => session.said # "lacks"
       /\ e[1] = "heard" => e[2] \in Reported

WorldFit(w) ==
  w.lookup \in {"match", "several", "none", "down"} /\ w.notice \in Notices \union {NoNotice}

\* A turn as it begins, and as it reaches the handler of an intent.
Begun(t) ==
  /\ Fit(t) /\ t.saved = doc /\ t.inbox = inbox /\ t.missed = missed
  /\ t.session.said = session.said
At(w, intent) == [Turn(w) EXCEPT !.doc = Passed(@, intent)]

LEMMA WorldsFit ==
  ASSUME IInv
  PROVE  /\ WorldFit(Still)
         /\ \A w \in Inboxes \union Follows : WorldFit(w)
         /\ \A w \in Searched \union Catalogues \union Listings \union Lookups : WorldFit(w)
         /\ \A w \in Heards \union Devices \union Accepting : WorldFit(w)
         /\ \A status : \A w \in Settling(status) : WorldFit(w)
         /\ \A w \in Heards : w.heard \in Reported
<1>1. scenario.notices \subseteq Notices
  BY ConversationAssumption DEF IInv
<1>2. WorldFit(Still)
  BY DEF Still, WorldFit
<1>3. \A w \in Inboxes : WorldFit(w) /\ DOMAIN w = DOMAIN Still
  <2>1. ASSUME NEW n \in scenario.notices, NEW l
        PROVE  LET w == [Still EXCEPT !.notice = n, !.lost = l]
               IN  WorldFit(w) /\ DOMAIN w = DOMAIN Still
    BY <1>1 DEF Still, WorldFit
  <2> DEFINE Told(n, l) == [Still EXCEPT !.notice = n, !.lost = l]
  <2>2. Inboxes = {Still} \union {Told(n, l) : n \in scenario.notices, l \in Losses({"offered"})}
    BY DEF Inboxes
  <2>3. \A n \in scenario.notices :
          \A l : WorldFit(Told(n, l)) /\ DOMAIN Told(n, l) = DOMAIN Still
    BY <2>1
  <2> HIDE DEF Told
  <2>4. ASSUME NEW w \in Inboxes PROVE WorldFit(w) /\ DOMAIN w = DOMAIN Still
    <3>1. CASE w = Still
      BY <1>2, <3>1
    <3>2. CASE w # Still
      <4>1. PICK n \in scenario.notices, l \in Losses({"offered"}) : w = Told(n, l)
        BY <2>2, <3>2
      <4> QED BY <2>3, <4>1
    <3> QED BY <3>1, <3>2
  <2> QED BY <2>4
<1>4. \A w \in Follows : WorldFit(w)
  BY <1>3 DEF Follows, Still, WorldFit
<1>5. \A w \in Searched \union Catalogues : WorldFit(w)
  BY DEF Searched, Catalogues, Still, WorldFit
<1>6. \A w \in Listings \union Lookups : WorldFit(w)
  BY DEF Listings, Lookups, Still, WorldFit
<1>7. /\ \A w \in Heards \union Devices \union Accepting : WorldFit(w)
      /\ \A status : \A w \in Settling(status) : WorldFit(w)
  <2>1. \A v \in Searched : \A l : WorldFit([v EXCEPT !.lost = l])
    BY DEF Searched, Still, WorldFit
  <2>2. \A w \in Accepting : WorldFit(w)
    BY <2>1 DEF Accepting
  <2>3. /\ \A w \in Heards \union Devices : WorldFit(w)
        /\ \A status : \A w \in Settling(status) : WorldFit(w)
    BY DEF Heards, Devices, Settling, Still, WorldFit
  <2> QED BY <2>2, <2>3
<1>8. \A w \in Heards : w.heard \in Reported
  BY DEF Heards, Still
<1> QED BY <1>2, <1>3, <1>4, <1>5, <1>6, <1>7, <1>8

LEMMA TurnFits ==
  ASSUME IInv, NEW w, WorldFit(w)
  PROVE  Begun(Turn(w)) /\ Turn(w).asked = asked /\ Turn(w).world = w
<1> DEFINE t == Turn(w)
<1>1. /\ t.doc = Migrate(doc) /\ t.saved = doc /\ t.inbox = inbox /\ t.asked = asked
      /\ t.missed = missed
      /\ t.session = Hydrate(session, w.following) /\ t.effects = {} /\ t.world = w
      /\ DOMAIN t = {"doc", "saved", "session", "inbox", "asked", "effects", "world", "missed"}
  BY DEF Turn
<1> HIDE DEF t
<1>2. Mild(doc, Migrate(doc)) /\ Shaped(Migrate(doc))
  BY MildMigrate, MildShaped DEF IInv
<1>3. DOMAIN t.session = {"known", "said"} /\ t.session.said = session.said
  BY <1>1, KnownSessions DEF IInv
<1>4. IsTurn(t)
  BY <1>1, <1>2, <1>3 DEF IsTurn, IInv, WorldFit
<1>5. Begun(t)
  BY <1>1, <1>2, <1>3, <1>4 DEF Begun, Fit, IInv, TalkInv, FollowIsOpen
<1> QED BY <1>1, <1>5 DEF t

\* A calm change of a turn as it begins.
LEMMA BegunCalm ==
  ASSUME NEW t, NEW s, Begun(t), Mild(t.doc, s)
  PROVE  Begun([t EXCEPT !.doc = s])
<1> DEFINE u == [t EXCEPT !.doc = s]
<1>1. IsTurn(t)
  BY DEF Begun, Fit
<1>2. /\ u.doc = s /\ u.inbox = t.inbox /\ u.session = t.session /\ u.world = t.world
      /\ u.effects = t.effects /\ u.asked = t.asked /\ u.saved = t.saved
      /\ u.missed = t.missed
      /\ DOMAIN u = DOMAIN t
  BY <1>1 DEF IsTurn
<1> HIDE DEF u
<1>3. Begun(u)
  BY <1>2, MildTrans, MildShaped DEF Begun, Fit, IsTurn
<1> QED BY <1>3 DEF u

LEMMA AtFits ==
  ASSUME IInv, NEW w, WorldFit(w), NEW intent
  PROVE  Begun(At(w, intent)) /\ Calm(At(w, intent), At(w, intent)) /\ At(w, intent).world = w
<1> DEFINE t == Turn(w)
           s == Passed(t.doc, intent)
<1>1. Begun(t) /\ Shaped(t.doc) /\ t.world = w
  BY TurnFits DEF Begun, Fit, IsTurn
<1> HIDE DEF t
<1>2. Mild(t.doc, s)
  BY <1>1, MildPassed
<1> HIDE DEF s
<1>3. Begun([t EXCEPT !.doc = s]) /\ [t EXCEPT !.doc = s].world = w
  BY <1>1, <1>2, BegunCalm DEF Begun, Fit, IsTurn
<1>4. At(w, intent) = [t EXCEPT !.doc = s]
  BY DEF At, t, s
<1> QED BY <1>3, <1>4, CalmSelf DEF Begun, Fit

\* What the backend has learned of a notice when the document is not saved.
LEMMA UnsavedAgrees ==
  ASSUME IInv, NEW t, NEW u, NEW q, Begun(t), Keeps(t, u), Unsaved(u, q)
  PROVE  NoticesAgree(doc, inbox', missed') /\ Tracked(doc, inbox', missed')
<1>1. inbox' = u.inbox /\ missed \subseteq missed' /\ t.saved = doc /\ t.missed = missed
  BY DEF Unsaved, Keeps, Begun
<1>2. ASSUME NEW n \in Notices, inbox'[n] \notin {inbox[n], "offered"}
      PROVE  ~InTouch(n, missed') /\ ~Trackable(n, missed')
  <2>1. <<n, "document">> \in missed'
    BY <1>1, <1>2 DEF Unsaved
  <2> QED BY <2>1 DEF InTouch, Trackable
<1>3. \A n : /\ InTouch(n, missed') => InTouch(n, missed)
             /\ Trackable(n, missed') => Trackable(n, missed)
  BY <1>1, InTouchBefore
<1>4. NoticesAgree(doc, inbox, missed) /\ Tracked(doc, inbox, missed)
  BY DEF IInv, TalkInv
<1>5. \A n \in Notices : InTouch(n, missed) /\ doc.offered = n => inbox'[n] # "offered"
  BY <1>1 DEF Keeps
<1>6. NoticesAgree(doc, inbox', missed')
  <2>1. ASSUME NEW n \in Notices, InTouch(n, missed')
        PROVE  /\ doc.offered = n =>
                    inbox'[n] = "queued" /\ \A c \in NoticeContexts(doc) : c.about # n
               /\ \A c \in NoticeContexts(doc) : c.about = n => inbox'[n] \notin TerminalStatuses
    BY <1>2, <1>3, <1>4, <1>5, <2>1 DEF NoticesAgree, TerminalStatuses
  <2> QED BY <1>4, <2>1 DEF NoticesAgree
<1>7. Tracked(doc, inbox', missed')
  BY <1>2, <1>3, <1>4 DEF Tracked
<1> QED BY <1>6, <1>7

\* An answer, or silence, whether or not the document is saved.
LEMMA Answered ==
  ASSUME IInv, NEW t, NEW u, NEW q, Begun(t), Keeps(t, u), AsksWell(t, u),
         Saved(u) \/ Unsaved(u, q),
         q \in {Apology, Silence} \/ (q = asked /\ u.session.said = session.said),
         \A n \in Notices :
           u.inbox[n] = "consumed" =>
             \/ t.inbox[n] = "consumed"
             \/ /\ u.doc.playing.item = NoticeItem[n]
                /\ NoticeItem[n] \in {doc.playing.item, NextOf(doc.playing.item)}
  PROVE  Step
<1>1. CASE Saved(u)
  <2>1. /\ doc' = u.doc /\ inbox' = u.inbox /\ asked' = u.asked /\ last' = u.effects
        /\ missed' = u.missed /\ scenario' = scenario
        /\ session' = IF u.asked.kind = "closed" THEN NoSession ELSE u.session
    BY <1>1 DEF Saved, SessionAfter
  <2>2. DOMAIN session' = {"known", "said"}
    BY <2>1 DEF Keeps, IsTurn, NoSession
  <2>3. asked'.kind = "follow" => session'.said # "has" /\ session.said # "has"
    BY <2>1 DEF AsksWell, Begun
  <2> QED BY <2>1, <2>2, <2>3 DEF Step, Keeps, IsTurn, Begun, Caused
<1>2. CASE Unsaved(u, q)
  <2>1. /\ doc' = doc /\ inbox' = u.inbox /\ asked' = q /\ last' = {}
        /\ scenario' = scenario
        /\ session' = IF q.kind = "closed" THEN NoSession ELSE u.session
    BY <1>2 DEF Unsaved, SessionAfter
  <2>2. DOMAIN session' = {"known", "said"}
    BY <2>1 DEF Keeps, IsTurn, NoSession
  <2>3. asked'.kind = "follow" => session'.said # "has" /\ session.said # "has"
    BY <2>1 DEF Apology, Silence, IInv, TalkInv, FollowIsOpen
  <2>4. NoticesAgree(doc, inbox', missed') /\ Tracked(doc, inbox', missed')
    BY <1>2, UnsavedAgrees
  <2> QED BY <2>1, <2>2, <2>3, <2>4 DEF Step, Keeps, IsTurn, Begun, IInv
<1> QED BY <1>1, <1>2

\* A request that its handler answers well.
LEMMA GoodAnswered ==
  ASSUME IInv, NEW t, NEW u, Begun(t), Good(t, u), Answers(u) PROVE Step
BY Answered DEF Good, Done, Answers

LEMMA CalmAnswered ==
  ASSUME IInv, NEW t, NEW u, Begun(t), Calm(t, u), Answers(u) PROVE Step
BY GoodSelf, GoodCalm, GoodAnswered DEF Begun

\* What is said of a recording, and yes and no.
LEMMA RatingsAnswered ==
  ASSUME IInv, SayEnjoyed \/ SaySomewhat \/ SayNotEnjoyed \/ SaySkip \/ SayResume \/ SayRate
         \/ SayReport \/ SayFollow \/ SayUnfollow \/ SayFollowed \/ SayHearNotices \/
         SayPlay \/ SayTrending \/ SayRecommend \/ SayUnclear \/ Yes \/ No
  PROVE  Step
<1>1. CASE SayEnjoyed
  <2>1. PICK w \in Follows : Answers(Enjoyed(At(w, "Enjoyed")))
    BY <1>1 DEF SayEnjoyed, Handles, At
  <2> QED BY <2>1, WorldsFit, AtFits, GoodEnjoyed, GoodAnswered DEF Begun
<1>2. CASE SaySomewhat
  <2>1. PICK w \in Inboxes : Answers(Somewhat(At(w, "Somewhat")))
    BY <1>2 DEF SaySomewhat, Handles, At
  <2> QED BY <2>1, WorldsFit, AtFits, GoodEnjoyed, GoodAnswered DEF Begun
<1>3. CASE SayNotEnjoyed
  <2>1. PICK w \in {Still} : Answers(NotEnjoyed(At(w, "NotEnjoyed")))
    BY <1>3 DEF SayNotEnjoyed, Handles, At
  <2> QED BY <2>1, WorldsFit, AtFits, CalmNotEnjoyed, CalmAnswered
<1>4. CASE SaySkip
  <2>1. PICK w \in Inboxes : Answers(Skip(At(w, "SkipFeedback"), FALSE))
    BY <1>4 DEF SaySkip, Handles, At
  <2> QED BY <2>1, WorldsFit, AtFits, GoodSkip, GoodAnswered DEF Begun
<1>5. CASE SayResume
  <2>1. PICK w \in {Still} : Answers(Restart(At(w, "Resume")))
    BY <1>5 DEF SayResume, Handles, At
  <2> QED BY <2>1, WorldsFit, AtFits, CalmRestart, CalmAnswered
<1>6. CASE SayRate
  <2>1. PICK w \in {Still} : Answers(RequestRating(At(w, "Rate")))
    BY <1>6 DEF SayRate, Handles, At
  <2> QED BY <2>1, WorldsFit, AtFits, CalmRequestRating, CalmAnswered
<1>7. CASE SayReport
  <2>1. PICK w \in {Still} : Answers(ReportContent(At(w, "Report")))
    BY <1>7 DEF SayReport, Handles, At
  <2> QED BY <2>1, WorldsFit, AtFits, CalmReportContent, CalmAnswered
<1>8. CASE SayFollow
  <2>1. PICK w \in Follows : Answers(Follow(At(w, "Follow")))
    BY <1>8 DEF SayFollow, Handles, At
  <2> QED BY <2>1, WorldsFit, AtFits, GoodFollow, GoodAnswered DEF Begun
<1>9. CASE SayUnfollow
  <2>1. PICK w \in Follows : Answers(Unfollow(At(w, "Unfollow")))
    BY <1>9 DEF SayUnfollow, Handles, At
  <2> QED BY <2>1, WorldsFit, AtFits, GoodFollow, GoodAnswered DEF Begun
<1>10. CASE SayFollowed
  <2>1. PICK w \in Follows : Answers(PlayFollowed(At(w, "Followed")))
    BY <1>10 DEF SayFollowed, Handles, At
  <2> QED BY <2>1, WorldsFit, AtFits, CalmPlayFollowed, CalmAnswered
<1>11. CASE SayHearNotices
  <2>1. PICK w \in Inboxes :
          Answers(Offer(At(w, "HearNotices"), TRUE, Idle(At(w, "HearNotices"))))
    BY <1>11 DEF SayHearNotices, Handles, At
  <2> QED BY <2>1, WorldsFit, AtFits, GoodAfter, GoodOffer, GoodAnswered DEF Begun
<1>12. CASE SayPlay
  <2>1. PICK i \in scenario.plays, w \in {Still} : Answers(Start(At(w, "Play"), i))
    BY <1>12 DEF SayPlay, Handles, At
  <2> QED BY <2>1, WorldsFit, AtFits, CalmStart, CalmAnswered
<1>13. CASE SayTrending
  <2>1. PICK w \in Searched : Answers(HearFound(At(w, "Trending"), "trending"))
    BY <1>13 DEF SayTrending, Handles, At
  <2> QED BY <2>1, WorldsFit, AtFits, CalmHear, CalmAnswered
<1>14. CASE SayRecommend
  <2>1. PICK w \in Listings : Answers(BeginRecommended(At(w, "Recommend")))
    BY <1>14 DEF SayRecommend, Handles, At
  <2> QED BY <2>1, WorldsFit, AtFits, CalmBeginRecommended, CalmAnswered
<1>15. CASE SayUnclear
  <2>1. PICK w \in {Still} : Answers(Idle(At(w, "Unclear")))
    BY <1>15 DEF SayUnclear, Handles, At
  <2> QED BY <2>1, WorldsFit, AtFits, CalmIdle, CalmAnswered
<1>16. CASE Yes
  <2>1. PICK w \in Follows \union Catalogues \union Devices \union Accepting :
          Answers(Affirm(At(w, "Yes")))
    BY <1>16 DEF Yes, Handles, At
  <2> QED BY <2>1, WorldsFit, AtFits, GoodAffirm, GoodAnswered DEF Begun
<1>17. CASE No
  <2>1. PICK w \in Inboxes \union Searched \union Settling("dismissed") :
          Answers(Deny(At(w, "No")))
    BY <1>17 DEF No, Handles, At
  <2> QED BY <2>1, WorldsFit, AtFits, GoodDeny, GoodAnswered DEF Begun
<1> QED BY <1>1, <1>2, <1>3, <1>4, <1>5, <1>6, <1>7, <1>8, <1>9, <1>10, <1>11, <1>12, <1>13,
           <1>14, <1>15, <1>16, <1>17

\* What ends a conversation, and what lets its question go.
LEMMA CalmStops ==
  ASSUME NEW t, NEW u, Calm(t, u)
  PROVE  /\ Calm(t, Closes(PauseActive([u EXCEPT !.doc = ClearTransient(u.doc)])))
         /\ Calm(t, Closes([u EXCEPT !.doc = ClearTransient(u.doc)]))
         /\ Calm(t, Idle([u EXCEPT !.doc = DismissAmbiguity(u.doc)]))
<1>1. Calm(t, [u EXCEPT !.doc = ClearTransient(u.doc)])
      /\ Calm(t, [u EXCEPT !.doc = DismissAmbiguity(u.doc)])
  BY CalmIsTurn, MildEnds, CalmDoc
<1> QED BY <1>1, CalmPauses, CalmIdle

LEMMA StopsAnswered ==
  ASSUME IInv, SayStop \/ SayCancel \/ SayDismiss \/ SayHelp PROVE Step
<1>1. CASE SayStop
  <2> DEFINE t == At(Still, "Stop")
  <2>1. Answers(Closes(PauseActive([t EXCEPT !.doc = ClearTransient(t.doc)])))
    BY <1>1 DEF SayStop, Handles, At
  <2> HIDE DEF t
  <2>2. Begun(t) /\ Calm(t, t)
    BY WorldsFit, AtFits DEF t
  <2> QED BY <2>1, <2>2, CalmStops, CalmAnswered
<1>2. CASE SayCancel
  <2> DEFINE t == At(Still, "Cancel")
  <2>1. Answers(Closes([t EXCEPT !.doc = ClearTransient(t.doc)]))
    BY <1>2 DEF SayCancel, Handles, At
  <2> HIDE DEF t
  <2>2. Begun(t) /\ Calm(t, t)
    BY WorldsFit, AtFits DEF t
  <2> QED BY <2>1, <2>2, CalmStops, CalmAnswered
<1>3. CASE SayDismiss
  <2> DEFINE t == At(Still, "Dismiss")
  <2>1. Answers(Idle([t EXCEPT !.doc = DismissAmbiguity(t.doc)]))
    BY <1>3 DEF SayDismiss, Handles, At
  <2> HIDE DEF t
  <2>2. Begun(t) /\ Calm(t, t)
    BY WorldsFit, AtFits DEF t
  <2> QED BY <2>1, <2>2, CalmStops, CalmAnswered
<1>4. CASE SayHelp
  <2> DEFINE t == At(Still, "Help")
  <2>1. Answers(Says([t EXCEPT !.doc = Activate(t.doc, "help", NoContext)], "help", NoItem))
    BY <1>4 DEF SayHelp, Handles, At
  <2> HIDE DEF t
  <2>2. Begun(t) /\ Calm(t, t)
    BY WorldsFit, AtFits DEF t
  <2>3. Calm(t, Says([t EXCEPT !.doc = Activate(t.doc, "help", NoContext)], "help", NoItem))
    BY <2>2, CalmActivates
  <2> QED BY <2>1, <2>2, <2>3, CalmAnswered
<1> QED BY <1>1, <1>2, <1>3, <1>4

\* What the listener asks for.
LEMMA PhrasesAnswered ==
  ASSUME IInv, SayNext \/ SayResponse \/ SaySeveral \/ SayWords \/ SayLocal \/
         SaySetUpAccount \/ SayMore \/ SayPrevious \/ SayClarify
  PROVE  Step
<1>1. CASE SayNext
  <2>1. PICK w \in Listings :
          Answers(IF Waits(At(w, "Next").doc)
                  THEN MoreMeanings(At(w, "Next"))
                  ELSE PlayNext(At(w, "Next")))
    BY <1>1 DEF SayNext, Handles, At
  <2> QED BY <2>1, WorldsFit, AtFits, CalmMeanings, CalmPlayNext, CalmAnswered
<1>2. CASE SayResponse
  <2>1. PICK w \in {Still} :
          Answers(IF RatingAsked(At(w, "Response").doc)
                  THEN Reject(At(w, "Response"), "Response")
                  ELSE Says(At(w, "Response"), "feedback", NoItem))
    BY <1>2 DEF SayResponse, Handles, At
  <2> QED BY <2>1, WorldsFit, AtFits, CalmReject, CalmSays, CalmAnswered
<1>3. CASE SaySeveral
  <2>1. PICK w \in Lookups : Answers(DiscoverSeveral(At(w, "Several")))
    BY <1>3 DEF SaySeveral, Handles, At
  <2> QED BY <2>1, WorldsFit, AtFits, CalmDiscover, CalmAnswered
<1>4. CASE SayWords
  <2>1. PICK w \in Heards : Answers(DiscoverWords(At(w, "Words")))
    BY <1>4 DEF SayWords, Handles, At
  <2> QED BY <2>1, WorldsFit, AtFits, GoodWords, GoodAnswered DEF Begun
<1>5. CASE SayLocal
  <2>1. PICK w \in Listings : Answers(BeginLocal(At(w, "Local")))
    BY <1>5 DEF SayLocal, Handles, At
  <2> QED BY <2>1, WorldsFit, AtFits, CalmBeginLocal, CalmAnswered
<1>6. CASE SaySetUpAccount
  <2>1. PICK w \in {Still} : Answers(AskProfileSetup(At(w, "SetUpAccount")))
    BY <1>6 DEF SaySetUpAccount, Handles, At
  <2> QED BY <2>1, WorldsFit, AtFits, CalmAskProfile, CalmAnswered
<1>7. CASE SayMore
  <2>1. PICK w \in {Still} : Answers(MoreMeanings(At(w, "More")))
    BY <1>7 DEF SayMore, Handles, At
  <2> QED BY <2>1, WorldsFit, AtFits, CalmMeanings, CalmAnswered
<1>8. CASE SayPrevious
  <2>1. PICK w \in {Still} : Answers(PreviousMeanings(At(w, "Previous")))
    BY <1>8 DEF SayPrevious, Handles, At
  <2> QED BY <2>1, WorldsFit, AtFits, CalmMeanings, CalmAnswered
<1>9. CASE SayClarify
  <2>1. PICK w \in {Still} : Answers(Unmatched(At(w, "Clarify")))
    BY <1>9 DEF SayClarify, Handles, At
  <2> QED BY <2>1, WorldsFit, AtFits, CalmAskMeaning, CalmAnswered
<1> QED BY <1>1, <1>2, <1>3, <1>4, <1>5, <1>6, <1>7, <1>8, <1>9

\* What is asked for by a name.
LEMMA NamesAnswered ==
  ASSUME IInv, SaySearch \/ SayAnySource \/ SayNewspaper \/ SayPublication \/
         SayFindNewspaper \/ SayFindPublication \/ SayFindCreator \/ SayCreators \/ SayTown
         \/ SaySetLocation
  PROVE  Step
<1>1. CASE SaySearch
  <2>1. PICK says \in Hears("Search"), w \in Lookups \union Catalogues :
          Answers(Discover(At(w, "Search"), says.about))
    BY <1>1 DEF SaySearch, Handled, At
  <2> QED BY <2>1, WorldsFit, AtFits, CalmDiscover, CalmAnswered
<1>2. CASE SayAnySource
  <2>1. PICK says \in Hears("AnySource"), w \in {Still} :
          Answers(AnySource(At(w, "AnySource"), says.about))
    BY <1>2 DEF SayAnySource, Handled, At
  <2> QED BY <2>1, WorldsFit, AtFits, CalmAnySource, CalmAnswered
<1>3. CASE SayNewspaper
  <2>1. PICK says \in Hears("Newspaper"), w \in Lookups \union Listings :
          Answers(PlaySource(At(w, "Newspaper"), "organization", says.about))
    BY <1>3 DEF SayNewspaper, Handled, At
  <2> QED BY <2>1, WorldsFit, AtFits, CalmPlaySource, CalmAnswered
<1>4. CASE SayPublication
  <2>1. PICK says \in Hears("Publication"), w \in Lookups \union Catalogues :
          Answers(PlaySource(At(w, "Publication"), "publication", says.about))
    BY <1>4 DEF SayPublication, Handled, At
  <2> QED BY <2>1, WorldsFit, AtFits, CalmPlaySource, CalmAnswered
<1>5. CASE SayFindNewspaper
  <2>1. PICK says \in Hears("FindNewspaper"), w \in Lookups :
          Answers(FindSource(At(w, "FindNewspaper"), "organization", says.about))
    BY <1>5 DEF SayFindNewspaper, Handled, At
  <2> QED BY <2>1, WorldsFit, AtFits, CalmFindSource, CalmAnswered
<1>6. CASE SayFindPublication
  <2>1. PICK says \in Hears("FindPublication"), w \in Lookups :
          Answers(FindSource(At(w, "FindPublication"), "publication", says.about))
    BY <1>6 DEF SayFindPublication, Handled, At
  <2> QED BY <2>1, WorldsFit, AtFits, CalmFindSource, CalmAnswered
<1>7. CASE SayFindCreator
  <2>1. PICK says \in Hears("FindCreator"), w \in Lookups :
          Answers(FindSource(At(w, "FindCreator"), "creator", says.about))
    BY <1>7 DEF SayFindCreator, Handled, At
  <2> QED BY <2>1, WorldsFit, AtFits, CalmFindSource, CalmAnswered
<1>8. CASE SayCreators
  <2>1. PICK says \in Hears("Creators"), w \in Lookups \union Listings :
          Answers(BeginCreators(At(w, "Creators"),
                                IF says.about = NoItem THEN NoTown ELSE says.about))
    BY <1>8 DEF SayCreators, Handled, At
  <2> QED BY <2>1, WorldsFit, AtFits, CalmBeginCreators, CalmAnswered
<1>9. CASE SayTown
  <2>1. PICK says \in Hears("Town"), w \in Lookups \union Listings :
          Answers(IF LocationActive(At(w, "Town").doc)
                  THEN CaptureTown(At(w, "Town"), says.about)
                  ELSE Discover(At(w, "Town"), PlaceSearch))
    BY <1>9 DEF SayTown, Handled, At
  <2> QED BY <2>1, WorldsFit, AtFits, CalmCaptureTown, CalmDiscover, CalmAnswered
<1>10. CASE SaySetLocation
  <2>1. PICK says \in Hears("SetLocation"), w \in Lookups \union Listings :
          Answers(IF LocationActive(At(w, "SetLocation").doc) \/ says.about = "nothing"
                  THEN SetLocation(At(w, "SetLocation"), says.about)
                  ELSE Discover(At(w, "SetLocation"), PlaceSearch))
    BY <1>10 DEF SaySetLocation, Handled, At
  <2> QED BY <2>1, WorldsFit, AtFits, CalmCaptureTown, CalmDiscover, CalmAnswered
<1> QED BY <1>1, <1>2, <1>3, <1>4, <1>5, <1>6, <1>7, <1>8, <1>9, <1>10

\* What the gates before the handlers answer.
LEMMA GatesAnswered ==
  ASSUME IInv, SkipGate \/ ProfileGate \/ TownCaptureGate \/ OnboardingGate
                 \/ CreatorCityGate \/ NameGate
  PROVE  Step
<1>1. CASE SkipGate
  <2>1. PICK w \in Inboxes : Answers(Skip(Turn(w), TRUE))
    BY <1>1 DEF SkipGate
  <2> QED BY <2>1, WorldsFit, TurnFits, GoodSkip, GoodAnswered DEF Begun
<1>2. CASE ProfileGate
  <2>1. PICK intent \in scenario.says : Answers(FinalizeProfileSkipped(At(Still, intent)))
    BY <1>2 DEF ProfileGate, Taken, At
  <2> QED BY <2>1, WorldsFit, AtFits, CalmProfileSkipped, CalmAnswered
<1>3. CASE TownCaptureGate
  <2>1. PICK intent \in scenario.says, w \in Lookups : \E says \in Hears(intent) :
          Answers(IF says.intent \in {"No", "SkipFeedback", "Next", "Cancel"}
                  THEN FinalizeTownSkipped(At(w, intent))
                  ELSE CaptureTown(At(w, intent), ReplyOf(says)))
    BY <1>3 DEF TownCaptureGate, Taken, At
  <2> QED BY <2>1, WorldsFit, AtFits, CalmTownSkipped, CalmCaptureTown, CalmAnswered
<1>4. CASE OnboardingGate
  <2>1. PICK intent \in scenario.says, w \in Devices \union Lookups :
          \E says \in Hears(intent) : Answers(Gate(At(w, intent), says.intent, ReplyOf(says)))
    BY <1>4 DEF OnboardingGate, Taken, At
  <2> QED BY <2>1, WorldsFit, AtFits, CalmGate, CalmAnswered
<1>5. CASE CreatorCityGate
  <2>1. PICK intent \in scenario.says, w \in Lookups \union Listings :
          Answers(BeginCreators(At(w, intent), DeviceTown))
    BY <1>5 DEF CreatorCityGate, Taken, At
  <2> QED BY <2>1, WorldsFit, AtFits, CalmBeginCreators, CalmAnswered
<1>6. CASE NameGate
  <2>1. PICK intent \in scenario.says, w \in Lookups \union Searched :
          \E says \in Hears(intent) :
          Answers(IF says.intent = "Several" THEN DiscoverSeveral(At(w, intent))
                  ELSE AnswerName(At(w, intent), At(w, intent).doc.active.type, says.about))
    BY <1>6 DEF NameGate, Taken, At
  <2> QED BY <2>1, WorldsFit, AtFits, CalmDiscover, CalmAnswerName, CalmAnswered
<1> QED BY <1>1, <1>2, <1>3, <1>4, <1>5, <1>6

\* A turn that the dialogue over a list of choices takes.
LEMMA TurnBegun ==
  ASSUME IInv, NEW w, WorldFit(w)
  PROVE  Begun(Turn(w)) /\ Calm(Turn(w), Turn(w)) /\ Good(Turn(w), Turn(w))
BY TurnFits, CalmSelf, GoodSelf DEF Begun, Fit

LEMMA ChoicesAnswered ==
  ASSUME IInv, MoreChoices \/ PreviousChoices \/ OneChoice \/ YesToChoices \/ NoToChoices
                 \/ NoneOfThem \/ NoChoice
  PROVE  Step
<1>1. CASE MoreChoices
  <2>1. PICK w \in Listings : Answers(More(Turn(w)))
    BY <1>1 DEF MoreChoices, AtChoices
  <2> QED BY <2>1, WorldsFit, TurnBegun, CalmPaging, CalmAnswered
<1>2. CASE PreviousChoices
  <2>1. PICK w \in Listings : Answers(Previous(Turn(w)))
    BY <1>2 DEF PreviousChoices, AtChoices
  <2> QED BY <2>1, WorldsFit, TurnBegun, CalmPaging, CalmAnswered
<1>3. CASE OneChoice
  <2>1. PICK says \in Hears("Choose"), w \in Catalogues : Answers(Choose(Turn(w), says.about))
    BY <1>3 DEF OneChoice, AtChoices
  <2> QED BY <2>1, WorldsFit, TurnBegun, CalmChoose, CalmAnswered
<1>4. CASE YesToChoices
  <2>1. PICK w \in Catalogues : Answers(ChooseYes(Turn(w)))
    BY <1>4 DEF YesToChoices, AtChoices
  <2> QED BY <2>1, WorldsFit, TurnBegun, CalmChoose, CalmAnswered
<1>5. CASE NoToChoices
  <2>1. PICK w \in Searched : Answers(ChooseNo(Turn(w)))
    BY <1>5 DEF NoToChoices, AtChoices
  <2> QED BY <2>1, WorldsFit, TurnBegun, CalmChoose, CalmAnswered
<1>6. CASE NoneOfThem
  <2>1. Answers(NothingThere(Turn(Still)))
    BY <1>6 DEF NoneOfThem, AtChoices
  <2> QED BY <2>1, WorldsFit, TurnBegun, CalmNothing, CalmAnswered
<1>7. CASE NoChoice
  <2>1. Answers(Reread(Turn(Still)))
    BY <1>7 DEF NoChoice, AtChoices
  <2> QED BY <2>1, WorldsFit, TurnBegun, CalmPaging, CalmAnswered
<1> QED BY <1>1, <1>2, <1>3, <1>4, <1>5, <1>6, <1>7

LEMMA RefuseAnswered == ASSUME IInv, Refuse PROVE Step
<1>1. PICK intent \in scenario.says : Answers(Reject(Turn(Still), intent))
  BY DEF Refuse
<1> QED BY <1>1, WorldsFit, TurnBegun, CalmReject, CalmAnswered

LEMMA LaunchAnswered == ASSUME IInv, Launch PROVE Step
<1>1. PICK w \in Follows :
        LET t == [Turn(w) EXCEPT !.session = Hydrate(NoSession, w.following)]
        IN  Answers(IF RatingAsked(t.doc)
                    THEN Says(t, "feedback", t.doc.pending["feedback"].about)
                    ELSE IF IsNew(t.doc) THEN AskForPermission(t)
                    ELSE LaunchReturning(Known(t)))
  BY DEF Launch
<1> DEFINE begun == Turn(w)
           n == Hydrate(NoSession, w.following)
           t == [begun EXCEPT !.session = n]
           u == IF RatingAsked(t.doc)
                THEN Says(t, "feedback", t.doc.pending["feedback"].about)
                ELSE IF IsNew(t.doc) THEN AskForPermission(t)
                ELSE LaunchReturning(Known(t))
<1>2. Answers(u)
  BY <1>1
<1>3. Begun(begun) /\ Good(begun, begun)
  BY WorldsFit, TurnBegun
<1>4. DOMAIN n = {"known", "said"} /\ n.said = "unknown"
  BY KnownSessions DEF NoSession
<1> HIDE DEF begun, n
<1>5. Done(begun, t)
  BY <1>3, <1>4, DoneSession DEF Good
<1>6. t.session = n /\ t.asked = begun.asked /\ IsTurn(t)
  BY <1>3, <1>5 DEF Good, Done, Keeps, IsTurn
<1> HIDE DEF t
<1>7. Good(begun, t) /\ Calm(t, t)
  BY <1>3, <1>4, <1>5, <1>6, CalmSelf DEF Good, AsksWell
<1>8. Calm(t, Known(t))
  <2> DEFINE r == RepairSetup(t.doc)
             s == [r EXCEPT !.known = TRUE]
  <2>1. Mild(t.doc, r) /\ Shaped(r)
    BY <1>6, MildSetup, MildShaped DEF IsTurn
  <2> HIDE DEF r
  <2>2. Mild(t.doc, s)
    BY <2>1, MildBeside, MildTrans DEF Shaped
  <2> QED BY <1>7, <2>2, CalmDoc DEF Known, s, r
<1>9. Good(begun, LaunchReturning(Known(t)))
  BY <1>5, <1>8, DoneCalm, GoodLaunch
<1>10. Good(begun, AskForPermission(t))
  BY <1>7, CalmAskForPermission, GoodCalm
<1>11. Good(begun, Says(t, "feedback", t.doc.pending["feedback"].about))
  BY <1>5, GoodSays
<1>12. Good(begun, u)
  BY <1>9, <1>10, <1>11
<1> HIDE DEF u
<1> QED BY <1>2, <1>3, <1>12, GoodAnswered

LEMMA EndAnswered == ASSUME IInv, EndSession PROVE Step
<1> DEFINE t == Turn(Still)
           f == Flush(t)
           u == Closes([f EXCEPT !.doc = ClearTransient(f.doc)])
<1>1. Saved(u) \/ Unsaved(u, Silence)
  BY DEF EndSession
<1>2. Begun(t) /\ Calm(t, t)
  BY WorldsFit, TurnBegun
<1> HIDE DEF t
<1>3. Calm(t, f) /\ Shaped(f.doc)
  BY <1>2, CalmPauses, CalmIsTurn
<1> HIDE DEF f
<1>4. Calm(t, u)
  BY <1>3, MildEnds, CalmDoc, CalmIdle
<1> HIDE DEF u
<1>5. Good(t, u)
  BY <1>2, <1>4, GoodAfter DEF Begun
<1> QED BY <1>1, <1>2, <1>5, Answered DEF Good, Done

-----------------------------------------------------------------------------
(* Events of the player, and time. *)

LEMMA CalmEvent ==
  ASSUME IInv, NEW t, NEW u, Begun(t), Calm(t, u), Event(u) PROVE Step
<1>1. Good(t, u) /\ u.session = t.session
  BY GoodAfter DEF Begun, Calm
<1> QED BY <1>1, Answered DEF Event, Good, Done, Begun

\* An event settles the notice that the document tracks, or none.
LEMMA ResolvesAnswered ==
  ASSUME IInv, NEW t, NEW u, NEW i, NEW status \in {"consumed", "pending"},
         Begun(t), Calm(t, u), Event(ResolveNotice(u, i, status)),
         status = "consumed" =>
           u.doc.playing.item = i /\ i \in {doc.playing.item, NextOf(doc.playing.item)}
  PROVE  Step
<1> DEFINE n == u.doc.offered
           s == [u.doc EXCEPT !.offered = NoNotice]
           v == Noting(u, n, status, s)
<1>1. /\ Good(t, u) /\ IsTurn(u) /\ Shaped(u.doc) /\ u.inbox = t.inbox
      /\ u.session = t.session /\ n = t.saved.offered
  BY GoodAfter, CalmIsTurn DEF Begun, Calm, Fit, Mild
<1>2. CASE n = NoNotice \/ NoticeItem[n] # i
  BY <1>2, CalmEvent DEF ResolveNotice
<1>3. CASE n # NoNotice /\ NoticeItem[n] = i
  <2>1. n \in Notices /\ (InTouch(n, u.missed) => u.inbox[n] = "queued")
    BY <1>1, <1>3 DEF Good, Done, Keeps, NoticesAgree
  <2>2. Event(v)
    <3>1. UpdateStatus(u, n, status).doc = u.doc
      BY <1>1, <2>1, UpdateTakes
    <3>2. v = [UpdateStatus(u, n, status) EXCEPT !.doc.offered = NoNotice]
      BY <3>1 DEF Noting
    <3> QED BY <1>3, <3>2 DEF ResolveNotice
  <2>3. Shaped(s) /\ s.offered = NoNotice /\ NoticeContexts(s) = NoticeContexts(u.doc)
        /\ s.playing = u.doc.playing
    BY <1>1 DEF Shaped, NoticeContexts
  <2> HIDE DEF s, n
  <2>4. Took(u, v, n, status) /\ v.doc = s /\ IsTurn(v)
    BY <1>1, <2>1, <2>3, NoticeChanged DEF Took
  <2> HIDE DEF v
  <2>5. /\ \A m \in Notices : m # n => v.inbox[m] = u.inbox[m]
        /\ \A m : InTouch(m, v.missed) => InTouch(m, u.missed)
        /\ u.missed \subseteq v.missed /\ v.effects = u.effects
        /\ v.session = u.session /\ v.asked = u.asked
        /\ v.inbox[n] \in {status, u.inbox[n]}
    BY <2>4, InTouchBefore DEF Took
  <2>6. NoticesAgree(v.doc, v.inbox, v.missed)
    <3>1. NoticesAgree(u.doc, u.inbox, u.missed) /\ u.doc.offered = n
      BY <1>1 DEF Good, Done, Keeps, n
    <3>2. ASSUME NEW m \in Notices, InTouch(m, v.missed)
          PROVE  \A c \in NoticeContexts(u.doc) :
                   c.about = m => v.inbox[m] \notin TerminalStatuses
      BY <2>1, <2>5, <3>1, <3>2 DEF NoticesAgree
    <3> QED BY <2>1, <2>3, <2>4, <3>1, <3>2, ListeningAssumption DEF NoticesAgree
  <2>7. Tracked(v.doc, v.inbox, v.missed)
    <3>1. v.inbox[n] = "queued" => ~Trackable(n, v.missed)
      BY <2>4 DEF Took
    <3> QED BY <2>1, <3>1 DEF Tracked, OneNotice
  <2>8. ASSUME NEW m \in Notices, InTouch(m, t.missed)
        PROVE  /\ t.inbox[m] \in TerminalStatuses => v.inbox[m] = t.inbox[m]
               /\ t.saved.offered = m => v.inbox[m] # "offered"
    <3>1. u.missed = t.missed
      BY DEF Calm
    <3> QED BY <1>1, <2>1, <2>5, <2>8, <3>1 DEF Good, Done, Keeps, TerminalStatuses
  <2>9. Keeps(t, v)
    BY <1>1, <2>4, <2>5, <2>6, <2>7, <2>8 DEF Keeps, Good, Done
  <2>10. AsksWell(t, v)
    BY <1>1, <2>5 DEF Good, AsksWell
  <2>11. \A m \in Notices :
           v.inbox[m] = "consumed" =>
             \/ t.inbox[m] = "consumed"
             \/ /\ v.doc.playing.item = NoticeItem[m]
                /\ NoticeItem[m] \in {doc.playing.item, NextOf(doc.playing.item)}
    BY <1>1, <1>3, <2>3, <2>4, <2>5 DEF n
  <2>12. Saved(v) \/ Unsaved(v, asked)
    BY <2>2 DEF Event
  <2>13. v.session.said = session.said
    BY <1>1, <2>5 DEF Begun
  <2> QED BY <2>9, <2>10, <2>11, <2>12, <2>13, Answered
<1> QED BY <1>2, <1>3

\* The turn that an event of the player takes.
LEMMA EventBegun ==
  ASSUME IInv, NEW w, WorldFit(w)
  PROVE  /\ Begun(Turn(w)) /\ Calm(Turn(w), Turn(w)) /\ Shaped(Turn(w).doc)
         /\ Turn(w).doc.playing = doc.playing
         /\ \A status : Calm(Turn(w), [Turn(w) EXCEPT !.doc.playing.status = status])
<1> DEFINE t == Turn(w)
<1>1. Begun(t) /\ Calm(t, t) /\ Shaped(t.doc)
  BY TurnBegun, CalmIsTurn
<1>2. t.doc.playing = doc.playing
  BY DEF Turn, IInv, Shaped, Migrate, MigrateTo, Forgotten, Agreeing, DropExpired
<1>3. ASSUME NEW status PROVE Calm(t, [t EXCEPT !.doc.playing.status = status])
  BY <1>1, CalmBeside DEF Shaped
<1> QED BY <1>1, <1>2, <1>3

LEMMA EventsAnswered ==
  ASSUME IInv, PlaybackStarted \/ PlaybackNearlyFinished \/ PlaybackProgress
                 \/ PlaybackFinished \/ SuccessorStarted \/ PlaybackFailed
  PROVE  Step
<1> DEFINE t == Turn(Still)
           i == doc.playing.item
<1>1. Begun(t) /\ Calm(t, t) /\ Shaped(t.doc)
  BY WorldsFit, EventBegun
<1>2. \A status : Calm(t, [t EXCEPT !.doc.playing.status = status])
  BY WorldsFit, EventBegun
<1>3. ASSUME NEW status, NEW w \in Settling(status)
      PROVE  /\ Begun(Turn(w)) /\ Calm(Turn(w), Turn(w)) /\ Shaped(Turn(w).doc)
             /\ Turn(w).doc.playing = doc.playing
             /\ \A st : Calm(Turn(w), [Turn(w) EXCEPT !.doc.playing.status = st])
  BY WorldsFit, EventBegun
<1>4. CASE PlaybackStarted
  <2>1. PICK w \in Settling("consumed") :
          Event(ResolveNotice([Turn(w) EXCEPT !.doc.playing.status = "playing"], i, "consumed"))
    BY <1>4 DEF PlaybackStarted
  <2> DEFINE tw == Turn(w)
             u == [tw EXCEPT !.doc.playing.status = "playing"]
  <2>2. Calm(tw, u) /\ Begun(tw)
    BY <1>3
  <2>3. u.doc.playing.item = i
    BY <1>3, <2>2 DEF Begun, Fit, IsTurn, Shaped
  <2>4. Event(ResolveNotice(u, i, "consumed"))
    BY <2>1
  <2> HIDE DEF tw, u
  <2> QED BY <2>2, <2>3, <2>4, ResolvesAnswered
<1>5. CASE PlaybackFailed
  <2>1. PICK w \in Settling("pending") :
          Event(ResolveNotice([Turn(w) EXCEPT !.doc.playing.status = "failed",
                                              !.doc.prepared = FALSE], i, "pending"))
    BY <1>5 DEF PlaybackFailed
  <2> DEFINE tw == Turn(w)
             a == [tw EXCEPT !.doc.playing.status = "failed"]
             b == [a EXCEPT !.doc.prepared = FALSE]
             u == [tw EXCEPT !.doc.playing.status = "failed", !.doc.prepared = FALSE]
  <2>2. Calm(tw, a) /\ Begun(tw)
    BY <1>3
  <2>3. u = b
    BY <1>3 DEF Begun, Fit, IsTurn, Shaped
  <2>4. Event(ResolveNotice(u, i, "pending"))
    BY <2>1
  <2> HIDE DEF a, u, tw
  <2>5. Calm(tw, b)
    BY <2>2, CalmIsTurn, CalmBeside DEF Shaped
  <2> QED BY <2>2, <2>3, <2>4, <2>5, ResolvesAnswered
<1>6. CASE SuccessorStarted
  <2> DEFINE j == NextOf(i)
  <2>1. PICK w \in Settling("consumed") :
          Event(ResolveNotice([Turn(w) EXCEPT
                  !.doc = [StartSession(Turn(w).doc, j) EXCEPT !.playing.status = "playing"]],
                  j, "consumed"))
    BY <1>6 DEF SuccessorStarted
  <2> DEFINE tw == Turn(w)
             a == StartSession(tw.doc, j)
             s == [a EXCEPT !.playing.status = "playing"]
             u == [tw EXCEPT !.doc = s]
  <2>2. Event(ResolveNotice(u, j, "consumed")) /\ Begun(tw) /\ Calm(tw, tw) /\ Shaped(tw.doc)
    BY <1>3, <2>1
  <2> HIDE DEF tw
  <2>3. Mild(tw.doc, a) /\ Shaped(a) /\ a.playing.item = j
    BY <2>2, MildSession, MildShaped
  <2>4. j \in {doc.playing.item, NextOf(doc.playing.item)}
    OBVIOUS
  <2> HIDE DEF a, j
  <2>5. Mild(a, s) /\ s.playing = [a.playing EXCEPT !.status = "playing"]
    BY <2>3, MildBeside DEF Shaped
  <2>6. s.playing.item = j
    BY <2>3, <2>5 DEF Shaped
  <2> HIDE DEF s
  <2>7. Calm(tw, u) /\ u.doc = s
    BY <2>2, <2>3, <2>5, MildTrans, CalmDoc DEF Begun, Fit, IsTurn
  <2> HIDE DEF u
  <2> QED BY <2>2, <2>4, <2>6, <2>7, ResolvesAnswered
<1>7. CASE PlaybackNearlyFinished
  <2>1. Event([t EXCEPT !.doc.prepared = TRUE])
    BY <1>7 DEF PlaybackNearlyFinished
  <2>2. Calm(t, [t EXCEPT !.doc.prepared = TRUE])
    BY <1>1, CalmBeside DEF Shaped
  <2> QED BY <1>1, <2>1, <2>2, CalmEvent
<1>8. CASE PlaybackProgress
  <2> DEFINE s == Heard(t.doc, i)
  <2>1. Event([t EXCEPT !.doc = s])
    BY <1>8 DEF PlaybackProgress
  <2>2. Mild(t.doc, s)
    BY <1>1, MildPublication
  <2> HIDE DEF s, t
  <2> QED BY <1>1, <2>1, <2>2, CalmDoc, CalmEvent
<1>9. CASE PlaybackFinished
  <2> DEFINE a == [t EXCEPT !.doc.playing.status = "completed"]
             r == IF scenario.sourced THEN SaveCompletedSource(a.doc, i) ELSE a.doc
             s == RateFinished(r, i)
  <2>1. Event([a EXCEPT !.doc = s])
    BY <1>9 DEF PlaybackFinished
  <2>2. Calm(t, a) /\ Shaped(a.doc)
    BY <1>2, CalmIsTurn
  <2> HIDE DEF a, t
  <2>3. Mild(a.doc, r) /\ Shaped(r)
    BY <2>2, MildPublication, MildSelf, MildShaped
  <2> HIDE DEF r
  <2>4. Mild(a.doc, s)
    BY <2>3, MildFinished, MildTrans
  <2> HIDE DEF s
  <2> QED BY <1>1, <2>1, <2>2, <2>4, CalmDoc, CalmEvent
<1> QED BY <1>4, <1>5, <1>6, <1>7, <1>8, <1>9

LEMMA WaitAnswered == ASSUME IInv, Wait PROVE Step
<1> DEFINE s == [doc EXCEPT !.active = Aged(doc.active), !.fresh.search = Less(doc.fresh.search),
                            !.fresh.ambiguity = Less(doc.fresh.ambiguity)]
<1>1. doc' = s /\ UNCHANGED <<inbox, missed, scenario>> /\ last' = {} /\ session' = NoSession
      /\ asked'.kind = "closed"
  BY DEF Wait, Silence
<1>2. /\ DOMAIN s = DOMAIN doc /\ s.pending = doc.pending /\ s.offered = doc.offered
      /\ s.active = Aged(doc.active) /\ s.playing = doc.playing
  BY DEF IInv, Shaped
<1>3. DOMAIN s.active = DOMAIN doc.active /\ s.active.type = doc.active.type
      /\ s.active.context = doc.active.context
  BY <1>2 DEF Aged, IInv, Shaped
<1> HIDE DEF s
<1>4. Mild(doc, s)
  BY <1>2, <1>3 DEF Mild, Shaped, NoticeContexts, IInv
<1>5. Shaped(s) /\ NoticesAgree(s, inbox, missed) /\ Tracked(s, inbox, missed)
  BY <1>4, MildShaped, MildAgrees DEF IInv, TalkInv
<1> QED BY <1>1, <1>5 DEF Step, IInv, NoSession

-----------------------------------------------------------------------------
(* Theorems. *)

LEMMA Stepped == ASSUME IInv, Next PROVE Step
BY RefuseAnswered, GatesAnswered, ChoicesAnswered, RatingsAnswered, StopsAnswered,
     PhrasesAnswered, NamesAnswered, LaunchAnswered, EndAnswered, EventsAnswered,
     WaitAnswered DEF Next

LEMMA InitIsSound == Init => IInv
<1> SUFFICES ASSUME Init PROVE IInv
  OBVIOUS
<1>1. Shaped(doc) /\ doc.offered = NoNotice /\ NoticeContexts(doc) = {}
  BY DEF Init, Shaped, NoDialog, NoticeContexts, Held
<1>2. DOMAIN inbox = Notices /\ \A n \in Notices : inbox[n] = "pending"
  BY DEF Init
<1>3. DOMAIN session = {"known", "said"} /\ asked.kind = "closed" /\ scenario \in Scenarios
  BY DEF Init, NoSession, Silence
<1>4. NoticesAgree(doc, inbox, missed) /\ Tracked(doc, inbox, missed)
  BY <1>1, <1>2, ListeningAssumption DEF NoticesAgree, Tracked
<1> QED BY <1>1, <1>2, <1>3, <1>4 DEF IInv, TalkInv, FollowIsOpen

LEMMA NextIsSound == IInv /\ [Next]_vars => IInv'
<1> SUFFICES ASSUME IInv, [Next]_vars PROVE IInv'
  OBVIOUS
<1>1. CASE Next
  <2>1. Step
    BY <1>1, Stepped
  <2> QED BY <2>1 DEF Step, IInv, TalkInv, FollowIsOpen, NoticesAgree, NoticeContexts, Tracked,
                      Shaped
<1>2. CASE UNCHANGED vars
  BY <1>2 DEF vars, IInv, TalkInv, FollowIsOpen, NoticesAgree, NoticeContexts, Tracked, Shaped
<1> QED BY <1>1, <1>2

LEMMA TalkIsSound == Spec => []IInv
BY InitIsSound, NextIsSound, PTL DEF Spec

\* Whatever comes late and whichever status updates and saves fail, a notice that was
\* played, declined, or found to have nothing behind it keeps its status: no answer and no
\* event of the player changes it, unless the backend never learned that the notice was
\* accepted, or the document was not saved with what the backend learned of it
\* (models/notifications.py, alexa/notifications.py, middleware/persistence.py).
THEOREM NoticesStaySettled == Spec => NoticeStaysSettled
<1>1. IInv /\ [Next]_vars =>
        [\A n \in Notices :
           inbox[n] \in TerminalStatuses /\ InTouch(n, missed) => inbox'[n] = inbox[n]]_vars
  <2> SUFFICES ASSUME IInv, Next
               PROVE  \A n \in Notices :
                        inbox[n] \in TerminalStatuses /\ InTouch(n, missed) =>
                          inbox'[n] = inbox[n]
    OBVIOUS
  <2>1. Step
    BY Stepped
  <2> QED BY <2>1 DEF Step
<1> QED BY <1>1, TalkIsSound, PTL DEF Spec, NoticeStaysSettled

\* A notice counts as consumed only in the step that its own recording starts in.
THEOREM OnlyPlayedIsConsumed == Spec => ConsumedWasPlayed
<1>1. IInv /\ [Next]_vars =>
        [\A n \in Notices :
           inbox[n] # "consumed" /\ inbox'[n] = "consumed" =>
             \/ doc'.playing.item = NoticeItem[n]
             \/ doc' = doc /\ NextOf(doc.playing.item) = NoticeItem[n]]_vars
  <2> SUFFICES ASSUME IInv, Next
               PROVE  \A n \in Notices :
                        inbox[n] # "consumed" /\ inbox'[n] = "consumed" =>
                          \/ doc'.playing.item = NoticeItem[n]
                          \/ doc' = doc /\ NextOf(doc.playing.item) = NoticeItem[n]
    OBVIOUS
  <2>1. Step
    BY Stepped
  <2> QED BY <2>1 DEF Step
<1> QED BY <1>1, TalkIsSound, PTL DEF Spec, ConsumedWasPlayed

\* Where the inbox has one notice, the one that waits for its recording is the one
\* that the document tracks, unless the backend did not learn how the playing went, or
\* the document was not saved with what the backend learned.
THEOREM QueuedStaysTracked == OneNotice => (Spec => []QueuedIsTracked)
<1>1. OneNotice /\ IInv => QueuedIsTracked
  BY DEF IInv, Tracked, QueuedIsTracked
<1>2. ASSUME OneNotice PROVE Spec => []QueuedIsTracked
  <2>1. IInv => QueuedIsTracked
    BY <1>1, <1>2
  <2> QED BY <2>1, TalkIsSound, PTL
<1> QED BY <1>2

\* However late the backend learns of it, a listener who has followed the source in
\* this session is neither asked to follow it nor made to follow it again, and one who
\* has unfollowed it does not unfollow it again (following_state.py, follow.py).
THEOREM FollowedAtMostOnce == Spec => FollowedOnce
<1>1. IInv /\ [Next]_vars =>
        [/\ session.said = "has" =>
              asked'.kind # "follow" /\ \A e \in last' : e[1] # "follow"
         /\ session.said = "lacks" => \A e \in last' : e[1] # "unfollow"]_vars
  <2> SUFFICES ASSUME IInv, Next
               PROVE  /\ session.said = "has" =>
                           asked'.kind # "follow" /\ \A e \in last' : e[1] # "follow"
                      /\ session.said = "lacks" => \A e \in last' : e[1] # "unfollow"
    OBVIOUS
  <2>1. Step
    BY Stepped
  <2> QED BY <2>1 DEF Step
<1> QED BY <1>1, TalkIsSound, PTL DEF Spec, FollowedOnce

\* Of whatever phrase the resolver reports, what is meant and what is searched for are
\* sound (RankingIsSound and SearchIsSound say so of the operators).
THEOREM HeardPhrasesAreSound == Spec => PhrasesSound
<1>1. IInv /\ [Next]_vars =>
        [\A e \in last' : e[1] = "heard" =>
           /\ SoundRanking(Rank(e[2].entities))
           /\ \A prefer \in BOOLEAN :
                SoundPayload(Payload(e[2].entities, e[2].service, prefer))]_vars
  <2> SUFFICES ASSUME IInv, Next, NEW e \in last', e[1] = "heard"
               PROVE  /\ SoundRanking(Rank(e[2].entities))
                      /\ \A prefer \in BOOLEAN :
                           SoundPayload(Payload(e[2].entities, e[2].service, prefer))
    OBVIOUS
  <2>1. e[2] \in Reported
    BY Stepped DEF Step
  <2>2. e[2].entities \in SUBSET Entity /\ IsFiniteSet(e[2].entities)
        /\ e[2].service \in Service
    BY <2>1, ConversationAssumption
  <2>3. SoundRanking(Rank(e[2].entities))
    BY <2>2, RankingIsSound
  <2>4. \A prefer \in BOOLEAN : SoundPayload(Payload(e[2].entities, e[2].service, prefer))
    BY <2>2, SearchIsSound
  <2> QED BY <2>3, <2>4
<1> QED BY <1>1, TalkIsSound, PTL DEF Spec, PhrasesSound
=============================================================================
