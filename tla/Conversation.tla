----------------------------- MODULE Conversation -----------------------------
(***************************************************************************)
(* The conversation with one listener: requests routed through the gates   *)
(* of the registry, in its order, to the handlers of Listening, Finding    *)
(* and Setup.  A request is one step: the document is loaded and migrated, *)
(* one handler answers, and the document is saved (ListenerStore shows     *)
(* that a request's changes commit as a whole).                            *)
(*                                                                         *)
(* A scenario bounds what the listener says in a behaviour, which notices  *)
(* there are, and whether recordings play; the gates and handlers are the  *)
(* same in all of them.                                                    *)
(***************************************************************************)
EXTENDS Setup

CONSTANTS
  Scenarios,   \* [listener: "new", "known" or "settled",
               \*  plays: the recordings that may be asked for, if any play,
               \*  sourced: recordings name their source,
               \*  notices: the notices for the listener, says: intents,
               \*  follows: what the backend may answer of whom the listener follows,
               \*  fails: the status updates that may fail, and "save"]
  Reported,    \* what the resolver may report of a phrase
  PlaceSearch  \* what the name of a place is taken for, when none is asked for

\* What dialogues are about: a recording, its subject, or a notice; a search; the
\* meanings of a phrase.
AboutContexts ==
  [about : Subjects \union Items \union Notices \union {NoItem}, item : Items \union {NoItem},
   requested : BOOLEAN, completed : BOOLEAN, unclear : 0..1, resume : BOOLEAN]
Resolutions == [search : Searches, choice : BOOLEAN, unclear : 0..1]
MeaningContexts == [options : {Meanings}, offset : 0..Len(Meanings)]

ASSUME ConversationAssumption ==
  /\ NoContext \notin AboutContexts
  /\ PlaceSearch \in Searches /\ KindOf[PlaceSearch] = "location"
  /\ \A s \in Scenarios :
       /\ s.plays \subseteq Items /\ s.notices \subseteq Notices
       /\ s.follows \subseteq Standings \union {"down"}
  /\ \A p \in Reported :
       p.entities \subseteq Entity /\ IsFiniteSet(p.entities) /\ p.service \in Service

VARIABLES
  doc,      \* the listener's document
  inbox,    \* the backend's status of each notice
  session,  \* the attributes of the session that is open
  asked,    \* the question that the last answer ended with, while its session is open
  last,     \* history: the effects of the last request
  missed,   \* history: what the backend or the document never learned of a notice
  scenario  \* the scenario

vars == <<doc, inbox, session, asked, last, missed, scenario>>

-----------------------------------------------------------------------------
(* What a request depends on: what the inbox lists, whether the creator is *)
(* followed, what the catalogue and the resolver answer, and what the      *)
(* device's settings are.                                                  *)

Still == [notice |-> NoNotice, following |-> "down", search |-> "plays", listing |-> "answers",
          lookup |-> "match", device |-> "resolved", scopes |-> TRUE, heard |-> "nothing",
          lost |-> {}]

\* Which of the status updates ss a request may lose.
Losses(ss) == SUBSET (ss \intersect scenario.fails)

Inboxes ==
  {Still} \union
  {[Still EXCEPT !.notice = n, !.lost = l] : n \in scenario.notices, l \in Losses({"offered"})}
Follows == {[w EXCEPT !.following = a] : w \in Inboxes, a \in scenario.follows}
Searched == {[Still EXCEPT !.search = a] : a \in {"plays", "fails", "empty", "breaks"}}
Catalogues ==
  Searched \union {[Still EXCEPT !.search = a, !.listing = "down"] : a \in {"plays", "empty"}}

\* What the backend is told of a notice that is accepted, by what its search comes to.
Outcomes(search) ==
  {"resolving"} \union
  CASE search = "plays" -> {"queued"}
    [] search = "fails" -> {"pending"}
    [] search = "empty" -> {"unavailable"}
    [] OTHER -> {"queued", "pending"}

Accepting == UNION {{[w EXCEPT !.lost = l] : l \in Losses(Outcomes(w.search))} : w \in Searched}
Settling(status) == {[Still EXCEPT !.lost = l] : l \in Losses({status})}
Listings == {[Still EXCEPT !.listing = l] : l \in {"answers", "down"}}
Lookups == {[Still EXCEPT !.lookup = a] : a \in {"match", "several", "none", "down"}}
Heards == {[Still EXCEPT !.heard = p] : p \in Reported}
Devices ==
  {[Still EXCEPT !.device = d] : d \in {"denied", "other"}} \union {[Still EXCEPT !.scopes = FALSE]}

Turn(world) ==
  [doc |-> Migrate(doc), saved |-> doc, session |-> Hydrate(session, world.following),
   inbox |-> inbox, asked |-> asked, effects |-> {}, missed |-> missed, world |-> world]

SessionAfter(t, question) == IF question.kind = "closed" THEN NoSession ELSE t.session

Saved(t) ==
  /\ doc' = t.doc
  /\ inbox' = t.inbox
  /\ session' = SessionAfter(t, t.asked)
  /\ asked' = t.asked
  /\ last' = t.effects
  /\ missed' = t.missed
  /\ UNCHANGED scenario

\* What there is to save is not, the events that were staged included; the backend
\* has taken the status of a notice all the same.  (An offer leaves nothing to lose.)
Unsaved(t, question) ==
  /\ "save" \in scenario.fails
  /\ t.doc # doc \/ t.effects # {}
  /\ inbox' = t.inbox
  /\ session' = SessionAfter(t, question)
  /\ asked' = question
  /\ last' = {}
  /\ missed' = t.missed \union
       {<<n, "document">> : n \in {m \in Notices : t.inbox[m] \notin {inbox[m], "offered"}}}
  /\ UNCHANGED <<doc, scenario>>

\* What the listener hears when a request has failed, and the session stays open.
Apology == [kind |-> "idle", about |-> NoItem]
Silence == [kind |-> "closed", about |-> NoItem]

Answers(t) == Saved(t) \/ Unsaved(t, Apology)

-----------------------------------------------------------------------------
(* What the listener may say: an intent, and what it names.                *)

Choosing(s) == s.active.type = "availability" /\ s.active.context # NoContext

SessionOpen == asked.kind # "closed"
ListOpen == Choosing(Migrate(doc))
ChoicesOpen == ListOpen \/ Waits(Migrate(doc))

\* Yes and no answer a question.  A phrase in the listener's own words opens the
\* session and follows nothing else, which bounds them to one.  What paging and
\* choosing do without any choices is not modelled.
Sayable(intent) ==
  /\ intent \in scenario.says
  /\ intent \in {"Yes", "No"} => SessionOpen
  /\ intent = "Words" => ~SessionOpen /\ last = {}
  /\ intent \in {"More", "Previous", "Dismiss"} => ChoicesOpen
  /\ intent = "Choose" => ListOpen

NamedIn(intent) ==
  CASE intent \in {"Search", "Newspaper", "Publication", "FindNewspaper", "FindPublication",
                   "FindCreator"} -> Searches \ Editions
    [] intent = "AnySource" -> {"organization", "repair", "publication", "creator", "again"}
    [] intent = "Several" -> {"phrase"}
    [] intent = "Creators" -> {DeviceTown, NoItem}
    [] intent \in {"Town", "SetLocation"} -> Replies
    [] intent = "Choose" -> Entries(Displayed(Migrate(doc).active.context)) \union {NoItem}
    [] OTHER -> {NoItem}

Spoken(intent) ==
  IF Sayable(intent) THEN {[intent |-> intent, about |-> x] : x \in NamedIn(intent)} ELSE {}

-----------------------------------------------------------------------------
(* DialogValidationPolicy: what the dialogue that is live lets through.    *)

Exits == {"Stop", "Cancel"}
Binary == Exits \union {"Yes", "No"}
Transport == {"Next", "Resume"}
Ratings == {"Enjoyed", "Somewhat", "NotEnjoyed", "Rate", "SkipFeedback", "Response"}

\* Intents whose words the resolver is asked about.
Phrases ==
  {"Search", "Several", "Words", "AnySource", "Newspaper", "Publication", "FindNewspaper",
   "FindPublication", "FindCreator", "Local", "Creators", "Town", "SetLocation"}

\* Dialogues that wait for a name.
Captured == {"creator_location", "organization_name", "publication_source"}

Accepted(s, says) ==
  LET k == s.active.type
      intent == says.intent
  IN  /\ k = "feedback" => intent \in Binary \union Ratings \union Transport
                                         \union {"Report", "HearNotices"}
      /\ k = "notification" => intent \in Binary \union Transport
      /\ k = "feedback_continuation" => intent \in Binary \union {"Next"}
      /\ k \in {"help", "resume", "search_confirmation", "latest_source", "asr_repair"} =>
           intent \in Binary
      /\ k = "report_decision" => intent \in Binary \union {"Report", "SkipFeedback", "Next"}
      /\ k = "ambiguity" =>
           \/ intent \in Exits \union {"No", "Next", "More", "Previous", "Dismiss", "Clarify",
                                       "SkipFeedback", "Rate", "Report"}
           \/ intent = "Search" /\ says.about \in Meant
      /\ k \in Captured =>
           intent \in Exits \union {"Words"} \/ says.about \notin {NoItem, "nothing"}
      /\ k = "onboarding" /\ s.stage # "ask_town" =>
           intent \in Binary \union {"Town", "SetLocation", "SkipFeedback", "Next"}

\* The publication that a phrase names was asked about, and the answer before
\* was not clear either: that counts as a yes.
ChoiceUnclearTwice(s) ==
  LET c == s.active.context
  IN  s.active.type = "search_confirmation" /\ c # NoContext /\ c.choice /\ c.unclear >= 1

\* The question is asked again; the second unclear answer to a rating ends it, and
\* so does the first to the name of a source.
Reject(t, intent) ==
  LET k == t.doc.active.type
      c == t.doc.active.context
      choice == k = "search_confirmation" /\ c # NoContext /\ c.choice
      s == CASE k = "feedback" -> NoteUnrecognised(t.doc)
             [] choice -> [t.doc EXCEPT !.active.context.unclear = 1]
             [] OTHER -> t.doc
      u == [t EXCEPT !.doc = s]
  IN  IF s.active = NoDialog THEN Idle(u)
      ELSE IF k \in Captured \ {"creator_location"} /\ intent = "Unclear"
      THEN Idle([u EXCEPT !.doc = Clear(@, {k})])
      ELSE CASE k = "search_confirmation" /\ c # NoContext -> Says(u, k, c.search)
             [] k = "creator_location" -> Says(u, "creator_city", NoItem)
             [] k = "onboarding" /\ s.stage = "ask_permission" -> Says(u, "permission", NoItem)
             [] k = "onboarding" /\ s.stage # "ask_permission" ->
                  Says(u, "confirm_city", s.setup.candidate)
             [] k \in {"help", "ambiguity"} -> Says(u, k, NoItem)
             [] OTHER -> Says(u, k, IF c = NoContext THEN NoItem ELSE c.about)

Refused(says) == ~Accepted(Migrate(doc), says)

SaidUnclearly == \E intent \in scenario.says : \E says \in Spoken(intent) : Refused(says)

Refuse ==
  /\ ~ChoiceUnclearTwice(Migrate(doc))
  /\ \E intent \in scenario.says : \E says \in Spoken(intent) :
       Refused(says) /\ Answers(Reject(Turn(Still), intent))

\* The requests for an intent that reach the gates.
Hears(intent) ==
  {says \in Spoken(intent) : ~Refused(says)}
    \union (IF intent = "Yes" /\ ChoiceUnclearTwice(Migrate(doc)) /\ SaidUnclearly
            THEN {[intent |-> "Yes", about |-> NoItem]} ELSE {})

-----------------------------------------------------------------------------
(* The gates, in the order of the registry.  Who takes a request is decided *)
(* by the document that it loaded, as the interceptors leave it.            *)

\* The resolver hears a phrase before any handler does, and a list of choices
\* is then passed by.
Intercepted(s, intent) ==
  IF intent \in Phrases THEN DropStaleMeanings(EndChoices(s))
  ELSE IF intent \in {"Unclear", "Clarify"} THEN DropStaleMeanings(s)
  ELSE s

\* FeedbackGate, for an intent that it lets through: questions that the
\* listener has passed over are no longer open.
Settle(s, intent) ==
  IF intent \in Exits \/ RatingAsked(s) THEN s
  ELSE IF s.follow
  THEN [s EXCEPT !.follow = intent \in {"Follow", "Unfollow", "Followed", "No"}]
  ELSE IF intent \in {"Report", "SkipFeedback", "No"} THEN s
  ELSE Lower(s, "report_decision")

Passed(s, intent) == Settle(Intercepted(s, intent), intent)

ChoicesTake(s, intent) ==
  Choosing(s) /\ intent \notin Exits \union Phrases \union {"Rate", "Report"}

SkipTakes(s, intent) ==
  intent = "Next"
    /\ s.flags \intersect {"feedback", "report_decision", "feedback_continuation"} # {}

ProfileTakes(s, intent) == s.setup.permission /\ intent \in {"SkipFeedback", "Next"}

CaptureTakes(s, intent) ==
  CapturingTown(s)
    /\ intent \in Phrases \union {"Unclear", "Clarify", "No", "SkipFeedback", "Next", "Cancel"}

\* Of a document as it was loaded, and as the interceptors leave it.
TakerOf(loaded, s, intent) ==
  IF ChoicesTake(loaded, intent) THEN "choices"
  ELSE IF SkipTakes(loaded, intent) THEN "skip"
  ELSE IF ProfileTakes(s, intent) THEN "profile"
  ELSE IF CaptureTakes(s, intent) /\ intent \in Phrases THEN "capture"
  ELSE IF GateTakes(s, intent) THEN "setup"
  ELSE IF CaptureTakes(s, intent) THEN "capture"
  ELSE IF s.active.type = "creator_location" /\ intent \in Phrases THEN "creators"
  ELSE IF s.active.type \in Captured /\ intent \in Phrases THEN "names"
  ELSE "handler"

Taker(intent) == TakerOf(Migrate(doc), Passed(Migrate(doc), intent), intent)

\* A request that taker answers, whatever its intent.
Taken(taker, worlds, Answer(_, _)) ==
  \E intent \in scenario.says :
    /\ Taker(intent) = taker
    /\ \E says \in Hears(intent), w \in worlds :
         Answers(Answer([Turn(w) EXCEPT !.doc = Passed(@, intent)], says))

SkipGate ==
  /\ Sayable("Next") /\ Taker("Next") = "skip" /\ Hears("Next") # {}
  /\ \E w \in Inboxes : Answers(Skip(Turn(w), TRUE))

ProfileGate ==
  /\ doc.setup.permission
  /\ Taken("profile", {Still}, LAMBDA t, says : FinalizeProfileSkipped(t))

\* The town that a reply names: what else is said is heard as a town, too.
ReplyOf(says) ==
  CASE says.intent \in {"Town", "SetLocation"} -> says.about
    [] says.about = NoItem -> "nothing"
    [] OTHER -> "content"

\* TownCaptureHandler.
TownCaptureGate ==
  /\ doc.stage = "ask_town"
  /\ Taken("capture", Lookups, LAMBDA t, says :
       IF says.intent \in {"No", "SkipFeedback", "Next", "Cancel"} THEN FinalizeTownSkipped(t)
       ELSE CaptureTown(t, ReplyOf(says)))

OnboardingGate ==
  /\ IsNew(doc)
  /\ Taken("setup", Devices \union Lookups, LAMBDA t, says :
       Gate(t, says.intent, ReplyOf(says)))

CreatorCityGate ==
  /\ doc.active.type = "creator_location"
  /\ Taken("creators", Lookups \union Listings, LAMBDA t, says : BeginCreators(t, DeviceTown))

NameGate ==
  /\ doc.active.type \in Captured
  /\ Taken("names", Lookups \union Searched, LAMBDA t, says :
       IF says.intent = "Several" THEN DiscoverSeveral(t)
       ELSE AnswerName(t, t.doc.active.type, says.about))

-----------------------------------------------------------------------------
(* AvailabilityDialogHandler, for an intent that is no phrase.             *)

AtChoices(intents, worlds, Answer(_, _)) ==
  /\ doc.active.type = "availability"
  /\ \E intent \in intents \intersect scenario.says :
       /\ Taker(intent) = "choices"
       /\ \E says \in Hears(intent), w \in worlds : Answers(Answer(Turn(w), says))

MoreChoices == AtChoices({"More", "Next"}, Listings, LAMBDA t, says : More(t))
PreviousChoices == AtChoices({"Previous"}, Listings, LAMBDA t, says : Previous(t))
OneChoice == AtChoices({"Choose"}, Catalogues, LAMBDA t, says : Choose(t, says.about))
YesToChoices == AtChoices({"Yes"}, Catalogues, LAMBDA t, says : ChooseYes(t))
NoToChoices == AtChoices({"No"}, Searched, LAMBDA t, says : ChooseNo(t))
NoneOfThem == AtChoices({"Dismiss"}, {Still}, LAMBDA t, says : NothingThere(t))

NoChoice ==
  AtChoices(scenario.says \ {"More", "Next", "Previous", "Choose", "Yes", "No", "Dismiss"},
            {Still}, LAMBDA t, says : Reread(t))

-----------------------------------------------------------------------------
(* A request that no gate takes is answered by the handler of its intent.  *)

Handled(intent, worlds, Handle(_, _)) ==
  /\ intent \in scenario.says /\ Taker(intent) = "handler"
  /\ \E says \in Hears(intent), w \in worlds :
       Answers(Handle([Turn(w) EXCEPT !.doc = Passed(@, intent)], says.about))

Handles(intent, worlds, Handle(_)) ==
  /\ intent \in scenario.says /\ Taker(intent) = "handler" /\ Hears(intent) # {}
  /\ \E w \in worlds :
       Answers(Handle([Turn(w) EXCEPT !.doc = Passed(@, intent)]))

SearchWaits(s) ==
  s.active.type = "search_confirmation"
    \/ (s.active.type = "none" /\ "search_confirmation" \in s.flags)

Affirm(t) ==
  LET k == t.doc.active.type
      setup == t.doc.setup
  IN  IF k = "help" THEN Idle([t EXCEPT !.doc = Clear(@, {"help"})])
      ELSE IF setup.consent THEN StartProfile(t)
      ELSE IF k = "asr_repair" THEN RepairYes(t)
      ELSE IF k = "latest_source" THEN PlayLatest(t)
      ELSE IF k = "notification" THEN Accept(t)
      ELSE IF k = "feedback_continuation" THEN ContinueQueue(t)
      ELSE IF SearchWaits(t.doc) THEN ConfirmSearch(t)
      ELSE IF setup.candidate # NoTown THEN ConfirmLocation(t)
      ELSE IF setup.community THEN PlayCommunity(t)
      ELSE IF k = "resume" THEN ResumeYes(t)
      ELSE IF setup.permission THEN StartProfile(t)
      ELSE IF t.doc.keep THEN Restart([t EXCEPT !.doc.keep = FALSE])
      ELSE IF k = "feedback" THEN Enjoyed(t)
      ELSE IF t.doc.follow THEN Follow(t)
      ELSE Idle(t)

\* Unlike a yes, a no is for the dialogue before it is for the profile.
Deny(t) ==
  LET k == t.doc.active.type
      setup == t.doc.setup
      unconsented == [t EXCEPT !.doc.setup.consent = FALSE, !.doc.setup.community = FALSE]
  IN  IF k = "help" THEN Idle([t EXCEPT !.doc = Clear(@, {"help"})])
      ELSE IF k = "ambiguity" THEN Idle([t EXCEPT !.doc = DismissAmbiguity(@)])
      ELSE IF k = "asr_repair" THEN RepairNo(t)
      ELSE IF k = "latest_source" THEN Idle([t EXCEPT !.doc = CloseLatest(@)])
      ELSE IF k = "notification" THEN Decline(t)
      ELSE IF SearchWaits(t.doc) THEN DeclineSearch(t)
      ELSE IF setup.candidate # NoTown THEN DeclineTown(t)
      ELSE IF setup.community THEN Idle([t EXCEPT !.doc.setup.community = FALSE])
      ELSE IF k = "report_decision" THEN Skip(t, FALSE)
      ELSE IF k = "feedback_continuation" THEN DeclineContinuation(t)
      ELSE IF k = "feedback" THEN NotEnjoyed(t)
      ELSE IF k = "resume" THEN ResumeNo(t)
      ELSE IF setup.consent THEN Idle(unconsented)
      ELSE IF setup.permission THEN FinalizeProfileSkipped(t)
      ELSE IF t.doc.keep THEN PlayNext([t EXCEPT !.doc.keep = FALSE])
      ELSE IF t.doc.follow THEN FollowUp([t EXCEPT !.doc = ClearFeedback(@)])
      ELSE Idle(t)

\* What the document holds of a notice, by itself or as its dialogue.
NoticeContexts(s) ==
  ({s.pending["notification"]}
     \union (IF s.active.type = "notification" THEN {s.active.context} ELSE {})) \ {NoContext}

NoticeHeld == NoticeContexts(Migrate(doc)) # {}

\* The device is asked about in a setup only, and the status of a notice updated only
\* when one is held.
Yes == Handles("Yes", Follows \union Catalogues
                        \union (IF NoticeHeld THEN Accepting ELSE {})
                        \union (IF doc.setup = NothingSetUp THEN {} ELSE Devices), Affirm)

No == Handles("No", Inboxes \union Searched
                      \union (IF NoticeHeld THEN Settling("dismissed") ELSE {}), Deny)

-----------------------------------------------------------------------------
(* What the listener says about a recording.                               *)

SayEnjoyed == Handles("Enjoyed", Follows, Enjoyed)
SaySomewhat == Handles("Somewhat", Inboxes, Somewhat)
SayNotEnjoyed == Handles("NotEnjoyed", {Still}, NotEnjoyed)
SaySkip == Handles("SkipFeedback", Inboxes, LAMBDA t : Skip(t, FALSE))
SayNext == Handles("Next", Listings, LAMBDA t :
  IF Waits(t.doc) THEN MoreMeanings(t) ELSE PlayNext(t))
SayResume == Handles("Resume", {Still}, Restart)
SayRate == Handles("Rate", {Still}, RequestRating)
SayReport == Handles("Report", {Still}, ReportContent)
SayFollow == Handles("Follow", Follows, Follow)
SayUnfollow == Handles("Unfollow", Follows, Unfollow)

\* FollowCreatorIntent, in words that ask to play.
SayFollowed == Handles("Followed", Follows, PlayFollowed)
SayHearNotices == Handles("HearNotices", Inboxes, LAMBDA t : Offer(t, TRUE, Idle(t)))

\* A phrase for a rating that is not one.
SayResponse == Handles("Response", {Still}, LAMBDA t :
  IF RatingAsked(t.doc) THEN Reject(t, "Response") ELSE Says(t, "feedback", NoItem))

\* An intent that is played at once: what is new, what is popular.  What follows the
\* first recording in the queue plays after it.
SayPlay == \E i \in scenario.plays : Handles("Play", {Still}, LAMBDA t : Start(t, i))

SayTrending == Handles("Trending", Searched, LAMBDA t : HearFound(t, "trending"))
SayRecommend == Handles("Recommend", Listings, BeginRecommended)

SayHelp == Handles("Help", {Still}, LAMBDA t :
  Says([t EXCEPT !.doc = Activate(@, "help", NoContext)], "help", NoItem))

SayUnclear == Handles("Unclear", {Still}, Idle)

SayStop == Handles("Stop", {Still}, LAMBDA t :
  Closes(PauseActive([t EXCEPT !.doc = ClearTransient(@)])))

SayCancel == Handles("Cancel", {Still}, LAMBDA t :
  Closes([t EXCEPT !.doc = ClearTransient(@)]))

-----------------------------------------------------------------------------
(* What the listener asks for.                                             *)

SaySearch == Handled("Search", Lookups \union Catalogues, Discover)

\* A phrase that may mean several things.
SaySeveral == Handles("Several", Lookups, DiscoverSeveral)

\* A phrase in the listener's own words.
SayWords == Handles("Words", Heards, DiscoverWords)

SayAnySource == Handled("AnySource", {Still}, AnySource)
SayNewspaper == Handled("Newspaper", Lookups \union Listings, LAMBDA t, q :
  PlaySource(t, "organization", q))
SayPublication == Handled("Publication", Lookups \union Catalogues, LAMBDA t, q :
  PlaySource(t, "publication", q))
SayFindNewspaper == Handled("FindNewspaper", Lookups, LAMBDA t, q :
  FindSource(t, "organization", q))
SayFindPublication == Handled("FindPublication", Lookups, LAMBDA t, q :
  FindSource(t, "publication", q))
SayFindCreator == Handled("FindCreator", Lookups, LAMBDA t, q : FindSource(t, "creator", q))

SayLocal == Handles("Local", Listings, BeginLocal)

SayCreators == Handled("Creators", Lookups \union Listings, LAMBDA t, about :
  BeginCreators(t, IF about = NoItem THEN NoTown ELSE about))

\* A town that is not asked for is a phrase like any other.
SayTown == Handled("Town", Lookups \union Listings, LAMBDA t, about :
  IF LocationActive(t.doc) THEN CaptureTown(t, about) ELSE Discover(t, PlaceSearch))

SaySetLocation == Handled("SetLocation", Lookups \union Listings, LAMBDA t, about :
  IF LocationActive(t.doc) \/ about = "nothing" THEN SetLocation(t, about)
  ELSE Discover(t, PlaceSearch))

SaySetUpAccount == Handles("SetUpAccount", {Still}, AskProfileSetup)

SayMore == Handles("More", {Still}, MoreMeanings)
SayPrevious == Handles("Previous", {Still}, PreviousMeanings)
SayDismiss == Handles("Dismiss", {Still}, LAMBDA t :
  Idle([t EXCEPT !.doc = DismissAmbiguity(@)]))
SayClarify == Handles("Clarify", {Still}, Unmatched)

-----------------------------------------------------------------------------
(* Launch, and the end of a session.                                       *)

Known(t) == [t EXCEPT !.doc = [RepairSetup(@) EXCEPT !.known = TRUE]]

\* A rating that is asked for meets the FeedbackGate, a new listener the
\* OnboardingGate.
Launch ==
  /\ "Launch" \in scenario.says
  /\ \E w \in Follows :
       LET t == [Turn(w) EXCEPT !.session = Hydrate(NoSession, w.following)]
       IN  Answers(IF RatingAsked(t.doc)
                   THEN Says(t, "feedback", t.doc.pending["feedback"].about)
                   ELSE IF IsNew(t.doc) THEN AskForPermission(t)
                   ELSE LaunchReturning(Known(t)))

EndSession ==
  /\ SessionOpen
  /\ LET t == Closes([Flush(Turn(Still)) EXCEPT !.doc = ClearTransient(@)])
     IN  Saved(t) \/ Unsaved(t, Silence)

-----------------------------------------------------------------------------
(* AudioPlayer requests.                                                   *)

\* The document of an event is loaded and saved like any other.
Event(t) == scenario.plays # {} /\ (Saved(t) \/ Unsaved(t, asked))

PlaybackStarted ==
  /\ doc.playing.status = "starting"
  /\ \E w \in Settling("consumed") :
       Event(ResolveNotice([Turn(w) EXCEPT !.doc.playing.status = "playing"],
                           doc.playing.item, "consumed"))

PlaybackNearlyFinished ==
  /\ doc.playing.status = "playing" /\ ~doc.prepared
  /\ NextOf(doc.playing.item) # NoItem
  /\ Event([Turn(Still) EXCEPT !.doc.prepared = TRUE])

\* A progress report past the middle of a track.
PlaybackProgress ==
  /\ doc.playing.status = "playing"
  /\ doc.playing.item \in Tracks \ doc.progress
  /\ Event([Turn(Still) EXCEPT !.doc = Heard(@, doc.playing.item)])

PlaybackFinished ==
  /\ doc.playing.status \in {"playing", "paused"}
  /\ LET t == [Turn(Still) EXCEPT !.doc.playing.status = "completed"]
         i == doc.playing.item
     IN  Event([t EXCEPT !.doc =
           RateFinished(IF scenario.sourced THEN SaveCompletedSource(@, i) ELSE @, i)])

SuccessorStarted ==
  /\ doc.prepared /\ doc.playing.status \in {"playing", "completed"}
  /\ LET i == NextOf(doc.playing.item)
     IN  \E w \in Settling("consumed") :
           Event(ResolveNotice([Turn(w) EXCEPT
                   !.doc = [StartSession(@, i) EXCEPT !.playing.status = "playing"]],
                   i, "consumed"))

PlaybackFailed ==
  /\ doc.playing.status \in {"starting", "playing"}
  /\ \E w \in Settling("pending") :
       Event(ResolveNotice([Turn(w) EXCEPT !.doc.playing.status = "failed",
                                           !.doc.prepared = FALSE],
                           doc.playing.item, "pending"))

-----------------------------------------------------------------------------
(* Time: the session ends, dialogues and resolved phrases expire.          *)

Less(n) == IF n > 0 THEN n - 1 ELSE 0

Wait ==
  /\ doc' = [doc EXCEPT !.active = Aged(@), !.fresh.search = Less(@),
                        !.fresh.ambiguity = Less(@)]
  /\ session' = NoSession
  /\ asked' = Silence
  /\ last' = {}
  /\ UNCHANGED <<inbox, missed, scenario>>

\* A new listener, one who has set up no town, or one who has.
Init ==
  /\ scenario \in Scenarios
  /\ doc = [active |-> NoDialog, flags |-> {}, pending |-> [k \in Held |-> NoContext],
            topic |-> NoSearch, fresh |-> [search |-> 0, ambiguity |-> 0],
            stage |-> "none", setup |-> NothingSetUp,
            onboarded |-> scenario.listener # "new", known |-> scenario.listener # "new",
            city |-> IF scenario.listener = "settled" THEN DeviceTown ELSE NoTown,
            playing |-> [item |-> NoItem, status |-> "none"], prepared |-> FALSE,
            progress |-> {}, answered |-> {}, follow |-> FALSE, keep |-> FALSE,
            offered |-> NoNotice, latest |-> [finished |-> NoItem, offered |-> NoItem]]
  /\ inbox = [n \in Notices |-> "pending"]
  /\ session = NoSession
  /\ asked = Silence
  /\ last = {}
  /\ missed = {}

Next ==
  \/ Refuse
  \/ SkipGate \/ ProfileGate \/ TownCaptureGate \/ OnboardingGate \/ CreatorCityGate \/ NameGate
  \/ MoreChoices \/ PreviousChoices \/ OneChoice \/ YesToChoices \/ NoToChoices
  \/ NoneOfThem \/ NoChoice
  \/ Yes \/ No \/ SayEnjoyed \/ SaySomewhat \/ SayNotEnjoyed \/ SaySkip \/ SayNext
  \/ SayResume \/ SayRate \/ SayReport \/ SayFollow \/ SayUnfollow \/ SayFollowed
  \/ SayTrending \/ SayRecommend \/ SayHearNotices \/ SayResponse
  \/ SayPlay \/ SayHelp \/ SayUnclear \/ SayStop \/ SayCancel
  \/ SaySearch \/ SaySeveral \/ SayWords \/ SayAnySource \/ SayNewspaper \/ SayPublication
  \/ SayFindNewspaper \/ SayFindPublication \/ SayFindCreator \/ SayLocal \/ SayCreators
  \/ SayTown \/ SaySetLocation \/ SaySetUpAccount
  \/ SayMore \/ SayPrevious \/ SayDismiss \/ SayClarify
  \/ Launch \/ EndSession
  \/ PlaybackStarted \/ PlaybackNearlyFinished \/ PlaybackProgress \/ PlaybackFinished
  \/ SuccessorStarted \/ PlaybackFailed \/ Wait

Spec == Init /\ [][Next]_vars

-----------------------------------------------------------------------------
(* Properties.                                                             *)

\* Questions that a dialogue of their name waits for the answer to.
Listened ==
  {"feedback", "report_decision", "feedback_continuation", "notification",
   "search_confirmation", "ambiguity", "help", "resume", "latest_source",
   "organization_name", "publication_source", "asr_repair"}

\* What the dialogue of type k, or the field of its name, is about.
ContextFits(k, c) ==
  CASE k = "search_confirmation" -> c \in Resolutions
    [] k = "ambiguity" -> c \in MeaningContexts
    [] OTHER -> c \in AboutContexts /\ (k = "notification" => c.about \in Notices)

\* What the backend has missed of a notice: that it was accepted, what became of it,
\* or that the document does not say what the backend was told.
MissedFits(m) == \A e \in m : e[2] \in {"accepted", "outcome", "document"}

\* The document, the inbox and the question are of their types; the listener is
\* given up on before the limits of the replies and of the lookups are passed.
TypeOK ==
  /\ doc.active.type \in DialogTypes \union {"none"}
  /\ doc.flags \subseteq Flagged
  /\ \A k \in Held : doc.pending[k] # NoContext => ContextFits(k, doc.pending[k])
  /\ doc.playing \in [item : Items \union {NoItem}, status : Statuses]
  /\ doc.stage \in Stages /\ doc.city \in Towns \union {NoTown}
  /\ doc.setup.attempts \in 0..(MaxTownAttempts - 1)
  /\ doc.setup.failures \in 0..(MaxTownFailures - 1)
  /\ inbox \in [Notices -> InboxStatuses]
  /\ MissedFits(missed)
  /\ session \in Sessions

\* A subject that was rated or passed over is not asked about again, unless the
\* listener asks to rate it: whichever of a finished recording, a publication
\* that another recording interrupts, and a launch raises the question.
NotAskedTwice ==
  LET p == doc.pending["feedback"]
  IN  RatingAsked(doc) /\ p # NoContext /\ ~p.requested => p.about \notin doc.answered

\* A rating that interrupted a recording is about the recording that is still
\* the active one: what has started since has dismissed the question.
InterruptedIsActive ==
  [][\A e \in last' :
       LET p == doc.pending["feedback"]
       IN  e[1] \in {"enjoyed", "somewhat", "skipped"} /\ p # NoContext /\ Interrupted(p)
             => SubjectOf(doc.playing.item) = e[2]]_vars

\* The document owes the recording that a rating interrupted its resumption.
Owed(s) ==
  \/ RatingAsked(s) /\ Interrupted(s.pending["feedback"])
  \/ "report_decision" \in s.flags /\ s.pending["report_decision"].resume

\* A recording that a rating interrupted goes on once the rating, and the report
\* that it may lead to, are settled, or the listener is asked whether it should;
\* only a rating that is given up on leaves it paused.
InterruptedResumes ==
  [][/\ Unfinished(doc') /\ ~Owed(Migrate(doc')) /\ Owed(Migrate(doc))
     /\ last' # {} \/ "report_decision" \in doc.flags
     => \/ doc'.playing.status = "starting"
        \/ asked'.kind \in {"resume", "keep_listening", "closed"}]_vars

TerminalStatuses == {"consumed", "dismissed", "unavailable"}

\* Of notice n, the backend learned that it was accepted, or how the playing went; and
\* the document was saved with what the backend learned.
InTouch(n, lost) == <<n, "accepted">> \notin lost /\ <<n, "document">> \notin lost
Trackable(n, lost) == <<n, "outcome">> \notin lost /\ <<n, "document">> \notin lost

\* A notice that was played, declined, or found to have nothing behind it is
\* never offered again, and no late event or answer changes its status, whichever
\* updates fail; unless the backend never learned that the notice was accepted, or
\* learned of something that the document was not saved with.
NoticeStaysSettled ==
  [][\A n \in Notices :
       inbox[n] \in TerminalStatuses /\ InTouch(n, missed) => inbox'[n] = inbox[n]]_vars

\* Only a notice whose own recording started counts as consumed: another
\* recording may start between the answer and the event.  (When that recording follows
\* another, its start may not be saved.)
ConsumedWasPlayed ==
  [][\A n \in Notices :
       inbox[n] # "consumed" /\ inbox'[n] = "consumed" =>
         \/ doc'.playing.item = NoticeItem[n]
         \/ doc' = doc /\ NextOf(doc.playing.item) = NoticeItem[n]]_vars

\* A notice that waits for its recording to start is the one that the document
\* tracks, so that the events of the player can settle it; unless the backend did not
\* learn how the playing went, or the document was not saved.
QueuedIsTracked ==
  \A n \in Notices : inbox[n] = "queued" /\ Trackable(n, missed) => doc.offered = n

\* A listener who has followed the source in this session is not asked to follow it,
\* and follows it only once, however late the backend learns of it; one who has
\* unfollowed it does not unfollow it again.
FollowedOnce ==
  [][/\ session.said = "has" =>
          asked'.kind # "follow" /\ \A e \in last' : e[1] # "follow"
     /\ session.said = "lacks" => \A e \in last' : e[1] # "unfollow"]_vars

\* What an answer asks is the dialogue that the next request finds live when it
\* has loaded the document, flags and all.  (A rating that nothing is held for is
\* asked of nothing, and has no dialogue.)
AskedIsLive ==
  [][asked' # asked /\ asked' # [kind |-> "feedback", about |-> NoItem] =>
       /\ asked'.kind \in Listened => Migrate(doc').active.type = asked'.kind
       /\ asked'.kind = "choices" => Migrate(doc').active.type = "availability"]_vars

\* For a listener who sets nothing up, a search runs only on a yes to the very
\* question that the session's last answer asked.
ConfirmedWasAsked ==
  [][\A e \in last' :
       e[1] = "search" /\ scenario.listener = "settled" =>
         asked = [kind |-> "search_confirmation", about |-> e[2]]]_vars

Distinct(q) == \A i, j \in DOMAIN q : q[i] = q[j] => i = j

\* However a list is paged through, with pages of the catalogue that overlap and
\* fail, no choice is listed twice, and what is read out is never empty.
ChoicesReadable ==
  doc.active.type = "availability" =>
    LET c == doc.active.context
    IN  Displayed(c) # <<>> /\ Distinct(c.all)

\* The town that is saved after the listener was asked to confirm one is the
\* town that was read out, unless a question about the profile is older.
TownConfirmed ==
  [][asked.kind = "confirm_city" /\ ~doc.setup.consent /\ doc'.city # doc.city =>
       doc'.city = asked.about]_vars

\* A request for local content that waited for a town is taken up in the very
\* request that saves the town, be it the device's, one that was named, or one that was
\* chosen.  (Not so of a new listener, whose first permission saves the device's town
\* and takes up nothing.)
CommunityResumes ==
  [][doc.setup.community /\ doc.city = NoTown /\ doc'.city # NoTown /\ ~IsNew(doc) =>
       <<"list", "local">> \in last']_vars

\* The setup of a new listener that ends without a question has ended for good.
SetupEndsForGood ==
  [][IsNew(doc) /\ doc.stage # "none" /\ doc'.stage = "none" /\ asked'.kind # "town" =>
       ~IsNew(doc')]_vars

\* However the entities of a phrase overlap, what is meant claims no words twice, the
\* listener chooses between things of one type and is offered a publication only
\* where no source or place was named; and the search is for something, of the kind
\* that it says.
PhrasesSound ==
  [][\A e \in last' : e[1] = "heard" =>
       /\ SoundRanking(Rank(e[2].entities))
       /\ \A prefer \in BOOLEAN : SoundPayload(Payload(e[2].entities, e[2].service, prefer))]_vars

\* After a page of choices that the catalogue did not give, asking for more
\* choices asks the catalogue again, as the answer says.
RetriesPage == [][asked.kind = "try_again" /\ MoreChoices => \E e \in last' : e[1] = "load"]_vars

-----------------------------------------------------------------------------
(* Inductive invariants, used by the proofs *)

\* The notice that a document tracks waits for its recording and is not offered, and
\* one that it offers is not settled, if the backend and the document know of each other.
NoticesAgree(s, box, lost) ==
  /\ s.offered # NoNotice => s.offered \in Notices
  /\ \A c \in NoticeContexts(s) : c.about \in Notices
  /\ \A n \in Notices :
       InTouch(n, lost) =>
         /\ s.offered = n => box[n] = "queued" /\ \A c \in NoticeContexts(s) : c.about # n
         /\ \A c \in NoticeContexts(s) : c.about = n => box[n] \notin TerminalStatuses

\* The follow question is open only while the listener has not followed the source.
FollowIsOpen == asked.kind = "follow" => session.said # "has"

TalkInv == NoticesAgree(doc, inbox, missed) /\ FollowIsOpen

\* A list of choices: what is listed is on the catalogue's pages, and the page that is
\* read out begins within the list.
ListFits(c) ==
  /\ DOMAIN c = {"kind", "list", "source", "all", "offset", "page", "total", "single", "failed"}
  /\ c.kind \in {"source", "publication", "format"} /\ c.list \in DOMAIN Pages
  /\ c.kind = "source" => c.list \in {"local", "creators", "recommended"} /\ c.all \in Seq(Sources)
  /\ c.all \in Seq(Listable) /\ c.offset \in 0..(Len(c.all) - 1)
  /\ Distinct(c.all)
  /\ c.page \in 0..(Len(Pages[c.list]) - 1) /\ c.total \in {0, Len(Pages[c.list])}

\* The catalogue counts no page that is empty, and lists nothing twice on a page.
PagesListed ==
  \A w \in DOMAIN Pages : \A p \in DOMAIN Pages[w] :
    Pages[w][p] # <<>> /\ Distinct(Pages[w][p])

DialogFits(s) ==
  /\ DOMAIN s.active = {"type", "context", "left"} /\ s.active.type \in DialogTypes \union {"none"}
  /\ s.flags \subseteq Flagged /\ DOMAIN s.pending = Held
  /\ s.topic \in Searches \union {NoSearch}
  /\ \A k \in Held : s.pending[k] # NoContext => ContextFits(k, s.pending[k])
  /\ s.active.type \in Held /\ s.active.context # NoContext =>
       ContextFits(s.active.type, s.active.context)
  /\ s.active.type = "availability" /\ PagesListed => ListFits(s.active.context)

Setups ==
  [attempts : 0..(MaxTownAttempts - 1), failures : 0..(MaxTownFailures - 1),
   candidate : Towns \union {NoTown}, choices : {<<>>} \union TownChoices,
   consent : BOOLEAN, permission : BOOLEAN, profileTown : BOOLEAN, profileActive : BOOLEAN,
   community : BOOLEAN]

SetupFits(s) ==
  /\ s.setup \in Setups /\ s.stage \in Stages /\ s.city \in Towns \union {NoTown}
  /\ s.onboarded \in BOOLEAN /\ s.known \in BOOLEAN
  /\ s.setup.permission => s.onboarded /\ ~s.setup.profileActive

PlayingFits(s) ==
  /\ s.playing \in [item : Items \union {NoItem}, status : Statuses]
  /\ s.latest \in [finished : Items \union {NoItem}, offered : Items \union {NoItem}]

\* A question for a rating is about the recording that plays, and about nothing that was
\* answered before unless the listener asked for it.
RatesActive(s, c) ==
  /\ c \in AboutContexts /\ c.about = SubjectOf(s.playing.item)
  /\ ~c.requested => c.about \notin s.answered

RatingFits(s) ==
  LET p == s.pending["feedback"]
  IN  /\ p # NoContext => p.about = SubjectOf(s.playing.item)
      /\ RatingAsked(s) => RatesActive(s, p)
      /\ s.active.type = "feedback" => RatesActive(s, s.active.context)

\* While a town is asked for after the profile was declined, nothing ambiguous is left
\* whose answer would forget the town.
CaptureFits(s) ==
  s.active.type = "onboarding" /\ s.setup.permission =>
    /\ s.pending["ambiguity"] = NoContext
    /\ s.stage = "await_location_confirm" => s.setup.candidate # NoTown

Fields ==
  {"active", "flags", "pending", "topic", "fresh", "stage", "setup", "onboarded", "known", "city",
   "playing", "prepared", "progress", "answered", "follow", "keep", "offered", "latest"}

DocumentFits(s) ==
  /\ DOMAIN s = Fields
  /\ DialogFits(s) /\ SetupFits(s) /\ PlayingFits(s) /\ RatingFits(s) /\ CaptureFits(s)

\* The town that the listener is asked to confirm is the one that a yes would save.
ConfirmFits(q, s) ==
  q.kind = "confirm_city" =>
    /\ q.about = s.setup.candidate /\ s.stage = "await_location_confirm"
    /\ s.setup.permission => s.setup.candidate # NoTown

DocumentInv ==
  /\ DocumentFits(doc) /\ ConfirmFits(asked, doc)
  /\ inbox \in [Notices -> InboxStatuses] /\ session \in Sessions /\ MissedFits(missed)

=============================================================================
