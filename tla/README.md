# Hear Alexa skill: TLA+ models and proofs

The repository is the back end of an Alexa skill: a Lambda that answers Alexa
requests for a listener, keeps the listener's state in a DynamoDB table, plays
audio through Alexa's AudioPlayer, and hands events to a queue through an
outbox. This directory models the parts of it whose correctness depends on the
order in which things happen, checks them with TLC, and proves the most
important properties with TLAPS.

Paths below are relative to the repository; the Python package is `src/`.

## 1. Inventory

| Part | State it keeps | Operations | Modelled in |
| --- | --- | --- | --- |
| Listener document, `src/constants/state.py`, `src/database/dynamo_merge.py` | one document in four scopes CORE, PLAYBACK, DIALOG, CACHE | scopes and defaults of fields, `DynamoConflictMerge.resolve` | `StateDocument` |
| Persistence adapter, `src/database/dynamo_user.py`, `dynamodb.py` | a row per scope with `stateVersion` and `expiresAt`, `OUTBOX#` items | `get_attributes`, `save_attributes`, expiry gate, conflict retries, transactions | `ListenerStore` |
| User document, `src/models/user.py` | `_store`, baseline, changed fields, versions, staged events of one request | `hydrate`, `update`, `stage_outbox_event`, `write_persisted` | `ListenerStore` |
| Persistence interceptors, `src/middleware/persistence.py`; answer rule in `src/alexa/runtime.py` | the commit result | load and save under a time budget, `EssentialPersistenceError` | `ListenerStore`, `ListenerCommits` |
| Outbox relay and recovery, `src/services/outbox.py`, `main.py`, `template.yaml` | `outboxStatus` of items, the stream's position | `relay`, `recover_pending`, `_deliver` | `OutboxDelivery` |
| Outbound consumer, `src/services/events.py`, `src/clients/events.py` | none | `consume`, webhook `send` | not modelled |
| Playback session, `src/alexa/playback_state.py`, `playback_workflow.py`, `playback_events.py` | `activePlayback`, `playbackQueue`, `preparedNextContent` | start, observe, prefetch, AudioPlayer events | `PlaybackSession`; play count in `ListenerStore` |
| Playback controls, `src/alexa/playback_controls.py`, `src/models/playback_control_policy.py` | the same | pause, resume, repeat, speed, seek, next, previous | `PlaybackSession` |
| Dialogue, `src/alexa/dialog.py`, `src/models/user.py` | `activeDialog`, legacy flags, pending contexts | migrate, activate, clear, expire | `DialogState` |
| Yes and no, `src/alexa/affirmative.py`, `decline.py`, `src/models/confirmation.py`, `src/middleware/dialog_validation.py` | the same | what a dialogue lets through, what yes and no settle | `Conversation` |
| Feedback and reports, `src/alexa/feedback*.py`, `src/middleware/feedback_gate.py` | `feedbackSession`, pending and answered feedback, interrupted recordings | propose, ask, answer, skip, report, continue | `Listening` |
| Notifications, `src/alexa/notifications.py`, `src/models/notifications.py` | the notice that was offered; the backend's inbox | offer, accept, decline, settle, each with status updates that may be lost | `Listening` |
| Following, `src/alexa/following_state.py`, `social.py` | the session's snapshot and its overrides | follow, unfollow, check, projection | `Following`, `Listening` |
| Search, availability, browse, `src/alexa/search.py`, `availability*.py`, `browse.py` | `pendingResolution`, the list that is read out | resolve, confirm, search, page, choose, relax | `Finding` |
| Resolver, `src/alexa/resolver_runner.py`, `src/models/entity_ranker.py`, `resolver.py` | `pendingAmbiguity` | rank entities, build a search, page meanings, route | `EntityRanking`, `SourceNames`, `Finding` |
| Onboarding, `src/alexa/onboarding*.py`, `src/middleware/onboarding_gate.py` | stage, candidate town, attempts, profile | permission, town capture, confirmation, profile | `Setup` |
| Request pipeline, `src/alexa/runtime.py`, `src/registry.py`, `src/middleware/` | none | interceptors, gates, handlers in their order | `Conversation`, `ListenerStore` |
| Identity, `src/services/listener_identity.py`, `src/middleware/identity.py` | identity cache | resolve, choose the persistence key | projection of follows in `Following` |
| HTTP pool, `src/clients/pool.py` | circuit breaker | before_request, succeeded, failed | not modelled |
| Speech, clients of remote services, configuration, scripts, schemas | none | text, I/O | not modelled: no state of their own |

How they interact: Alexa calls the Lambda; `CustomSkill.invoke` runs the request
interceptors (identity, then load), one handler, then the save interceptor. The
handler touches only the request's copy of the document (`User.update`) and
stages events. The save commits both to DynamoDB. Other requests of the same
listener (AudioPlayer events arrive while the listener talks) run in other
Lambda instances against the same rows. The table's stream starts the outbox
relay, a schedule starts the recovery; both send to the outbound queue, whose
consumer calls the webhook.

What is hard, and what makes each part correct:

- *Listener store.* Concurrent read-modify-write of rows, eventually consistent
  reads, conflict merges, deadlines that cancel a save whose write is under
  way, lost answers, expiry, migration from an older key. Correct: no update is
  lost or applied twice, an essential commit is atomic, the listener is never
  told something was done that was not, events are published exactly for stored
  state, newer data is not overwritten by older data.
- *Outbox delivery.* Two workers on the same items, crashes between send and
  mark, bounded retries, a bounded query, time to live. Correct: SENT is never a
  lie, every valid event reaches the queue before it expires, no record blocks.
- *Playback session.* AudioPlayer events out of order, duplicated or lost.
  Correct: the session follows the device, nothing unheard is passed over or
  recorded as finished, only heard time is counted, and the device does not fall
  silent while there is something left to play.
- *Conversation.* One question is described by three parts of the document that
  different handlers write, and is answered turns, events and minutes later.
  Correct: what was asked last is what the next request finds live, a yes or no
  is applied to the question the listener heard, an interrupted recording comes
  back, nothing is asked twice, a request that waits for a setup is taken up at
  its end, a notice that was settled stays settled. A notice has its status in the
  backend and its place in the document; an update of the first that fails is ignored,
  and the save of the second comes later and may fail.
- *Finding.* Remote pages overlap, end early and fail; entities of a phrase
  overlap. Correct: what is read out is never empty or doubled, a page that
  failed can be asked for again, a search is for what was said.
- *Following.* The backend learns of a follow when the outbox delivers it.
  Correct: what the listener said in the session wins over what the backend
  answers.
- *Circuit breaker, identity cache.* Concurrent requests at a threshold; stale
  values.

`PROJECT.json` lists the hazards of the code line by line with the properties
that cover them.

## 2. Modules

### StateDocument

Operators only. Seven fields stand for the persisted ones: at least one per
scope and one per merge rule (counter `playCount`, keyed collection
`playHistory`, time-guarded `activePlayback`, plain fields). A plain value is
the request that wrote it, which is all the properties tell apart. `Resolve` is
`DynamoConflictMerge.resolve`; `MergeCounter` keeps the code's case of a counter
loaded as its default, whose original is `None`.

### ListenerStore

Several requests of one listener. Per request: `pc` is the stage of
`CustomSkill.invoke`; `seen`, `gate`, `versions`, `baseline` are the load
(`get_attributes`, with `_live_scope_item`'s gate: a read, a conditional delete,
a second read); `edit` is what the handler did; `opState`, `attempt`, `document`,
`unsent` are the operations of `save_attributes`; `status` is the
`CommitResult`. Shared: `store` (a row per scope), `past` (rows an eventually
consistent read may still return), `outbox`. `landed` is a history variable.

| Action | Code |
| --- | --- |
| `ReadScope`, `DeleteExpired` | `_scope_item`, `_live_scope_item`, as part of `get_attributes` and of `_merge_after_conflict` |
| `Hydrate`, `HydrateUnavailable` | `User.hydrate`, the alias fallback of `_load_persistent`, every degraded path of `LoadPersistenceInterceptor` |
| `Handle` | a handler: `User.update`, `stage_outbox_event`, `accepts_event` |
| `SkipSave`, `BeginSave`, `FinishSave`, `SaveTimeout` | `SavePersistenceInterceptor.process` around `write_persisted` |
| `Save`, `Reject`, `ReloadOutbox`, `Exhaust`, `CallError` | one round of `_save_scope` or `_save_coupled` |
| `LateWrite` | a call that its cancelled coroutine no longer waits for |
| `Expire`, `TimeToLiveDelete` | the clock and DynamoDB's time to live |

A step is one call to DynamoDB, because everything between two awaits runs
without interruption. Whether a save is one transaction or a gather of
independent calls is decided as in the code (`Transactional`), and `CallOf`
gives the operations of one call.

### ListenerCommits

The abstract specification of an essential commit: a request takes effect at
most once and as a whole (`Apply`), and is answered with success only after
(`Answer`). `ListenerStore!CommitsAtomically` is the refinement; its mapping is
above that definition.

### OutboxDelivery

Items with their `outboxStatus`, the records the relay has not got past
(`stream`), its current batch across retries (`held`, `retries`), and for each
worker what it does (`step`, `todo`). `Send` and `Mark` are separate steps, as
in `_deliver`. `BatchFails` is the retry rule of `template.yaml` with
`ReportBatchItemFailures`: from the first failed record on, or the whole batch,
until the attempts are used up. `Indexed` is the index the recovery queries:
marking an item does not take it out. The item's age is counted in recovery runs
(`lived`), so that "expires" means "after so many chances of the recovery".

### PlaybackSession

The document's session (`store`: `active` is `activePlayback`, `queue`,
`prepared`, and `completed` for the finished entries of `playHistory`) and the
device (`player`, external), which sends AudioPlayer requests (`mail`) with
one-tick timestamps. Commands carry the device's own context, as Alexa's do, and
are handled at once: they may overtake events on their way ("overtaken" in
`disorder`). A handler is one step; `ListenerStore` shows what its save does.

| Action | Code |
| --- | --- |
| `Deliver`, with `PlaybackStarted` ... `PlaybackProgress` and `Reject` | the handlers of `controllers/playback_events.py`: `PlaybackEvents.apply`, `enqueue_next_queued_content` |
| `DeliverEarly`, `DeliverAndRepeat`, `Lose` | the same handlers on an event out of order, an event that will come again, none |
| `DeliverInVain` | a prefetch whose search fails, or whose answer does not reach the device |
| `Play` | a search that found something: `PlaybackQueue.initialize`, `start_playback` |
| `Pause`, `Resume`, `Repeat`, `ChangeSpeed`, `Seek`, `Skip`, `Previous` | `PlaybackControls` |
| `Tick`, `NearlyFinish`, `Report`, `Finish`, `Fail` | the device |

`Restart` is `resume_playback`, which keeps the observation of the session it
restarts; `Started` is `PlaybackState.start`, which begins a new one. An ENQUEUE
is ignored by a device whose last stream is not the expected predecessor, and a
REPLACE_ALL clears what was enqueued. `heard` and `ended` are history variables.

### The conversation: DialogState to Conversation

One chain of modules, each extending the one before it. All but the last hold
operators on a *turn*: a record of the document as it was loaded and migrated
(`doc`) and as it was stored (`saved`), the session's attributes, the backend's
inbox, the question that the answer ends with (`asked`), what left the skill
(`effects`), and what the services will answer (`world`), with the status updates that
will be lost (`world.lost`). A handler is an operator
from turn to turn, written as the composition of the operators of the methods it
calls, so that one request is one step whatever it calls. `ListenerStore` shows
what the save of a request does.

| Module | Models | Main operators |
| --- | --- | --- |
| `DialogState` | `alexa/dialog.py`, the dialogue fields of `models/user.py` | `Migrate` (flags and contexts made to agree with `activeDialog`), `Expired`, `Activate`, `Clear`, `ClearTransient`, `DismissAmbiguity` |
| `Following` | `alexa/following_state.py`, `services/listener_sync.py` | `Record`, `ReplaceSnapshot`, `Applied`, `Status`, `AlreadyFollowing` |
| `Listening` | `alexa/feedback*.py`, `notifications.py`, `social.py`, `launch.py`, resume | `ActivateBest`, `RateFinished`, `Enjoyed` ... `Skip`, `RequestRating`, `ReportContent`, `Offer`, `Accept`, `Decline`, `ResolveNotice`, `Continuation`, `UpdateStatus`, `Follow`, `Unfollow`, `LaunchReturning` |
| `Finding` | `alexa/search.py`, `availability*.py`, `browse.py`, ambiguity of `resolver_runner.py` | `Discover`, `Present`, `Execute`, `ConfirmSearch`, `DeclineSearch`, `LoadPage`, `More`, `Previous`, `Select`, `AskMeaning`, `SettleMeaning`, `PlayCommunity` |
| `EntityRanking` | `models/entity_ranker.py`, `ResolverResult.to_alexa_payload` | `Rank`, `Payload`, and what they promise, `SoundRanking`, `SoundPayload` |
| `SourceNames` | phrases in the listener's own words and for a source, `models/confirmation.py` | `Decide`, `DiscoverWords`, `AnySource`, `AnswerName`, `FindSource`, `RepairYes` |
| `Setup` | `alexa/onboarding*.py` | `Gate`, `CaptureTown`, `ConfirmLocation`, `DeclineTown`, `StartProfile`, `RepairSetup` |
| `Conversation` | `registry.py`, `middleware/`, `affirmative.py`, `decline.py`, `controllers/` | one action per gate and per intent; AudioPlayer events; `Wait` |

The state of `Conversation` is the document `doc`, the `inbox`, the session's
`session`, what was last `asked`, the effects of the `last` request, what the backend
or the document has `missed` of a notice, and the `scenario`. A request loads the document (`Migrate`), passes the interceptors
(`Passed`: a phrase that the resolver hears drops a list of choices, the
`FeedbackGate` closes questions that were passed over), is refused if the live
dialogue does not let it through (`Accepted`, `Refuse`), and is taken by the first
gate or handler of the registry that can handle it (`TakerOf`).

A request ends in `Answers`: its document is saved (`Saved`), or, in the scenarios that
let saves fail, it is not (`Unsaved`). What the backend was told meanwhile stays, the
listener hears the apology of `controllers/error.py`, and the session stays open with its
attributes. The document of an audio event is saved or not in the same way, without a
word. `UpdateStatus` is `Notification.update_status`: a lost update leaves the inbox as
it is, and the handler goes on alike, because no caller looks at the result. `missed` is
a history variable with what goes wrong by that: that the backend never learned of an
acceptance, or of how the playing went (updates that are lost), or that the document was
not saved with what the backend learned.

| Action | Code |
| --- | --- |
| `Refuse` | `middleware/dialog_validation.py` |
| `SkipGate`, `ProfileGate`, `TownCaptureGate`, `OnboardingGate`, `CreatorCityGate`, `NameGate` | the gate handlers, in the order of `registry.py` |
| `MoreChoices` ... `NoChoice` | `AvailabilityDialogHandler` |
| `Yes`, `No` | `Affirmative.execute`, `Decline.execute` |
| `SayEnjoyed` ... `SayClarify` | the handler of the intent |
| `Launch`, `EndSession` | `LaunchRequest`, `SessionEndedRequest` |
| `PlaybackStarted` ... `PlaybackFailed` | the AudioPlayer requests, for what they do to feedback and notices |
| `Wait` | a tick: the session ends, dialogues and resolved phrases age |

A recording is reduced to its status here (`playing`); `PlaybackSession` has its
positions, queue and device.

## 3. Runs

| Run | Instance | Shows |
| --- | --- | --- |
| `commit` | 3 requests, lost answers, 1 retry, symmetric | `CountExact`, `PreparedImpliesCommitted`, `EventIffCommitted` |
| `answer` | 2 requests, every fault, fairness | `CountExact`, `AllOrNothing`, refinement of `ListenerCommits`, `EveryRequestAnswered` |
| `scopes` | 2 requests, all four scopes, alias document, stale reads, an expiring DIALOG row, timestamps 1 and 2 | `HistoryKeepsAdds`, `NoStaleOverwrite`, `AudioEventNeverRegresses`, `ExpiredNeverRead` |
| `outbox` | 2 items, batch 2, 1 retry, recovery limit 2, 2 faults | `SentWasAccepted`, `ExpiredWasAccepted`, `GoneStaysGone`, `EveryEventAccepted`, `RelayGetsPast` |
| `playback` | pages `<<a, b>>` and `<<b, c>>`, 3 ticks each, 1 search, any 2 of commands, faults and progress reports | `CursorAtActive`, `InStep`, `TimeWasHeard`, `FinishedWasHeard`, `SilentOnlyAtEnd`, `NothingSkipped` |
| `conversation` | thirteen conversations (below) | `AskedIsLive`, `ConfirmedWasAsked`, `InterruptedResumes`, `InterruptedIsActive`, `NotAskedTwice`, `NoticeStaysSettled`, `ConsumedWasPlayed`, `QueuedIsTracked`, `FollowedOnce`, `ChoicesReadable`, `TownConfirmed`, `CommunityResumes`, `SetupEndsForGood`, `PhrasesSound` |
| `first_plays` | 2 first plays of a new listener | violates `CountExact` |
| `expiry_gate` | 2 requests and an expired row | violates `LiveRowNeverDeleted` |
| `alias_copy` | 2 requests of a listener known by the alias only | violates `CopyKeepsNewerData` |
| `outbox_recovery` | recovery limit 1 | violates `ExpiredWasAccepted` |
| `stale_successor` | "next" and "previous" only, no faults | violates `SuccessorEnqueued` |
| `page_retry` | the conversation that finds something, alone | violates `RetriesPage` |

Bounds. Three requests are what a lost update between a reload and a retry
needs: one that loads, one that beats it, and one that beats its retry. One
retry (`Retries = 1`) reaches both a successful retry and an exhausted one; the
code has three. `commit` and `answer` start from a stored count of 2, because a
count of 0 violates `CountExact` (`first_plays`). `scopes` needs two requests
only: its properties speak of one request and what another one wrote.
`Lifetime` of `outbox` is more recovery runs than faults, as the code has 14
days of runs every five minutes; the recovery limit of 2 covers all items of
the instance, and `outbox_recovery` shows what happens when it does not.
Three ticks are the shortest recording in which a forward seek has somewhere to
go; two pages that share an item are the fewest that make the prefetch load one
and drop a duplicate; two inputs are what the interesting cases need, such as a
lost start followed by a pause, or "next" and "previous" around a prefetch. Two
events in flight (`MaxMail`, plus those a directive adds) let one overtake
another. `InStep` and `SilentOnlyAtEnd` speak of the moments when all events
have been handled in order: before that, and after a lost event, the document
cannot know what the device does. Both also cover commands that are handled while
older events are on their way; two of those can break `InStep` (section 5), which
therefore allows one. `SilentOnlyAtEnd` excludes a stale prepared item, the case of
`stale_successor`, and supposes that each page adds an item (`PagesAdd`), as the
prefetch asks for one page only. A page lists an item once (`PlaybackAssumption`):
`PlaybackQueue.initialize` and `_merge_page` drop duplicates.
`TimeWasHeard` excludes overtaken events: a start handled
after the pause that followed it is accepted and moves the observation back, so
that the stop counts the same time again (a hazard in `PROJECT.json`).

The conversation is one model; a scenario only bounds what is said in a behaviour.
The thirteen scenarios of `MCConversation` are: ratings around two tracks of a
publication and a recording on its own; following their source, while the backend's
answer is early or late; one notice; one notice while the updates that settle it fail; one
notice at every launch while any update of it and any save fails; what was heard last of a
source; finding
something by search, list and ambiguity; sources with and without a name; the
listener's own words; a new listener who is welcomed; a new listener who asks for what
is local, or for a profile, before that; a known one who sets up a town later; and one
who asks for what is local without one. Within a scenario the intents come in any
order and number; the catalogue, the resolver, the device's settings and the check of
follows may answer or fail in every turn that asks them (the catalogue of audio in the
scenarios that are about finding something or about notices); playback events come
between the turns, and time passes at any point. Status updates of notices and saves
succeed but in two scenarios, where they may fail in any turn. A listener whose words are
bounded to one conversation at a time still meets the dialogues that the others
leave, because time and the end of sessions are in all of them and launches in most;
what two scenarios would do to one another beyond that is not checked.

Its bounds: a tick is five minutes, which is what a resolved phrase lives
(`ResolutionLife = 1`), dialogues live two ticks and a rating, half an hour in the
code, three, which is enough to outlive the others. Two choices to a page
(`PageSize`, three in the code) and sources of one, two and overlapping pages reach
a page that is cut in two, one that adds nothing and one that fails. Two attempts (three in the
code) and two failures of the town's capture reach both the repetition and the limit. Two
towns that sound alike are a choice. Phrases have up to three of eighteen entities
that cover the pairs of types, spans and evidences that `Rank` distinguishes (the
theorem in section 4 has no such bound); one such phrase opens a session.

The first of the two scenarios in which status updates fail has one recording on its own
beside the notice's, so that another one may start and finish meanwhile; the second has
launches and failing saves, so that a document that lags behind the inbox meets new
sessions, and the notice's recording alone. Two places know a notice, the backend's inbox and the document, and the code ties them
together by nothing but the order of its calls, so that both properties about them name
what must not have happened. `NoticeStaysSettled` excludes a notice whose acceptance the
backend never learned of, or which the document was not saved with (`InTouch`): such a
notice is still open for the one and being played for the other, so that it is offered
again and may be settled twice (section 5). `QueuedIsTracked` excludes one whose outcome
the backend never learned of, or which the document was not saved with (`Trackable`):
after a lost "consumed" the document tracks it no longer, and it stays queued. All other
losses, of an offer, of a search that found nothing, of a refusal, are covered: they leave
the notice open for the backend, which may offer it again. A lost "dismissed" is such a
case: to the backend the notice was never declined.

`InterruptedResumes` lets a rating that is given up on (by two unclear answers or by
its expiry) leave the recording paused, as the code does. `ConfirmedWasAsked` speaks
of a listener who has set up a town, and `TownConfirmed` leaves out an older question
about the profile: in a setup, one yes may be heard by the consent that was asked
before (section 5, observations). `CommunityResumes` leaves out a new listener, whose
first permission saves the device's town and forgets what waited for it (the same
section); the proof found that, and the scenario of the new listener's profile was
added to reach it.

Deadlock checking is off where requests or the session end; `outbox` runs for ever and has it
on.

Fairness. `FairSpec` assumes that a request whose next step is possible takes
it: the event loop runs every ready coroutine, and DynamoDB calls end within the
client's timeouts (`database/dynamodb.py:24`, no retries). Faults are not fair.
`OutboxDelivery` assumes that the stream source and the schedule go on invoking
their functions and that faults are finitely many.

The properties of playback and of the conversation are safety properties and assume
no fairness: what a listener or a device does next is up to them, so that nothing
has to happen.

The six violations are findings; `PROJECT.json` quotes the documentation each
one contradicts.

## 4. Proofs

A theorem holds for every set of requests, events, fields, edits, items, pages and
inputs, every number of retries and every set of faults that its hypotheses allow;
where none are named, there are none beyond the assumptions that the modules name
(`DocumentAssumption`, `StoreAssumption`, `OutboxAssumption`, `PlaybackAssumption`, and
for the conversation `DialogAssumption`, `ListeningAssumption`, `SourcesAssumption`,
`FindingAssumption`, `SetupAssumption` and `ConversationAssumption`), which TLC evaluates
in the runs. The inductive invariants are at the end of the modules they are about, or,
where they are a property that a run checks with a hypothesis before it (`Tracked`), in
the module of the proof; each was checked with TLC on the instance of the run before it
was proved.

### The store

- `ListenerStoreProofs!TypeCorrect`: `Spec => []TypeOK`.
- `ListenerStoreProofs!CommitsAreAtomic`, `ResponsesAreTrue`,
  `EventsAreCommitted`: `AllOrNothing`, `PreparedImpliesCommitted` and
  `EventIffCommitted`. None of them is inductive. `CommitInv` adds, for each
  request, that nothing is saved before the save begins, that what landed has
  ended and what is reported saved has landed, that the operations of a
  transaction move together, that the planned operations cover the edit, and
  that an event no longer sent is already in the outbox. Each action has its
  lemma; the actions that only load or expire rows share one (`CommitInv` does
  not speak of them).
- `ListenerRowProofs!NoStaleValues` and `ExpiredRowsStayGone`: `NoStaleOverwrite` and
  `ExpiredNeverRead`. `RowInv` says what a version is worth: a row without one is
  blank, and in a scope that does not expire versions only grow, so that a request
  that holds the current version has seen the current row. `AliasInv` says what a
  copy of the alias document knows (no versions), and `PlainInv` what a request is
  about to write into a plain field: its own value, the alias' or, in a new row,
  nothing.
- `ListenerRowProofs!AudioEventsAdvance`, `HistoryKeepsPlays` and `CountIsExact`:
  `AudioEventNeverRegresses`, `HistoryKeepsAdds` and `CountExact`, one for each
  merge rule, on `PlaybackInv`, `HistoryInv` and `CountInv`: whoever holds the current
  version of the row writes a value that is merged with the current one, whether it
  loaded it or reloaded it after a conflict. They suppose that the row of their
  scope lasts (`LastingScopes`: each write renews `expiresAt` for days, while a
  request takes seconds); `CountIsExact` also that the listener has a count
  (`StartCount > 0`), and `first_plays` shows that it fails without.
- `ListenerRowProofs!StoreImplementsCommits`: the refinement of `ListenerCommits`,
  `Spec => Commits!Spec`: the landing of a coupled save is `Apply`, the response is
  `Answer`, all else stutters. Besides the hypotheses of `CountIsExact` it supposes
  `EssentialEdits`, that a handler's changes need a transaction: to a change that is
  saved scope by scope the code promises no more than `HistoryKeepsAdds` and its
  like. `AnswerInv` adds that a request is answered once.

### The outbox

- `OutboxDeliveryProofs!OutboxTypeCorrect`, `SentOnlyIfAccepted`, `GoneIsGone`.
  The invariant `DeliveryInv` adds that a worker between send and mark has had
  its item accepted, and that `createdAt` orders stored items strictly: only
  then is the item a worker marks the one it has just sent.
- `OutboxDeliveryProofs!RecoveredInTime`: `ExpiredWasAccepted`, provided that a
  recovery run has room for every item (`Limit >= Cardinality(Events)`) and that an
  item lives through two runs more than there are faults. `RecoveryInv` counts them:
  each run that an item lives through hands its envelope over, is about to, or meets
  a fault. `outbox_recovery` shows that it fails with a smaller limit.

### Playback

- `PlaybackSessionProofs!PlaybackTypeCorrect`: `Spec => []TypeOK`, together with
  `PlaysSomething` (a device that is not stopped has an item).
- `PlaybackSessionProofs!OnlyHeardIsFinished`: `FinishedWasHeard`, whatever is lost,
  late or repeated. `EndWasHeard` says it of every place that claims an item's end:
  the document, the device's offset, and the events on their way.
- `PlaybackSessionProofs!CursorStaysAtActive`: `CursorAtActive`. `CursorInv` needs that
  no event is newer than the device's latest (`MailIsPast`), that nothing plays before
  the first search, and that whatever the device will start, or has started in an
  event that the session would still accept, is in the queue (`StartsFromQueue`): a
  new search clears the device, and its timestamp is newer than all that was on its
  way. That fails when the answer to a second search does not reach the device, which
  then goes on to start what an older queue prepared. The theorem therefore supposes
  one search, or answers that arrive
  (`MaxSearches <= 1 \/ "unanswered" \notin Faults`); TLC finds no error with two searches and
  every other fault, and finds the one described when both are allowed (section 5).
- `PlaybackSessionProofs!NothingIsSkipped`: `NothingSkipped`, whatever becomes of the
  events and with the hypothesis of the cursor, without which TLC finds a counterexample.
  `SkipInv` says that the queue lists nothing twice, that a start which the session would
  accept as its successor's goes forward over what was heard (`StartsAhead`), and that
  what the device was handed is the next item, or one that the session has reached
  (`HandedNext`). The last is there because the answer to "previous" may be lost: the
  device then still holds the item after the one it plays.
- `PlaybackSessionProofs!DocumentInStep`: `InStep` while nothing was overtaken, lost,
  late or repeated (`disorder = {}`). A document that describes the device once the mail
  is empty is not inductive; `InStepInv` says what the mail must still tell. The events
  are in the order they were sent and none was seen (`MailInOrder`); each stream
  announces its end once, and what it was handed is what is prepared until its start
  has been handled (`PrefetchInStep`); and the session either is that of the device's
  stream, up to what the last event says of it (`Follows`), or a start of that stream is
  on its way which it will accept (`Awaits`).
- `PlaybackSessionProofs!OnlyHeardIsCounted`: `TimeWasHeard`, on `InStepInv` and
  `TimeInv`. The time that a session has counted grows with each event by what
  was played since the one before, so that `TimeInv` speaks of what it will count: up
  to each event on its way, and up to where the device is, it was heard (`HeardSo`); while
  a start is on its way, what comes before it and what comes after are counted apart
  (`HeardSince`). The theorem supposes one search (`MaxSearches <= 1`, section 5).
- `PlaybackSessionProofs!SilenceIsTheEnd`: `SilentOnlyAtEnd` while nothing was
  overtaken, for pages that each add an item. `SilentInv` says that a stream that has
  ended had announced it, and that an announcement which brought no successor was that
  of the last item (`AnnouncedInVain`), or what comes after it is prepared already.
  That needs every announcement to be accepted: the session has not seen one of this
  stream before it is handled (`AnnouncementUnseen`), and the queue holds what the pages
  up to the current one list (`FromPages`), so that a further page brings something.
  Neither this theorem nor `DocumentInStep` supposes anything about the number of
  searches: with `disorder = {}` each answer has reached the device.

### The conversation

- `EntityRankingProofs!RankingIsSound` and `SearchIsSound`: for any set of entities
  that the resolver reports of a phrase, the ranking is sound (what is meant claims
  no words twice, a choice is between several things of one type, a publication is
  offered only where no source or place was named); and for any finite set, the
  search made of it is for something, of the kind it says. The first rests on
  `UnrivalledApart`: two entities that both stay and overlap do not outrank each
  other, hence have one type and the same evidence, hence are tied. The second needs
  that a finite set has an entity with none before it (`FirstExists`, by
  well-foundedness of strict inclusion of the sets of entities before it).
  `Conversation!PhrasesSound` checks both formulas in the run.
- `DialogStateProofs!OneQuestionLoaded` and `ActivatedIsLive`: for any document in
  which dialogue, flags and subjects may disagree, loading makes them agree on one
  question that later loads keep, and a question that was opened is the one found.
  They are what the run's `AskedIsLive` rests on: what remains for TLC is that each
  handler opens the question it asks.
- `ConversationProofs!NoticesStaySettled`, `OnlyPlayedIsConsumed`, `QueuedStaysTracked`,
  `FollowedAtMostOnce` and `HeardPhrasesAreSound`: `NoticeStaysSettled`,
  `ConsumedWasPlayed`, `QueuedIsTracked`, `FollowedOnce` and `PhrasesSound`, for any
  catalogue, notices, phrases and scenarios, which includes any status updates and saves
  that fail. The invariant is `TalkInv` and `Tracked`. `NoticesAgree` says, of a notice
  that is in touch (`InTouch`), that it waits for its recording if the document tracks
  it, and is still open if the document offers it, in its dialogue or beside it; without
  it a late yes, no or playback event could reopen a settled one. `FollowIsOpen` says that
  the follow question is open only for a listener who has not followed. `Tracked` is
  `QueuedIsTracked` itself and supposes an inbox with one notice (`OneNotice`), as the
  document tracks one: a second one accepted before the first one's recording starts
  takes its place (section 5). The other four hold for any number of notices.

  The argument follows the composition of the handlers. An operator on documents is
  `Mild` if it leaves no notice in the document that was not there before and tracks
  the same one; an operator on turns is `Calm` if it is mild and touches neither the
  inbox nor the session, nor asks about following. Both are transitive, and nearly all
  operators are calm. The few that are not (offer, accept, decline, settle, follow,
  unfollow) are shown to be `Good`, that is, to keep the invariant and to have cause
  for what they do; each action then makes a `Step`, from which all five follow. What an
  update does is said once, lost or not (`Took`): the status changes, or the notice is no
  longer in touch, or no longer trackable, or it was not accepted and nothing depends on
  it. A save that fails leaves the old document beside the new inbox: each notice whose
  status changed is out of touch then, and an offer, which leaves it in touch, is never
  made of the notice that the document tracks (`Keeps`), so that the old document still
  agrees (`UnsavedAgrees`).
  What the resolver reports and what the scenarios hold is supposed by
  `ConversationAssumption`.

- `ConversationStateProofs!ConversationIsTyped`, `NobodyIsAskedTwice`,
  `ChoicesStayReadable`, `RatedIsActive`, `SetupIsOver`, `SavedIsConfirmed` and
  `LocalIsResumed`: `TypeOK`, `NotAskedTwice`, `ChoicesReadable`, `InterruptedIsActive`,
  `SetupEndsForGood`, `TownConfirmed` and `CommunityResumes`, for any catalogue, towns,
  phrases, limits and scenarios. The invariant is `DocumentInv`:
  - `DialogFits`: what a dialogue is about is of its kind, in the dialogue and in the
    field that a load restores it from; a list that is read out is on the catalogue's
    pages, begins within what is listed, and names nothing twice.
  - `RatingFits`: an open rating is about the recording that is active, and about nothing
    answered before unless the listener asked for it. `NotAskedTwice` is not inductive
    without it: the dialogue and `pendingFeedback` each can put the flag back, so that
    both have to fit.
  - `SetupFits`: attempts and failures stay below their limits, and the profile's
    permission is held open only for a listener who is set up and in no profile.
  - `CaptureFits` and `ConfirmFits`: the town that is read out is the candidate that a
    yes would save. `ConfirmFits` is not inductive by itself: were an ambiguity left
    beneath a capture that follows a declined profile, its answer would forget the
    candidate, and the yes would save nothing or another town.

  `ChoicesStayReadable` supposes `PagesListed`, that the catalogue counts no empty page
  and repeats nothing on one: the code drops from a page only what earlier pages listed
  (`availability_dialog.py:137`), and shows the page of creators as it comes. The
  others need no hypothesis. As for the notices, each operator on documents is shown to
  leave the setup as it is (`Aside`) or to take it on (`Onward`); each operator on turns
  to keep `Turns`, and to answer with a question that fits (`Confirms`); and each action
  makes a `Step`, from which the seven follow, whether or not the document is saved
  (`Told`): an apology asks for nothing.

### Only model-checked

Of playback what `InStep` and `SilentOnlyAtEnd` say of commands that overtake events
(one command for `InStep`): such a command leaves events on their way that contradict
the document, so that the order of the mail, on which both proofs rest, says little.
Of the conversation `InterruptedResumes`, `ConfirmedWasAsked`,
and `AskedIsLive` beyond what `DialogStateProofs` says of its operators. The three hold
within each scenario, with saves that succeed, and not in all of them together: a setup begun over a search leaves
its question behind, the meanings of a phrase beneath another dialogue are read again
without becoming the dialogue, and a new listener's launch may put aside the report that
a rating led to. They are what a conversation about one thing promises, so that TLC,
which goes through the scenarios, is the place for them.
And all that is about liveness
(`EveryRequestAnswered`, `EveryEventAccepted`, `RelayGetsPast`), which the prover does
not support.

## 5. Not modelled, and observations

Of the store: field values beyond what the merge rules look at, sizes and corrupt
items, `delete_attributes`, the arithmetic of time budgets (any outcome is
possible), more than one listener (rows of different listeners share nothing).

Of playback: publications in the queue, progress thresholds other than the half of a
track, and the limit of the history.

Of the conversation: list mode and the still-listening question (no handler starts
them); suggestions of the language service; `Browse.content` and its catalogue
pages; recommendations for a topic; the permission prompt after a follow; phrases
for a source while the meanings of another phrase wait; dismissing and stopping in
own words; which recordings of a source are filtered out as heard; and the
synchronisation of a launch inside a setup. Of what fails: a save that lands but is
reported failed and a document that cannot be loaded, which `ListenerStore` has, and a
request whose changes are not essential, which is answered as if they had been saved
(nearly all of a conversation's are).

Details that the models reduce, and why nothing checked here depends on them:

- `DialogStateManager.activate` copies the question about a search to the session's
  attributes, and `get_active` falls back to the copy when the document has no dialogue
  (`dialog.py:243` and `299`; `affirmative.py:113` and `544`, `decline.py:84` and `207`).
  `ActiveDialog` is `User.active_dialog`, the document's part; the copy is left out. An
  answer, a stop and a cancel remove it with the question, and nothing else is let
  through while that is live. It stays behind only when a yes is heard by an older
  question of a setup, or when a save fails; a later yes may then confirm the search.
  `ConfirmedWasAsked` is checked of listeners who set nothing up, with saves that
  succeed, and no other property depends on whether a search was confirmed. The copies
  that a setup keeps in the session's attributes are left out alike. The scenario in
  which saves fail has neither a search nor a setup; what section 4 proves of scenarios
  that have both is proved without the copies.
- `IsNew` is `OnboardingGateHandler._is_new_user` on two fields: `onboarded`, and `known`
  for all that a launch or a profile leaves in the document (`listenerId`,
  `firstLaunchedAt`, the name, the address). `lastToken` and `playCount` are not looked
  at, because nothing plays for a listener whom the gate takes; a town is saved together
  with `onboarded`.
- `ListenerStore!DeleteExpired` makes one step of a conditional delete that fails and the
  read after it. A write between the two is, for the reader, a write before both, unless
  the row is deleted meanwhile and written anew up to the version that was to be deleted.
- `AlreadyFollowing` is the session's word or the backend's. `following_state.py:159`
  also looks at the document's `followedCreators`, which a launch writes; by that fewer
  sources are followed or asked about than in the model.

Parts without a model: the outbound consumer keeps no state between messages; the
circuit breaker lets a call fail that every model lets fail anyway; identity
resolution is one lookup, whose link is owned by the backend; clients, speech,
configuration and scripts have no state of their own.

Observations. The following were met while modelling. The models do what the code
does; none contradicts a statement of the repository plainly enough to be listed as
a finding.

- A new listener who is asked for a profile, asks for what is local, agrees to the
  profile, launches the skill and then gives the first permission has the device's town
  saved (`permission.py:82`), but the local content that waited for it does not play.
- A page of creators replaces the list (`availability_dialog.py:124`), so that an empty one
  would leave an empty list open.
- A yes to consent or to a profile question that is still open is heard before a
  search or a town that was asked about later (`affirmative.py:97`); a no is not.
- A rating given up on leaves the recording it interrupted paused.
- A follow is remembered in the session's attributes when it is staged. When the save
  fails, the event is lost, the session is kept by the apology, and a second try is
  answered "already following".
- After a lost "dismissed" the notice that was declined is offered again; after a lost
  "consumed" it stays queued in the backend, and nothing in the document would try again.
- After a lost "queued" the notice that was accepted is open in the backend while its
  recording starts. It can be offered again; a second acceptance that finds nothing
  reports "unavailable", or a refusal "dismissed", and the start of the first one's
  recording then reports "consumed". Likewise an answer "unavailable" whose document could
  not be saved leaves the question in place, and a second yes that finds the recording
  reports "queued". (With `InTouch` left out of `NoticeStaysSettled` TLC finds the second
  first, its trace being the shorter one; with the saves kept it finds the first.)
  `constants/notifications.py:15` calls all three terminal; whether the backend refuses the
  change is decided outside this repository.
- A search replaces the queue but not `preparedNextContent`
  (`PlaybackQueue.initialize`), so that a device that the answer does not reach starts
  an item of the queue before: the document then has it as `activePlayback`, at an
  index of the new queue that is not its own.
- Two commands that are handled before the events of what they replaced can leave
  document and device apart: a `PlaybackNearlyFinished` of an earlier stream of the same
  item prepares its successor once more, and a late start of that one is then accepted.
- The prefetch loads one page. If it adds nothing new, the device is handed no
  successor although further pages remain.
- A tick of the model is coarser than the clock: after a second search that begins with
  the item that was playing, a stop of the old stream may carry the tick of the search
  and count again what was counted. `TimeWasHeard` is therefore proved for one search.
- Accepting a second notice before the first one's recording starts leaves the first
  "queued" unless its recording is heard; the conversation checked has one notice.
- Paging an ambiguity renews its dialogue but not `pendingAmbiguity.expiresAt`.
- "No" to the town that was asked about, followed by any phrase, takes the phrase for
  a town.
- After an unfollow, a second follow is answered "already following" without an event
  while the backend's check has not caught up with the unfollow.
- `rank` drops an entity that is outranked by one which is outranked itself.
- A tag that comes with a creator or a publication is answered by a recovery speech:
  the confirmation has no words for it (`Unsayable`).
- An unrecognised creator's name is answered by asking for a city of creators.
- `TRACK_KIND`, `deferredIntent`, `listModeActive` and the ambiguity branch of
  `Affirmative` are not reached.

## 6. Plan

1. Done: `StateDocument`, `ListenerStore`, `ListenerCommits`, `OutboxDelivery`
   with their proofs.
2. Done: `PlaybackSession`.
3. Done: the conversation, from `DialogState` to `Conversation`, and the proofs
   about `DialogState` and `EntityRanking`.
4. Done: the proofs about the rows of the store and its refinement, the recovery of
   the outbox, and the types, the finished items and the cursor of `PlaybackSession`.
   Done too: the notices, the following and the phrases of `Conversation`.
   And so are what the document holds (`ConversationStateProofs`), and the rest of
   `PlaybackSession`: what is skipped, the document and the device in step, the
   listening time and the end of the results.
5. Models that remain of interest: publications in `PlaybackSession`, overtaken
   events in the listening time, and the circuit breaker next to the outbound
   consumer behind `OutboxDelivery`.
