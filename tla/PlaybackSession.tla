---------------------------- MODULE PlaybackSession ----------------------------
(***************************************************************************)
(* The playback session of one listener: the item the skill believes is    *)
(* playing (activePlayback), the queue it came from (playbackQueue) and    *)
(* the successor it has handed to the device (preparedNextContent),        *)
(* against Alexa's AudioPlayer, which reports what it does in events that  *)
(* arrive late, twice, out of order or never.                              *)
(*                                                                         *)
(* A handler is one step: ListenerStore shows that its updates commit as a *)
(* whole.  Time, offsets and durations are counted in ticks of played      *)
(* audio.  Recordings are standalone, not tracks of a publication.         *)
(***************************************************************************)
EXTENDS Integers, Sequences, FiniteSets

CONSTANTS
  Items,         \* content ids
  NoItem,        \* the absence of one
  Pages,         \* the pages of search results behind the listener's queue, each
                 \* without what it repeats (initialize and _merge_page drop that)
  Duration,      \* ticks that a recording lasts
  Commands,      \* what the listener may say besides asking for a search
  Faults,        \* irregularities that may happen, each at most once
  MaxSearches,   \* bound on searches
  MaxInputs,     \* bound on other commands, irregularities and progress reports
  MaxIdle,       \* bound on ticks in which nothing plays
  MaxMail        \* bound on events in flight when the device or the listener acts

Statuses == {"none", "starting", "playing", "paused", "completed", "failed"}
Kinds == {"started", "nearly_finished", "progress", "finished", "stopped", "failed"}
Irregularities ==
  {"reordered", "repeated", "lost", "backend", "unanswered", "failure"}

ASSUME PlaybackAssumption ==
  /\ NoItem \notin Items
  /\ Pages \in Seq(Seq(Items)) /\ Pages # <<>> /\ Pages[1] # <<>>
  /\ \A p \in DOMAIN Pages : \A j, k \in DOMAIN Pages[p] :
       Pages[p][j] = Pages[p][k] => j = k
  /\ Duration \in Nat \ {0}
  /\ Faults \subseteq Irregularities
  /\ {MaxSearches, MaxInputs, MaxIdle, MaxMail} \subseteq Nat

VARIABLES
  store,      \* the listener's document: active, queue, prepared, completed
  player,     \* the device's AudioPlayer
  mail,       \* AudioPlayer requests on their way to the skill, oldest first
  now,        \* the time, in ticks
  stamp,      \* timestamp of the device's latest event
  sent,       \* events the device has sent: their request ids
  used,       \* how much of the bounds is used up
  disorder,   \* the irregularities that have happened
  heard,      \* history: ticks of each item the device has played
  ended       \* history: items the device has played to their end

vars == <<store, player, mail, now, stamp, sent, used, disorder, heard, ended>>

-----------------------------------------------------------------------------
(* The queue.                                                              *)

IndexOf(ids, i) == CHOOSE k \in DOMAIN ids : ids[k] = i
InQueue(q, i) == \E k \in DOMAIN q.ids : q.ids[k] = i

\* Mutant: the index stays where it is.
AtContentUnmoved(q, i) == q

\* The queue with its index at an item.
AtContent(q, i) == IF InQueue(q, i) THEN [q EXCEPT !.index = IndexOf(q.ids, i)] ELSE q

Smallest(numbers) == CHOOSE n \in numbers : \A m \in numbers : n <= m

IsFinished(a) == a.completed \/ a.status = "completed" \/ a.offset >= Duration

FinishedIds(s) ==
  s.completed \union
    IF s.active.item # NoItem /\ IsFinished(s.active) THEN {s.active.item} ELSE {}

NextUnfinished(s, start) ==
  LET open == {k \in DOMAIN s.queue.ids : k >= start /\ s.queue.ids[k] \notin FinishedIds(s)}
  IN  IF open = {} THEN start ELSE Smallest(open)

HasMorePages(q) == q.page < Len(Pages)

\* The items of the next page that the queue does not have yet: the n-th of
\* them is where n have been met.
Unseen(q) ==
  LET page == Pages[q.page + 1]
      new == {k \in DOMAIN page : ~InQueue(q, page[k])}
      Met(n) == {k \in DOMAIN page : Cardinality({j \in new : j <= k}) >= n}
  IN  [n \in 1 .. Cardinality(new) |-> page[Smallest(Met(n))]]

\* Mutant: no page is loaded.
WithSamePage(s) == s

\* load_next_page, when the backend answers.
WithNextPage(s) ==
  IF HasMorePages(s.queue)
  THEN [s EXCEPT !.queue.ids = @ \o Unseen(s.queue), !.queue.page = @ + 1]
  ELSE s

-----------------------------------------------------------------------------
(* The session.                                                            *)

NoSession ==
  [item |-> NoItem, status |-> "none", offset |-> 0, completed |-> FALSE, spent |-> 0,
   obsOffset |-> 0, obsTime |-> 0, eventTime |-> 0, lastId |-> 0, lastKind |-> "none"]

Started(i, offset, time) ==
  [NoSession EXCEPT !.item = i, !.status = "starting", !.offset = offset,
     !.obsOffset = offset, !.obsTime = time, !.eventTime = time]

\* Mutant: only the last request is recognised.
AcceptsOlder(a, e) == a.item = NoItem \/ e.id # a.lastId

\* The timestamp guard of AudioPlayer events.
AcceptsEvent(a, e) ==
  \/ a.item = NoItem
  \/ /\ e.id # a.lastId
     /\ \/ e.time > a.eventTime
        \/ e.time = a.eventTime /\ e.kind # a.lastKind

\* Mutant: the start of a stream counts, too.
ListeningDeltaOnStart(a, kind, offset, time) ==
  IF a.status \notin {"starting", "playing"} \/ offset <= a.obsOffset THEN 0
  ELSE IF a.obsTime > 0 /\ time > a.obsTime THEN time - a.obsTime ELSE offset - a.obsOffset

\* The listening time an observation adds.
ListeningDelta(a, kind, offset, time) ==
  IF a.status \notin {"starting", "playing"} \/ kind = "started" \/ offset <= a.obsOffset
  THEN 0
  ELSE IF a.obsTime > 0 /\ time > a.obsTime
       THEN time - a.obsTime
       ELSE offset - a.obsOffset

ObservedAt(a, kind, status, offset, time) ==
  [a EXCEPT !.status = status, !.offset = offset,
     !.spent = @ + ListeningDelta(a, kind, offset, time),
     !.obsOffset = offset, !.obsTime = time]

\* An observation made by an AudioPlayer event, which leaves its mark.
Observed(a, e, status, offset) ==
  [ObservedAt(a, e.kind, status, offset, e.time) EXCEPT
     !.eventTime = e.time, !.lastId = e.id, !.lastKind = e.kind]

PlayedOut(a) == [a EXCEPT !.completed = TRUE, !.offset = IF @ < Duration THEN Duration ELSE @]

-----------------------------------------------------------------------------
(* The device.  Events are sent as <<kind, token, offset>>.                *)

Sends(rest, events) ==
  /\ mail' = rest \o [k \in DOMAIN events |->
                        [id |-> sent + k, kind |-> events[k][1], token |-> events[k][2],
                         offset |-> events[k][3], time |-> now]]
  /\ sent' = sent + Len(events)
  /\ stamp' = IF events = <<>> THEN stamp ELSE now

Streaming(i, offset) ==
  [token |-> i, offset |-> offset, activity |-> "PLAYING", upcoming |-> NoItem,
   announced |-> FALSE]

StoppedEvents ==
  IF player.activity = "PLAYING" THEN << <<"stopped", player.token, player.offset>> >> ELSE <<>>

Inputs == used.commands + used.reports + Cardinality(disorder \ {"overtaken"})

\* One more irregularity; "overtaken" marks commands given while an event is on
\* its way, which is nobody's fault.
Irregular(kind) ==
  /\ kind \in Faults \ disorder
  /\ Inputs < MaxInputs
  /\ disorder' = disorder \union {kind}

\* Whether the answer of this step, with its directives, reaches the device.
Answered == "unanswered" \notin disorder' \ disorder

NoDirective(rest) == UNCHANGED player /\ Sends(rest, <<>>)

\* A Play directive that replaces the device's queue.
PlayDirective(i, offset) ==
  IF Answered
  THEN /\ player' = Streaming(i, offset)
       /\ Sends(mail, StoppedEvents \o << <<"started", i, offset>> >>)
  ELSE NoDirective(mail)

StopDirective ==
  IF Answered /\ player.activity = "PLAYING"
  THEN /\ player' = [player EXCEPT !.activity = "STOPPED"]
       /\ Sends(mail, StoppedEvents)
  ELSE NoDirective(mail)

\* An ENQUEUE directive: the device ignores it unless its last stream is the
\* expected predecessor; a stream enqueued after that one ended starts at once.
EnqueueDirective(i, previous, rest) ==
  IF ~Answered \/ player.token # previous \/ player.upcoming # NoItem
  THEN NoDirective(rest)
  ELSE IF player.activity = "FINISHED"
       THEN player' = Streaming(i, 0) /\ Sends(rest, << <<"started", i, 0>> >>)
       ELSE player' = [player EXCEPT !.upcoming = i] /\ Sends(rest, <<>>)

Tick ==
  /\ \/ /\ player.activity = "PLAYING" /\ player.offset < Duration
        /\ player' = [player EXCEPT !.offset = @ + 1]
        /\ heard' = [heard EXCEPT ![player.token] = @ + 1]
        /\ ended' = IF player.offset + 1 = Duration THEN ended \union {player.token} ELSE ended
        /\ UNCHANGED used
     \/ /\ player.activity # "PLAYING" /\ used.idle < MaxIdle
        /\ used' = [used EXCEPT !.idle = @ + 1]
        /\ UNCHANGED <<player, heard, ended>>
  /\ now' = now + 1
  /\ UNCHANGED <<store, mail, stamp, sent, disorder>>

MailOpen == Len(mail) < MaxMail

NearlyFinish ==
  /\ MailOpen /\ player.activity = "PLAYING" /\ ~player.announced
  /\ player' = [player EXCEPT !.announced = TRUE]
  /\ Sends(mail, << <<"nearly_finished", player.token, player.offset>> >>)
  /\ UNCHANGED <<store, now, used, disorder, heard, ended>>

Report ==
  /\ MailOpen /\ player.activity = "PLAYING" /\ Inputs < MaxInputs
  /\ used' = [used EXCEPT !.reports = @ + 1]
  /\ Sends(mail, << <<"progress", player.token, player.offset>> >>)
  /\ UNCHANGED <<store, player, now, disorder, heard, ended>>

Finish ==
  /\ MailOpen /\ player.activity = "PLAYING" /\ player.announced /\ player.offset = Duration
  /\ LET done == <<"finished", player.token, Duration>>
     IN  IF player.upcoming = NoItem
         THEN /\ player' = [player EXCEPT !.activity = "FINISHED"]
              /\ Sends(mail, <<done>>)
         ELSE /\ player' = Streaming(player.upcoming, 0)
              /\ Sends(mail, <<done, <<"started", player.upcoming, 0>> >>)
  /\ UNCHANGED <<store, now, used, disorder, heard, ended>>

Fail ==
  /\ MailOpen /\ player.activity = "PLAYING"
  /\ Irregular("failure")
  /\ player' = [player EXCEPT !.activity = "STOPPED"]
  /\ Sends(mail, << <<"failed", player.token, player.offset>> >>)
  /\ UNCHANGED <<store, now, used, heard, ended>>

-----------------------------------------------------------------------------
(* Handlers of AudioPlayer events.  "rest" is the mail without the event.  *)

PlaybackStarted(e, rest) ==
  /\ e.kind = "started"
  /\ \/ /\ e.token = store.active.item
        /\ store' = [store EXCEPT !.active = Observed(@, e, "playing", e.offset)]
     \/ /\ e.token # store.active.item
        /\ e.token = store.prepared
        /\ store' = [store EXCEPT
             !.active = Observed(Started(e.token, e.offset, e.time), e, "playing", e.offset),
             !.queue = AtContent(@, e.token),
             !.prepared = NoItem]
  /\ NoDirective(rest)

\* The successor is looked for in the queue and, if the queue is at its end, on
\* the next page of results; "loads" and "finds" say whether the backend answers.
PlaybackNearlyFinished(e, rest, loads, finds) ==
  /\ e.kind = "nearly_finished"
  /\ e.token = store.active.item
  /\ LET offset == IF e.offset = 0 THEN store.active.offset ELSE e.offset
         seen == [store EXCEPT !.active = Observed(@, e, "playing", offset)]
         atEnd == NextUnfinished(seen, seen.queue.index + 1) \notin DOMAIN seen.queue.ids
         with == IF atEnd /\ loads THEN WithNextPage(seen) ELSE seen
         next == NextUnfinished(with, with.queue.index + 1)
         found == next \in DOMAIN with.queue.ids
     IN  IF found /\ with.queue.ids[next] # store.prepared /\ finds
         THEN /\ store' = [with EXCEPT !.prepared = with.queue.ids[next]]
              /\ EnqueueDirective(with.queue.ids[next], e.token, rest)
         ELSE store' = with /\ NoDirective(rest)

PlaybackFinished(e, rest) ==
  /\ e.kind = "finished"
  /\ e.token = store.active.item
  /\ store' = [store EXCEPT
       !.active = PlayedOut(Observed(@, e, "completed", e.offset)),
       !.queue = AtContent(@, e.token),
       !.completed = @ \union {e.token}]
  /\ NoDirective(rest)

PlaybackStopped(e, rest) ==
  /\ e.kind = "stopped"
  /\ e.token = store.active.item
  /\ store.active.status # "completed"
  /\ store' = [store EXCEPT !.active = Observed(@, e, "paused", e.offset)]
  /\ NoDirective(rest)

PlaybackFailed(e, rest) ==
  /\ e.kind = "failed"
  /\ e.token = store.active.item
  /\ store' = [store EXCEPT !.active = Observed(@, e, "failed", @.offset), !.prepared = NoItem]
  /\ NoDirective(rest)

PlaybackProgress(e, rest) ==
  /\ e.kind = "progress"
  /\ e.token = store.active.item
  /\ store.active.status \in {"starting", "playing", "paused"}
  /\ store' = [store EXCEPT !.active = Observed(@, e, "playing", e.offset)]
  /\ NoDirective(rest)

\* What apply() lets through to the handlers above.
Applies(e) ==
  /\ AcceptsEvent(store.active, e)
  /\ \/ e.token = store.active.item
     \/ e.kind = "started" /\ e.token = store.prepared
  /\ e.kind = "stopped" => store.active.status # "completed"
  /\ e.kind = "progress" => store.active.status \in {"starting", "playing", "paused"}

Apply(e, rest) ==
  \/ PlaybackStarted(e, rest)
  \/ PlaybackNearlyFinished(e, rest, TRUE, TRUE)
  \/ PlaybackFinished(e, rest)
  \/ PlaybackStopped(e, rest)
  \/ PlaybackFailed(e, rest)
  \/ PlaybackProgress(e, rest)

Reject(e, rest) ==
  /\ ~Applies(e)
  /\ NoDirective(rest)
  /\ UNCHANGED store

Handle(e, rest) == (Applies(e) /\ Apply(e, rest)) \/ Reject(e, rest)

Without(k) == SubSeq(mail, 1, k - 1) \o SubSeq(mail, k + 1, Len(mail))

Quiescent == UNCHANGED <<now, used, heard, ended>>

Deliver ==
  /\ mail # <<>>
  /\ UNCHANGED disorder
  /\ Handle(Head(mail), Tail(mail))
  /\ Quiescent

DeliverEarly ==
  /\ Irregular("reordered")
  /\ \E k \in DOMAIN mail \ {1} : Handle(mail[k], Without(k))
  /\ Quiescent

DeliverAndRepeat ==
  /\ mail # <<>>
  /\ Irregular("repeated")
  /\ Handle(Head(mail), mail)
  /\ Quiescent

Lose ==
  /\ mail # <<>>
  /\ Irregular("lost")
  /\ Sends(Tail(mail), <<>>)
  /\ UNCHANGED <<store, player>> /\ Quiescent

\* The backend does not answer while a successor is being looked for, or the
\* device does not get the directive.
DeliverInVain ==
  /\ mail # <<>>
  /\ Applies(Head(mail))
  /\ \/ /\ Irregular("backend")
        /\ \E loads \in BOOLEAN : PlaybackNearlyFinished(Head(mail), Tail(mail), loads, FALSE)
     \/ /\ Irregular("unanswered")
        /\ PlaybackNearlyFinished(Head(mail), Tail(mail), TRUE, TRUE)
  /\ Quiescent

-----------------------------------------------------------------------------
(* Commands.  Each carries the device's playback context.  Its timestamp is *)
(* later than that of every event the device has sent.                     *)

Overtakes == IF mail = <<>> THEN {} ELSE {"overtaken"}

Speaks(faults) ==
  /\ MailOpen
  /\ now > stamp
  /\ \/ disorder' = disorder \union Overtakes
     \/ /\ Inputs + 1 < MaxInputs
        /\ \E kind \in (faults \intersect Faults) \ disorder :
             disorder' = disorder \union Overtakes \union {kind}
  /\ UNCHANGED <<now, heard, ended>>

Gives(command, faults) ==
  /\ command \in Commands
  /\ Inputs < MaxInputs
  /\ used' = [used EXCEPT !.commands = @ + 1]
  /\ Speaks(faults)

\* A search found something: its first page becomes the queue.
Play ==
  /\ used.searches < MaxSearches
  /\ used' = [used EXCEPT !.searches = @ + 1]
  /\ Speaks({"unanswered"})
  /\ LET first == Pages[1][1]
     IN  /\ store' = [store EXCEPT
              !.queue = [ids |-> Pages[1], index |-> 1, page |-> 1],
              !.active = Started(first, 0, now)]
         /\ PlayDirective(first, 0)

\* restart_active and resume_playback
Restart(offset) ==
  /\ store' = [store EXCEPT !.prepared = NoItem,
                 !.active.status = "starting", !.active.offset = offset]
  /\ PlayDirective(store.active.item, offset)

\* play_queue_delta.  The backend may fail to answer the request for the next
\* page, or the one for the item, after which the index is put back.
PlayDelta(delta) ==
  LET Target(s) == IF delta > 0 THEN NextUnfinished(s, s.queue.index + delta)
                   ELSE s.queue.index + delta
      Has(s) == Target(s) \in DOMAIN s.queue.ids
      with == IF Has(store) \/ delta < 0 THEN store ELSE WithNextPage(store)
      Unavailable == "backend" \in disorder' \ disorder
  IN  \/ /\ Has(with) /\ ~Unavailable
         /\ store' = [with EXCEPT !.queue.index = Target(with),
                        !.active = Started(with.queue.ids[Target(with)], 0, now)]
         /\ PlayDirective(with.queue.ids[Target(with)], 0)
      \/ /\ ~Has(with) \/ Unavailable
         /\ store' \in IF Unavailable THEN {store, with} ELSE {with}
         /\ NoDirective(mail)

HasSession == store.active.item # NoItem

Pause ==
  /\ Gives("pause", {"unanswered"})
  /\ store' =
       IF ~HasSession \/ store.active.status = "completed"
       THEN store
       ELSE IF player.activity = "PLAYING" /\ player.token = store.active.item
            THEN [store EXCEPT !.active = ObservedAt(@, "paused", "paused", player.offset, now)]
            ELSE [store EXCEPT !.active.status = "paused"]
  /\ StopDirective

Resume ==
  /\ Gives("resume", {"unanswered", "backend"})
  /\ HasSession
  /\ \/ IsFinished(store.active) /\ PlayDelta(1)
     \/ ~IsFinished(store.active) /\ Restart(store.active.offset)

Repeat == Gives("repeat", {"unanswered"}) /\ HasSession /\ Restart(0)

\* The session a speed change applies to is one that the device still holds.
ChangeSpeed ==
  /\ Gives("speed", {"unanswered"})
  /\ HasSession /\ ~IsFinished(store.active)
  /\ \/ store.active.status \in {"starting", "playing"}
     \/ /\ store.active.status = "paused"
        /\ player.token = store.active.item /\ player.activity # "FINISHED"
  /\ Restart(store.active.offset)

\* Mutant: an offset is not clamped.
SeekRangeUnbounded(direction) == Int

\* Mutant: a seek may reach the end.
SeekRangeToEnd(direction) == 0 .. Duration

\* Where a seek may go: forward it stops short of the end.
SeekRange(direction) == 0 .. (IF direction < 0 THEN Duration ELSE Duration - 1)

\* A seek by one tick.
Seek(direction) ==
  /\ Gives(IF direction > 0 THEN "forward" ELSE "rewind", {"unanswered"})
  /\ HasSession
  /\ player.activity = "PLAYING" => player.token = store.active.item
  /\ LET current == IF player.activity = "PLAYING" THEN player.offset ELSE store.active.offset
     IN  current + direction \in SeekRange(direction) /\ Restart(current + direction)

Skip == Gives("next", {"unanswered", "backend"}) /\ HasSession /\ PlayDelta(1)
Previous == Gives("previous", {"unanswered", "backend"}) /\ HasSession /\ PlayDelta(-1)

-----------------------------------------------------------------------------

\* No session yet: a new listener's document, a silent device.
Init ==
  /\ store = [active |-> NoSession, queue |-> [ids |-> <<>>, index |-> 1, page |-> 1],
              prepared |-> NoItem, completed |-> {}]
  /\ player = [Streaming(NoItem, 0) EXCEPT !.activity = "STOPPED"]
  /\ mail = <<>>
  /\ now = 1 /\ stamp = 0 /\ sent = 0
  /\ used = [searches |-> 0, commands |-> 0, reports |-> 0, idle |-> 0]
  /\ disorder = {}
  /\ heard = [i \in Items |-> 0]
  /\ ended = {}

Device == Tick \/ NearlyFinish \/ Report \/ Finish \/ Fail
Network == Deliver \/ DeliverEarly \/ DeliverAndRepeat \/ Lose \/ DeliverInVain
Listener ==
  Play \/ Pause \/ Resume \/ Repeat \/ ChangeSpeed \/ Seek(1) \/ Seek(-1) \/ Skip \/ Previous

Next == Device \/ Network \/ Listener

Spec == Init /\ [][Next]_vars

-----------------------------------------------------------------------------

\* A session is about the past: what it has seen was sent and has happened.
Sessions ==
  [item : Items \union {NoItem}, status : Statuses, offset : 0 .. Duration,
   completed : BOOLEAN, spent : Nat, obsOffset : 0 .. Duration, obsTime : 0 .. now,
   eventTime : 0 .. now, lastId : 0 .. sent, lastKind : Kinds \union {"none"}]

Queues == [ids : Seq(Items), index : Nat, page : Nat]

Documents ==
  [active : Sessions, queue : Queues, prepared : Items \union {NoItem},
   completed : SUBSET Items]

Players ==
  [token : Items \union {NoItem}, offset : 0 .. Duration, upcoming : Items \union {NoItem},
   activity : {"PLAYING", "STOPPED", "FINISHED"}, announced : BOOLEAN]

Events ==
  [id : 1 .. sent, kind : Kinds, token : Items, offset : 0 .. Duration, time : 1 .. now]

\* Every variable keeps its type; an offset stays within the recording, and
\* nothing carries a time that is still to come.
TypeOK ==
  /\ store \in Documents
  /\ player \in Players
  /\ mail \in Seq(Events)
  /\ now \in Nat \ {0} /\ stamp \in 0 .. now /\ sent \in Nat
  /\ used \in [searches : 0 .. MaxSearches, commands : 0 .. MaxInputs,
               reports : 0 .. MaxInputs, idle : 0 .. MaxIdle]
  /\ disorder \subseteq Irregularities \union {"overtaken"}
  /\ heard \in [Items -> Nat]
  /\ ended \subseteq Items

\* The queue's currentIndex and activePlayback are written apart (move and start,
\* set_index_for_content and start_session): after any sequence of commands and
\* events, however irregular, the index points at the active item, so that
\* "next" and the prefetch count from what is playing.  Only when the answer to a
\* second search is lost may the device start what an older queue prepared.
CursorAtActive ==
  HasSession /\ InQueue(store.queue, store.active.item)
    => store.queue.ids[store.queue.index] = store.active.item

\* Once all events of the device are handled, each once and in order, the
\* document describes the device: its item, whether it plays, and for a stopped
\* stream the offset from which "resume" goes on, also if one command was handled
\* while older events were still on their way.  (After two such commands a prefetch
\* that came late for one stream of an item may take the next one back.)
InStep ==
  /\ mail = <<>> /\ player.token # NoItem
  /\ \/ disorder = {}
     \/ disorder = {"overtaken"} /\ used.searches + used.commands <= 2
  => /\ store.active.item = player.token
     /\ player.activity = "PLAYING" => store.active.status = "playing"
     /\ player.activity = "STOPPED" =>
          store.active.status = "paused" /\ store.active.offset = player.offset
     /\ player.activity = "FINISHED" => store.active.status = "completed"

\* timeSpentMs is time the listener has heard: playback_observation adds no
\* pause and no seek distance, whatever commands were given between two events.
TimeWasHeard ==
  HasSession /\ disorder = {} => store.active.spent <= heard[store.active.item]

\* What is recorded as finished, and so passed over by "next" and by the
\* prefetch, has been played to its end: a seek stops short of it, and no late,
\* lost or repeated event completes an item.
FinishedWasHeard == FinishedIds(store) \subseteq ended

HasSuccessor ==
  NextUnfinished(store, store.queue.index + 1) \in DOMAIN store.queue.ids

\* PlaybackNearlyFinished is answered with an ENQUEUE of the next item: once it
\* is handled, the device has a successor if the queue has one.
SuccessorEnqueued ==
  /\ mail = <<>> /\ disorder = {}
  /\ player.activity = "PLAYING" /\ player.announced /\ HasSuccessor
  => player.upcoming # NoItem

\* When the device moves on by itself, the session that follows it (_start, for
\* the prepared item) goes forward in the queue and passes over nothing the
\* listener has not heard, even if events are late or lost or an answer did not
\* reach the device.
NothingSkipped ==
  [][used' = used /\ store'.active.item # store.active.item
     => LET ids == store.queue.ids
            from == IndexOf(ids, store.active.item)
            to == IndexOf(ids, store'.active.item)
        IN  from < to /\ \A k \in from + 1 .. to - 1 : ids[k] \in ended]_vars

\* A prepared item that the device does not have.
Stale == store.prepared \notin {NoItem, player.upcoming, player.token}

\* Every page has an item that the pages before it have not.
PagesAdd ==
  \A p \in DOMAIN Pages \ {1} : \E k \in DOMAIN Pages[p] :
    \A q \in 1 .. p - 1 : \A j \in DOMAIN Pages[q] : Pages[q][j] # Pages[p][k]

\* The device falls silent only at the end of the results: once every event is
\* handled in order, a finished player means that neither the queue nor a
\* further page (load_next_page) has an unfinished item, unless what is prepared
\* is stale, or a page added nothing (the prefetch asks for one page only).
SilentOnlyAtEnd ==
  /\ PagesAdd
  /\ mail = <<>> /\ disorder \subseteq {"overtaken"} /\ player.activity = "FINISHED" /\ ~Stale
  => ~HasSuccessor /\ ~HasMorePages(store.queue)

-----------------------------------------------------------------------------
(* Inductive invariants, used by the proofs *)

\* A device that is not stopped has an item.
PlaysSomething == player.activity # "STOPPED" => player.token \in Items

\* Whatever says that an item is at its end, in the document, at the device or
\* on its way, says it of an item that was played to its end.
EndWasHeard ==
  /\ FinishedWasHeard
  /\ player.token # NoItem /\ player.offset >= Duration => player.token \in ended
  /\ \A k \in DOMAIN mail :
       mail[k].kind = "finished" \/ mail[k].offset >= Duration => mail[k].token \in ended

\* No event is newer than the device's latest.
MailIsPast == \A k \in DOMAIN mail : mail[k].time <= stamp

\* Without a search there is no session, and without a session the device is
\* silent.
SilentBeforeSearch ==
  /\ used.searches = 0 => ~HasSession
  /\ ~HasSession => mail = <<>> /\ player.upcoming = NoItem /\ player.activity = "STOPPED"

\* What the device will start, and every start that the session would still
\* accept, is of an item in the queue.
StartsFromQueue ==
  /\ player.upcoming = NoItem \/ InQueue(store.queue, player.upcoming)
  /\ \A k \in DOMAIN mail :
       mail[k].kind = "started" /\ mail[k].time >= store.active.eventTime
         => InQueue(store.queue, mail[k].token)

\* The index is the active item's place in the queue.
CursorInQueue ==
  HasSession => /\ store.queue.index \in DOMAIN store.queue.ids
                /\ store.queue.ids[store.queue.index] = store.active.item

CursorInv == MailIsPast /\ SilentBeforeSearch /\ StartsFromQueue /\ CursorInQueue

\* Every item of the queue has one place in it.
Distinct(ids) == \A j, k \in DOMAIN ids : ids[j] = ids[k] => j = k

\* The item that comes after the active one, if there is one.
NextPlace(s) == NextUnfinished(s, s.queue.index + 1)
HasNext(s) == NextPlace(s) \in DOMAIN s.queue.ids
NextItem(s) == s.queue.ids[NextPlace(s)]

\* An item comes after the active one with only items of a set before it.
Ahead(s, i, passed) ==
  \E to \in DOMAIN s.queue.ids :
    /\ s.queue.index < to /\ s.queue.ids[to] = i
    /\ \A k \in s.queue.index + 1 .. to - 1 : s.queue.ids[k] \in passed

\* A start that the session would accept as its successor goes forward to it over
\* what was heard, ...
StartsAhead ==
  /\ store.prepared # store.active.item =>
       \A k \in DOMAIN mail :
         /\ mail[k].kind = "started" /\ mail[k].token = store.prepared
         /\ mail[k].time >= store.active.eventTime
         => Ahead(store, store.prepared, ended)
  /\ player.upcoming = store.prepared /\ store.prepared \notin {NoItem, store.active.item}
       => Ahead(store, store.prepared, ended \union {player.token})

\* ... because, while every answer reaches the device, what the device was handed
\* is the next item after the one it plays, or one that the session has reached.
HandedNext ==
  player.upcoming # NoItem /\ "unanswered" \notin disorder =>
    \/ /\ store.active.item = player.token
       /\ HasNext(store) /\ NextItem(store) = player.upcoming
       /\ store.prepared \in {NoItem, player.upcoming}
    \/ /\ store.prepared # player.upcoming
       /\ \E to \in DOMAIN store.queue.ids :
            to <= store.queue.index /\ store.queue.ids[to] = player.upcoming

SkipInv == Distinct(store.queue.ids) /\ StartsAhead /\ HandedNext

\* The events on their way are in the order in which the device sent them, and the
\* session has seen none of them.
MailInOrder ==
  LET active == store.active
  IN  /\ active.eventTime <= stamp
      /\ \A k \in DOMAIN mail : active.lastId < mail[k].id /\ active.eventTime <= mail[k].time
      /\ \A j, k \in DOMAIN mail :
           j < k => mail[j].id < mail[k].id /\ mail[j].time <= mail[k].time

\* Each stream announces its end once.  What the device has been handed is what the
\* session has prepared, until its start has been handled.
PrefetchInStep ==
  /\ \A k \in DOMAIN mail : mail[k].kind = "nearly_finished" =>
       /\ player.announced /\ player.upcoming = NoItem
       /\ \A j \in DOMAIN mail : mail[j].kind = "nearly_finished" => j = k
  /\ player.upcoming # NoItem =>
       /\ player.announced /\ store.prepared = player.upcoming
       /\ \A k \in DOMAIN mail : mail[k].kind # "started"

Runs(m) == m.kind \in {"nearly_finished", "progress"}

\* What the events on their way say of the device's stream when no start is among
\* them: that it runs, and what ended it, if something did.
ToldOfStream ==
  \A k \in DOMAIN mail :
    /\ mail[k].token = player.token /\ mail[k].kind # "started"
    /\ player.activity = "PLAYING" => Runs(mail[k])
    /\ player.activity = "STOPPED" =>
         Len(mail) = 1 /\ mail[k].kind = "stopped" /\ mail[k].offset = player.offset
    /\ player.activity = "FINISHED" =>
         IF k = Len(mail) THEN mail[k].kind = "finished" ELSE Runs(mail[k])

\* No start is on its way: the session is that of the device's stream, and what it
\* does not say yet of the stream is said by the last event on its way.
Follows ==
  LET active == store.active
  IN  /\ active.item = player.token /\ ToldOfStream
      /\ player.activity = "PLAYING" =>
           /\ active.status = "playing"
           /\ player.offset = Duration /\ active.lastKind = "started" => active.eventTime < now
      /\ player.activity = "STOPPED" =>
           active.status = "paused" /\ active.offset = player.offset
      /\ player.activity = "FINISHED" =>
           active.status = IF mail = <<>> THEN "completed" ELSE "playing"

\* The start at k is the device's stream, and the session will accept it.
Awaits(k) ==
  LET active == store.active
  IN  /\ player.activity # "STOPPED"
      /\ mail[k].kind = "started" /\ mail[k].token = player.token
      /\ active.item = player.token \/ store.prepared = player.token
      /\ active.lastKind = "started" => active.eventTime < mail[k].time
      /\ player.activity = "PLAYING" /\ player.offset = Duration => mail[k].time < now
      /\ \A j \in DOMAIN mail : j < k => mail[j].kind \in {"stopped", "progress", "finished"}
      /\ \A j \in DOMAIN mail : j > k =>
           /\ mail[j].token = player.token
           /\ IF player.activity = "FINISHED" /\ j = Len(mail)
              THEN mail[j].kind = "finished" ELSE Runs(mail[j])
      /\ player.activity = "FINISHED" => k < Len(mail)

\* A session that plays has last seen its stream running.
PlayingWasSeen ==
  store.active.status = "playing" =>
    store.active.lastKind \in {"started", "nearly_finished", "progress"}

\* With every event handled in order before the next command, the document and the
\* events on their way describe the device.
InStepInv ==
  /\ MailInOrder /\ PrefetchInStep /\ PlayingWasSeen
  /\ player.token = NoItem => mail = <<>> /\ ~HasSession
  /\ player.token # NoItem => Follows \/ \E k \in DOMAIN mail : Awaits(k)

\* A stream gets from one offset to another in as much time.
Lasts(offset, time, later, then) == offset <= later /\ later - offset = then - time

\* At this offset of its item the session will have counted, with more on top, no
\* time that was not heard.
Counted(offset, time, more) ==
  LET active == store.active
  IN  /\ Lasts(active.obsOffset, active.obsTime, offset, time)
      /\ active.spent + (offset - active.obsOffset) + more <= heard[active.item]

\* No start is on its way: that holds of each event and of the device's position.
HeardSo ==
  /\ store.active.spent <= heard[store.active.item]
  /\ \A k \in DOMAIN mail : Counted(mail[k].offset, mail[k].time, 0)
  /\ player.activity = "PLAYING" => Counted(player.offset, now, 0)

\* The start at k is on its way: the session adds what is told of its item before k,
\* and what is played after k if that is of the same item.
HeardSince(k) ==
  LET after == player.offset - mail[k].offset
      more == IF store.active.item = player.token THEN after ELSE 0
  IN  /\ store.active.spent + more <= heard[store.active.item] /\ after <= heard[player.token]
      /\ \A j \in DOMAIN mail :
           IF j < k
           THEN mail[j].token = store.active.item => Counted(mail[j].offset, mail[j].time, more)
           ELSE /\ Lasts(mail[k].offset, mail[k].time, mail[j].offset, mail[j].time)
                /\ mail[j].offset <= player.offset
      /\ player.activity = "PLAYING" =>
           Lasts(mail[k].offset, mail[k].time, player.offset, now)

\* A session that plays was observed where it is, and the time that it counts, now
\* and for what is on its way, was heard.
TimeInv ==
  /\ store.active.status = "playing" => store.active.offset = store.active.obsOffset
  /\ HasSession /\ (\A k \in DOMAIN mail : mail[k].kind # "started") => HeardSo
  /\ \A k \in DOMAIN mail : mail[k].kind = "started" => HeardSince(k)

\* The queue holds items of the pages that were loaded.
FromPages(q) ==
  /\ q.page \in DOMAIN Pages
  /\ \A k \in DOMAIN q.ids : \E p \in 1 .. q.page :
       \E j \in DOMAIN Pages[p] : Pages[p][j] = q.ids[k]

Told(kind) == \E k \in DOMAIN mail : mail[k].kind = kind

\* Neither the queue nor a further page has an item after the active one.
AtLastItem(q) == q.index = Len(q.ids) /\ ~HasMorePages(q)

\* A stream whose end was announced in vain is the last one, or what comes after it
\* is prepared already; ...
AnnouncedInVain ==
  player.announced /\ player.activity # "STOPPED" /\ player.upcoming = NoItem
  /\ ~Told("nearly_finished")
  => ~Told("started") /\ (Stale \/ AtLastItem(store.queue))

\* ... until the announcement is handled, the session has not seen it.
AnnouncementUnseen ==
  HasSession /\ ~Told("started") /\ (~player.announced \/ Told("nearly_finished"))
  => store.active.lastKind # "nearly_finished"

SilentInv ==
  /\ player.activity = "FINISHED" => player.announced /\ player.upcoming = NoItem
  /\ AnnouncedInVain /\ AnnouncementUnseen

=============================================================================
