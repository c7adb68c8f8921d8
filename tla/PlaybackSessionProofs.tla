------------------------- MODULE PlaybackSessionProofs -------------------------
(***************************************************************************)
(* Whatever the listener says and whatever happens to the device's events: *)
(* every variable keeps its type, what is recorded as finished has been    *)
(* played to its end, the queue's index stays at the active item, a        *)
(* session that moves on by itself passes over nothing unheard; and with   *)
(* the events handled in order the document describes the device, only     *)
(* what was heard is counted as listening time, and the device falls       *)
(* silent only at the end of the results.                                  *)
(*                                                                         *)
(* A step of the network hands one event to its handler and leaves some of *)
(* the others; a command replaces, stops or leaves the device's stream.    *)
(* The lemmas state what each of these does to the device and the mail, so *)
(* that an invariant is left with one case per handler and command.        *)
(***************************************************************************)
EXTENDS PlaybackSession, TLAPS, SequenceTheorems, FiniteSetTheorems, WellFoundedInduction

-----------------------------------------------------------------------------
(* The queue *)

\* A set of natural numbers has a smallest one.
LEMMA SmallestIsLeast ==
  ASSUME NEW numbers \in SUBSET Nat, numbers # {}
  PROVE  /\ Smallest(numbers) \in numbers
         /\ \A n \in numbers : Smallest(numbers) <= n
<1>1. \E n \in numbers : \A m \in numbers : ~(<<m, n>> \in OpToRel(<, Nat))
  BY NatLessThanWellFounded, WFMin
<1>2. \A n \in numbers : \A m \in numbers : ~(<<m, n>> \in OpToRel(<, Nat)) => n <= m
  BY DEF OpToRel
<1> QED BY <1>1, <1>2 DEF Smallest

\* The new items of a page are items.
LEMMA UnseenTyped ==
  ASSUME NEW q \in Queues, HasMorePages(q) PROVE Unseen(q) \in Seq(Items)
<1> DEFINE page == Pages[q.page + 1]
           new == {k \in DOMAIN page : ~InQueue(q, page[k])}
           Met(n) == {k \in DOMAIN page : Cardinality({j \in new : j <= k}) >= n}
<1>1. q.page + 1 \in 1 .. Len(Pages)
  BY PlaybackAssumption, LenProperties DEF HasMorePages, Queues
<1>2. page \in Seq(Items) BY <1>1, PlaybackAssumption, ElementOfSeq
<1>3. DOMAIN page = 1 .. Len(page) /\ Len(page) \in Nat BY <1>2, LenProperties
<1>4. IsFiniteSet(new)
  <2>1. IsFiniteSet(1 .. Len(page)) BY <1>3, FS_Interval
  <2> QED BY <1>3, <2>1, FS_Subset
<1>5. Cardinality(new) \in Nat BY <1>4, FS_CardinalityType
<1>6. ASSUME NEW n \in 1 .. Cardinality(new) PROVE page[Smallest(Met(n))] \in Items
  <2>1. {j \in new : j <= Len(page)} = new BY <1>3
  <2>2. new # {} BY <1>5, FS_EmptySet
  <2>3. Len(page) \in DOMAIN page BY <1>3, <2>2
  <2>4. Len(page) \in Met(n)
    <3>1. Cardinality({j \in new : j <= Len(page)}) = Cardinality(new) BY <2>1
    <3>2. Cardinality(new) >= n BY <1>5
    <3>3. Cardinality({j \in new : j <= Len(page)}) >= n BY <3>1, <3>2
    <3> QED BY <2>3, <3>3
  <2>5. Met(n) \in SUBSET Nat BY <1>3
  <2>6. Smallest(Met(n)) \in Met(n) BY <2>4, <2>5, SmallestIsLeast
  <2>7. Smallest(Met(n)) \in DOMAIN page BY <2>6
  <2> QED BY <1>2, <1>3, <2>7, ElementOfSeq
<1>7. [n \in 1 .. Cardinality(new) |-> page[Smallest(Met(n))]] \in Seq(Items)
  <2> HIDE DEF new, Met, page
  <2>1. \A n \in 1 .. Cardinality(new) : page[Smallest(Met(n))] \in Items BY <1>6
  <2> QED BY <1>5, <2>1, IsASeq
<1> QED BY <1>7 DEF Unseen

\* The queue never loses an item: a further page is appended.
LEMMA NextPageAppends ==
  ASSUME NEW s \in Documents, NEW t, t = WithNextPage(s)
  PROVE  /\ t \in Documents /\ t.queue.index = s.queue.index
         /\ t.active = s.active /\ t.prepared = s.prepared /\ t.completed = s.completed
         /\ DOMAIN s.queue.ids \subseteq DOMAIN t.queue.ids
         /\ \A k \in DOMAIN s.queue.ids : t.queue.ids[k] = s.queue.ids[k]
<1>1. CASE ~HasMorePages(s.queue) BY <1>1 DEF WithNextPage
<1>2. CASE HasMorePages(s.queue)
  <2> DEFINE u == Unseen(s.queue)
  <2>1. s.queue.ids \in Seq(Items) /\ u \in Seq(Items)
    BY <1>2, UnseenTyped DEF Documents, Queues
  <2> HIDE DEF u
  <2>2. /\ s.queue.ids \o u \in Seq(Items)
        /\ DOMAIN s.queue.ids \subseteq DOMAIN (s.queue.ids \o u)
        /\ \A k \in DOMAIN s.queue.ids : (s.queue.ids \o u)[k] = s.queue.ids[k]
    BY <2>1, ConcatProperties, LenProperties
  <2>3. t = [s EXCEPT !.queue.ids = @ \o u, !.queue.page = @ + 1]
    BY <1>2 DEF WithNextPage, u
  <2>4. t.queue = [ids |-> s.queue.ids \o u, index |-> s.queue.index,
                   page |-> s.queue.page + 1]
    BY <2>3 DEF Documents, Queues
  <2>5. s.queue.page + 1 \in Nat BY DEF Documents, Queues
  <2>6. t \in Documents BY <2>2, <2>3, <2>5 DEF Documents, Queues
  <2>7. t.active = s.active /\ t.prepared = s.prepared /\ t.completed = s.completed
    BY <2>3 DEF Documents
  <2>8. t.queue.ids = s.queue.ids \o u /\ t.queue.index = s.queue.index BY <2>4
  <2> QED BY <2>2, <2>6, <2>7, <2>8
<1> QED BY <1>1, <1>2

\* An item of the queue is found in it.
LEMMA IndexFound ==
  ASSUME NEW q \in Queues, NEW i, InQueue(q, i)
  PROVE  IndexOf(q.ids, i) \in DOMAIN q.ids /\ q.ids[IndexOf(q.ids, i)] = i
BY DEF IndexOf, InQueue

LEMMA AtContentKeeps ==
  ASSUME NEW q \in Queues, NEW i
  PROVE  /\ AtContent(q, i) \in Queues /\ AtContent(q, i).ids = q.ids
         /\ InQueue(q, i) => /\ AtContent(q, i).index \in DOMAIN q.ids
                             /\ q.ids[AtContent(q, i).index] = i
<1>1. DOMAIN q.ids \subseteq Nat BY LenProperties DEF Queues
<1> QED BY <1>1, IndexFound DEF AtContent, Queues

-----------------------------------------------------------------------------
(* The mail *)

\* Mail the skill has not handled yet.
Rest(rest) ==
  /\ rest \in Seq(Events)
  /\ \A k \in DOMAIN rest : \E j \in DOMAIN mail : rest[k] = mail[j]

LEMMA MailRests ==
  ASSUME TypeOK
  PROVE  /\ Rest(mail)
         /\ mail # <<>> => Rest(Tail(mail)) /\ Head(mail) = mail[1] /\ 1 \in DOMAIN mail
         /\ \A k \in DOMAIN mail : mail[k] \in Events
<1>1. mail \in Seq(Events) /\ DOMAIN mail = 1 .. Len(mail) /\ Len(mail) \in Nat
  BY LenProperties DEF TypeOK
<1>2. \A k \in DOMAIN mail : mail[k] \in Events BY <1>1, ElementOfSeq
<1>3. ASSUME mail # <<>>
      PROVE  Rest(Tail(mail)) /\ Head(mail) = mail[1] /\ 1 \in DOMAIN mail
  <2>1. /\ Tail(mail) \in Seq(Events) /\ Len(Tail(mail)) = Len(mail) - 1
        /\ \A k \in 1 .. Len(Tail(mail)) : Tail(mail)[k] = mail[k + 1]
        /\ Head(mail) = mail[1] /\ Len(mail) > 0
    BY <1>1, <1>3, HeadTailProperties, EmptySeq
  <2>2. DOMAIN Tail(mail) = 1 .. Len(Tail(mail)) BY <2>1, LenProperties
  <2>3. \A k \in DOMAIN Tail(mail) : k + 1 \in DOMAIN mail /\ Tail(mail)[k] = mail[k + 1]
    BY <1>1, <2>1, <2>2
  <2> QED BY <1>1, <2>1, <2>3 DEF Rest
<1> QED BY <1>1, <1>2, <1>3 DEF Rest

LEMMA WithoutRests ==
  ASSUME TypeOK, NEW i \in DOMAIN mail PROVE Rest(Without(i))
<1> DEFINE before == SubSeq(mail, 1, i - 1)
           after  == SubSeq(mail, i + 1, Len(mail))
<1>1. mail \in Seq(Events) /\ DOMAIN mail = 1 .. Len(mail) /\ Len(mail) \in Nat
  BY LenProperties DEF TypeOK
<1>2. /\ before \in Seq(Events) /\ Len(before) = i - 1
      /\ \A k \in 1 .. Len(before) : before[k] = mail[k]
  BY <1>1, SubSeqProperties
<1>3. /\ after \in Seq(Events) /\ Len(after) = Len(mail) - i
      /\ \A k \in 1 .. Len(after) : after[k] = mail[i + k]
  BY <1>1, SubSeqProperties
<1> HIDE DEF before, after
<1>4. /\ before \o after \in Seq(Events)
      /\ Len(before \o after) = Len(before) + Len(after)
      /\ \A k \in 1 .. Len(before) + Len(after) :
           (before \o after)[k] = IF k <= Len(before) THEN before[k]
                                                      ELSE after[k - Len(before)]
  BY <1>2, <1>3, ConcatProperties
<1>5. DOMAIN (before \o after) = 1 .. Len(before) + Len(after)
  BY <1>4, LenProperties
<1>6. ASSUME NEW k \in DOMAIN (before \o after)
      PROVE  \E j \in DOMAIN mail : (before \o after)[k] = mail[j]
  <2>1. k \in 1 .. Len(before) + Len(after) /\ i \in 1 .. Len(mail) BY <1>1, <1>5
  <2>2. CASE k <= Len(before)
    <3>1. k \in DOMAIN mail /\ (before \o after)[k] = mail[k]
      BY <1>1, <1>2, <1>4, <2>1, <2>2
    <3> QED BY <3>1
  <2>3. CASE k > Len(before)
    <3>1. /\ k - Len(before) \in 1 .. Len(after)
          /\ (before \o after)[k] = after[k - Len(before)]
      BY <1>1, <1>2, <1>3, <1>4, <2>1, <2>3
    <3>2. i \in Nat /\ i >= 1 /\ k - Len(before) \in 1 .. Len(mail) - i
      BY <1>1, <1>3, <2>1, <3>1
    <3>3. i + (k - Len(before)) \in DOMAIN mail BY <1>1, <3>2
    <3> QED BY <1>3, <3>1, <3>3
  <2> QED BY <1>2, <2>1, <2>2, <2>3
<1> QED BY <1>4, <1>6 DEF Rest, Without, before, after

\* An event the device has just sent.
IsNew(m, event) == m.kind = event[1] /\ m.token = event[2] /\ m.offset = event[3] /\ m.time = now

\* The mail keeps its type, and nothing in it is newer than the latest event.
MailTyped ==
  /\ mail' \in Seq(Events')
  /\ sent' \in Nat /\ sent <= sent' /\ stamp' \in {stamp, now}
  /\ MailIsPast => MailIsPast'

\* What the device sends is typed and dated now, and the mail is what was left
\* of it and what is sent.
LEMMA Sent ==
  ASSUME TypeOK, NEW rest, Rest(rest), NEW events \in Seq(Kinds \X Items \X (0 .. Duration)),
         Sends(rest, events), now' = now
  PROVE  /\ MailTyped
         /\ \A k \in DOMAIN mail' :
              \/ \E j \in DOMAIN mail : mail'[k] = mail[j]
              \/ \E j \in DOMAIN events : IsNew(mail'[k], events[j])
<1> DEFINE letter(k) == [id |-> sent + k, kind |-> events[k][1], token |-> events[k][2],
                         offset |-> events[k][3], time |-> now]
           letters == [k \in DOMAIN events |-> letter(k)]
<1>1. DOMAIN events = 1 .. Len(events) /\ Len(events) \in Nat BY LenProperties
<1>2. sent' = sent + Len(events) /\ sent \in Nat /\ now \in Nat \ {0}
  BY DEF Sends, TypeOK
<1>3. Events \subseteq Events'
  BY <1>1, <1>2 DEF Events
<1>4. ASSUME NEW k \in 1 .. Len(events) PROVE letter(k) \in Events'
  <2>1. events[k] \in Kinds \X Items \X (0 .. Duration) BY <1>1, <1>4, ElementOfSeq
  <2>2. sent + k \in 1 .. sent' /\ now \in 1 .. now' BY <1>1, <1>2, <1>4
  <2> QED BY <2>1, <2>2 DEF Events
<1>5. letters \in Seq(Events') /\ Len(letters) = Len(events)
  <2>1. letters = [k \in 1 .. Len(events) |-> letter(k)] BY <1>1
  <2> HIDE DEF letter
  <2> QED BY <1>1, <1>4, <2>1, IsASeq
<1>6. rest \in Seq(Events') /\ Len(rest) \in Nat /\ DOMAIN rest = 1 .. Len(rest)
  BY <1>3, SeqMonotonic, LenProperties DEF Rest
<1>7. mail' = rest \o letters BY DEF Sends
<1>8. \A k \in 1 .. Len(events) : letters[k] = letter(k) BY <1>1
<1> HIDE DEF letters
<1>9. /\ mail' \in Seq(Events') /\ Len(mail') = Len(rest) + Len(events)
      /\ \A k \in 1 .. Len(mail') :
           mail'[k] = IF k <= Len(rest) THEN rest[k] ELSE letters[k - Len(rest)]
  <2>1. /\ rest \o letters \in Seq(Events')
        /\ Len(rest \o letters) = Len(rest) + Len(letters)
        /\ \A k \in 1 .. Len(rest) + Len(letters) : (rest \o letters)[k] =
             IF k <= Len(rest) THEN rest[k] ELSE letters[k - Len(rest)]
    BY <1>5, <1>6, ConcatProperties
  <2> QED BY <1>5, <1>7, <2>1
<1>10. ASSUME NEW k \in DOMAIN mail'
       PROVE  \/ \E j \in DOMAIN mail : mail'[k] = mail[j]
              \/ \E j \in DOMAIN events : IsNew(mail'[k], events[j])
  <2>1. k \in 1 .. Len(mail') BY <1>9, LenProperties
  <2>2. CASE k <= Len(rest) BY <1>6, <1>9, <2>1, <2>2 DEF Rest
  <2>3. CASE k > Len(rest)
    <3>1. k - Len(rest) \in 1 .. Len(events) /\ mail'[k] = letters[k - Len(rest)]
      BY <1>1, <1>6, <1>9, <2>1, <2>3
    <3>2. mail'[k] = letter(k - Len(rest)) BY <1>8, <3>1
    <3>3. IsNew(letter(k - Len(rest)), events[k - Len(rest)]) BY DEF IsNew
    <3>4. IsNew(mail'[k], events[k - Len(rest)]) BY <3>2, <3>3
    <3> QED BY <1>1, <3>1, <3>4
  <2> QED BY <1>6, <2>1, <2>2, <2>3
<1>11. stamp' \in {stamp, now} /\ (events # <<>> => stamp' = now) BY DEF Sends
<1>12. sent' \in Nat /\ sent <= sent' BY <1>1, <1>2
<1>13. ASSUME MailIsPast PROVE MailIsPast'
  <2>1. stamp \in Nat /\ stamp <= now /\ now \in Nat BY DEF TypeOK
  <2>2. ASSUME NEW k \in DOMAIN mail' PROVE mail'[k].time <= stamp'
    <3>1. CASE \E j \in DOMAIN mail : mail'[k] = mail[j]
      <4>1. PICK j \in DOMAIN mail : mail'[k] = mail[j] BY <3>1
      <4>2. mail[j].time <= stamp BY <1>13 DEF MailIsPast
      <4>3. mail[j].time \in Nat BY MailRests DEF Events
      <4> QED BY <1>11, <2>1, <4>1, <4>2, <4>3
    <3>2. CASE \E j \in DOMAIN events : IsNew(mail'[k], events[j])
      <4>1. events # <<>> /\ mail'[k].time = now BY <3>2 DEF IsNew
      <4> QED BY <1>11, <2>1, <4>1
    <3> QED BY <1>10, <3>1, <3>2
  <2> QED BY <2>2 DEF MailIsPast
<1> QED BY <1>9, <1>10, <1>11, <1>12, <1>13 DEF MailTyped

-----------------------------------------------------------------------------
(* The device *)

Calls == Kinds \X Items \X (0 .. Duration)

\* The device and its mail keep their types.
DeviceTyped ==
  /\ player' \in Players /\ PlaysSomething' /\ MailTyped

Old(m) == \E j \in DOMAIN mail : m = mail[j]

\* The events that a replaced stream leaves.
IsStopped(m) ==
  player.activity = "PLAYING" /\ IsNew(m, <<"stopped", player.token, player.offset>>)

LEMMA OneCall ==
  ASSUME NEW call \in Calls
  PROVE  <<call>> \in Seq(Calls) /\ DOMAIN <<call>> = {1} /\ <<call>>[1] = call
OBVIOUS

LEMMA TwoCalls ==
  ASSUME NEW c \in Calls, NEW d \in Calls
  PROVE  /\ <<c>> \o <<d>> \in Seq(Calls) /\ DOMAIN (<<c>> \o <<d>>) = {1, 2}
         /\ (<<c>> \o <<d>>)[1] = c /\ (<<c>> \o <<d>>)[2] = d
OBVIOUS

LEMMA StoppedCalls ==
  ASSUME TypeOK, PlaysSomething
  PROVE  /\ StoppedEvents \in Seq(Calls)
         /\ \A j \in DOMAIN StoppedEvents :
              /\ player.activity = "PLAYING"
              /\ StoppedEvents[j] = <<"stopped", player.token, player.offset>>
<1>1. CASE player.activity = "PLAYING"
  <2>1. <<"stopped", player.token, player.offset>> \in Calls
    BY <1>1 DEF TypeOK, Players, PlaysSomething, Calls, Kinds
  <2> QED BY <1>1, <2>1, OneCall DEF StoppedEvents
<1>2. CASE player.activity # "PLAYING"
  BY <1>2 DEF StoppedEvents
<1> QED BY <1>1, <1>2

\* A stream just started.
LEMMA StreamingTyped ==
  ASSUME NEW i \in Items, NEW offset \in 0 .. Duration
  PROVE  /\ Streaming(i, offset) \in Players
         /\ Streaming(i, offset).token = i /\ Streaming(i, offset).offset = offset
         /\ Streaming(i, offset).upcoming = NoItem
         /\ Streaming(i, offset).activity = "PLAYING"
BY DEF Streaming, Players

LEMMA NoDirectiveStep ==
  ASSUME TypeOK, PlaysSomething, NEW rest, Rest(rest), NoDirective(rest), now' = now
  PROVE  DeviceTyped /\ player' = player /\ \A k \in DOMAIN mail' : Old(mail'[k])
<1>1. Sends(rest, <<>>) /\ player' = player BY DEF NoDirective
<1>2. <<>> \in Seq(Calls) /\ DOMAIN <<>> = {} OBVIOUS
<1>3. /\ MailTyped
      /\ \A k \in DOMAIN mail' :
           \/ \E j \in DOMAIN mail : mail'[k] = mail[j]
           \/ \E j \in DOMAIN <<>> : IsNew(mail'[k], <<>>[j])
  BY <1>1, <1>2, Sent DEF Calls
<1>4. \A k \in DOMAIN mail' : Old(mail'[k]) BY <1>2, <1>3 DEF Old
<1> QED BY <1>1, <1>3, <1>4 DEF DeviceTyped, TypeOK, PlaysSomething

LEMMA PlayDirectiveStep ==
  ASSUME TypeOK, PlaysSomething, NEW i \in Items, NEW offset \in 0 .. Duration,
         PlayDirective(i, offset), now' = now
  PROVE  /\ DeviceTyped
         /\ IF Answered THEN player' = Streaming(i, offset) ELSE player' = player
         /\ \A k \in DOMAIN mail' :
              \/ Old(mail'[k])
              \/ Answered /\ IsStopped(mail'[k])
              \/ Answered /\ IsNew(mail'[k], <<"started", i, offset>>)
<1>0. Rest(mail) BY MailRests
<1>1. CASE ~Answered
  <2>1. NoDirective(mail) BY <1>1 DEF PlayDirective
  <2> QED BY <1>0, <1>1, <2>1, NoDirectiveStep
<1>2. CASE Answered
  <2> DEFINE start == <<"started", i, offset>>
             events == StoppedEvents \o <<start>>
  <2>1. player' = Streaming(i, offset) /\ Sends(mail, events)
    BY <1>2 DEF PlayDirective
  <2>2. start \in Calls BY DEF Calls, Kinds
  <2>3. /\ events \in Seq(Calls)
        /\ \A j \in DOMAIN events :
             \/ events[j] = start
             \/ /\ player.activity = "PLAYING"
                /\ events[j] = <<"stopped", player.token, player.offset>>
    <3>1. CASE player.activity = "PLAYING"
      <4>1. StoppedEvents = << <<"stopped", player.token, player.offset>> >>
        BY <3>1 DEF StoppedEvents
      <4>2. <<"stopped", player.token, player.offset>> \in Calls
        BY <3>1 DEF TypeOK, Players, PlaysSomething, Calls, Kinds
      <4> HIDE DEF start
      <4> QED BY <2>2, <3>1, <4>1, <4>2, TwoCalls
    <3>2. CASE player.activity # "PLAYING"
      <4>1. StoppedEvents = <<>> BY <3>2 DEF StoppedEvents
      <4>2. events = <<start>> BY <4>1
      <4> HIDE DEF start, events
      <4> QED BY <2>2, <4>2, OneCall
    <3> QED BY <3>1, <3>2
  <2> HIDE DEF events
  <2>4. /\ MailTyped
        /\ \A k \in DOMAIN mail' :
             \/ \E j \in DOMAIN mail : mail'[k] = mail[j]
             \/ \E j \in DOMAIN events : IsNew(mail'[k], events[j])
    BY <1>0, <2>1, <2>3, Sent DEF Calls
  <2>5. player' \in Players /\ PlaysSomething'
    BY <2>1, StreamingTyped DEF PlaysSomething
  <2> QED BY <1>2, <2>1, <2>3, <2>4, <2>5 DEF DeviceTyped, Old, IsStopped
<1> QED BY <1>1, <1>2

LEMMA StopDirectiveStep ==
  ASSUME TypeOK, PlaysSomething, StopDirective, now' = now
  PROVE  /\ DeviceTyped
         /\ player' = player \/ player' = [player EXCEPT !.activity = "STOPPED"]
         /\ \A k \in DOMAIN mail' : Old(mail'[k]) \/ IsStopped(mail'[k])
<1>0. Rest(mail) BY MailRests
<1>1. CASE NoDirective(mail) BY <1>0, <1>1, NoDirectiveStep
<1>2. CASE ~NoDirective(mail)
  <2>1. /\ player' = [player EXCEPT !.activity = "STOPPED"] /\ Sends(mail, StoppedEvents)
    BY <1>2 DEF StopDirective
  <2>2. /\ StoppedEvents \in Seq(Calls)
        /\ \A j \in DOMAIN StoppedEvents :
              /\ player.activity = "PLAYING"
              /\ StoppedEvents[j] = <<"stopped", player.token, player.offset>>
    BY StoppedCalls
  <2>3. /\ MailTyped
        /\ \A k \in DOMAIN mail' :
             \/ \E j \in DOMAIN mail : mail'[k] = mail[j]
             \/ \E j \in DOMAIN StoppedEvents : IsNew(mail'[k], StoppedEvents[j])
    BY <1>0, <2>1, <2>2, Sent DEF Calls
  <2>4. player' \in Players /\ PlaysSomething'
    BY <2>1 DEF TypeOK, Players, PlaysSomething
  <2> QED BY <2>1, <2>2, <2>3, <2>4 DEF DeviceTyped, Old, IsStopped
<1> QED BY <1>1, <1>2

LEMMA EnqueueDirectiveStep ==
  ASSUME TypeOK, PlaysSomething, NEW i \in Items, NEW previous, NEW rest, Rest(rest),
         EnqueueDirective(i, previous, rest), now' = now
  PROVE  /\ DeviceTyped
         /\ \/ player' = player \/ player' = [player EXCEPT !.upcoming = i]
            \/ player' = Streaming(i, 0)
         /\ \A k \in DOMAIN mail' : Old(mail'[k]) \/ IsNew(mail'[k], <<"started", i, 0>>)
<1>1. CASE NoDirective(rest) BY <1>1, NoDirectiveStep
<1>2. CASE player' = Streaming(i, 0) /\ Sends(rest, << <<"started", i, 0>> >>)
  <2> DEFINE start == <<"started", i, 0>>
  <2>1. start \in Calls /\ 0 \in 0 .. Duration BY PlaybackAssumption DEF Calls, Kinds
  <2>2. <<start>> \in Seq(Calls) /\ DOMAIN <<start>> = {1} /\ <<start>>[1] = start
    BY <2>1, OneCall
  <2> HIDE DEF start
  <2>3. Sends(rest, <<start>>) BY <1>2 DEF start
  <2>4. /\ MailTyped
        /\ \A k \in DOMAIN mail' :
             \/ \E j \in DOMAIN mail : mail'[k] = mail[j]
             \/ \E j \in DOMAIN <<start>> : IsNew(mail'[k], <<start>>[j])
    BY <2>2, <2>3, Sent DEF Calls
  <2>5. player' \in Players /\ PlaysSomething'
    BY <1>2, <2>1, StreamingTyped DEF PlaysSomething
  <2>6. \A k \in DOMAIN mail' : Old(mail'[k]) \/ IsNew(mail'[k], start)
    BY <2>2, <2>4 DEF Old
  <2> QED BY <1>2, <2>4, <2>5, <2>6 DEF DeviceTyped, start
<1>3. CASE player' = [player EXCEPT !.upcoming = i] /\ Sends(rest, <<>>)
  <2>1. <<>> \in Seq(Calls) /\ DOMAIN <<>> = {} OBVIOUS
  <2>2. /\ MailTyped
        /\ \A k \in DOMAIN mail' :
             \/ \E j \in DOMAIN mail : mail'[k] = mail[j]
             \/ \E j \in DOMAIN <<>> : IsNew(mail'[k], <<>>[j])
    BY <1>3, <2>1, Sent DEF Calls
  <2>3. player' \in Players /\ PlaysSomething'
    BY <1>3 DEF TypeOK, Players, PlaysSomething
  <2> QED BY <1>3, <2>1, <2>2, <2>3 DEF DeviceTyped, Old
<1> QED BY <1>1, <1>2, <1>3 DEF EnqueueDirective

-----------------------------------------------------------------------------
(* The session *)

LEMMA DocumentsGrow ==
  ASSUME TypeOK, sent' \in Nat, now' \in Nat, sent <= sent', now <= now'
  PROVE  Documents \subseteq Documents'
<1>1. Sessions \subseteq Sessions' BY DEF Sessions, TypeOK
<1> QED BY <1>1 DEF Documents, Queues

\* An observation keeps the item and its mark of completion.
LEMMA ObservedAtTyped ==
  ASSUME TypeOK, NEW a \in Sessions, NEW kind, NEW status \in Statuses,
         NEW offset \in 0 .. Duration, NEW time \in 0 .. now
  PROVE  /\ ObservedAt(a, kind, status, offset, time) \in Sessions
         /\ ObservedAt(a, kind, status, offset, time).item = a.item
         /\ ObservedAt(a, kind, status, offset, time).status = status
         /\ ObservedAt(a, kind, status, offset, time).offset = offset
         /\ ObservedAt(a, kind, status, offset, time).completed = a.completed
         /\ ObservedAt(a, kind, status, offset, time).eventTime = a.eventTime
<1>1. ListeningDelta(a, kind, offset, time) \in Nat
  <2>1. /\ now \in Nat /\ Duration \in Nat /\ offset \in Nat /\ time \in Nat
        /\ a.obsOffset \in Nat /\ a.obsTime \in Nat
    BY PlaybackAssumption DEF Sessions, TypeOK
  <2> QED BY <2>1 DEF ListeningDelta
<1>2. a.spent + ListeningDelta(a, kind, offset, time) \in Nat BY <1>1 DEF Sessions
<1> QED BY <1>2 DEF ObservedAt, Sessions

LEMMA ObservedTyped ==
  ASSUME TypeOK, NEW a \in Sessions, NEW e \in Events, NEW status \in Statuses,
         NEW offset \in 0 .. Duration
  PROVE  /\ Observed(a, e, status, offset) \in Sessions
         /\ Observed(a, e, status, offset).item = a.item
         /\ Observed(a, e, status, offset).status = status
         /\ Observed(a, e, status, offset).offset = offset
         /\ Observed(a, e, status, offset).completed = a.completed
         /\ Observed(a, e, status, offset).eventTime = e.time
<1> DEFINE o == ObservedAt(a, e.kind, status, offset, e.time)
<1>1. /\ e.time \in 0 .. now /\ e.id \in 0 .. sent /\ e.kind \in Kinds
  BY DEF Events, TypeOK
<1>2. /\ o \in Sessions /\ o.item = a.item /\ o.status = status
      /\ o.offset = offset /\ o.completed = a.completed
  BY <1>1, ObservedAtTyped
<1>3. Observed(a, e, status, offset) =
        [o EXCEPT !.eventTime = e.time, !.lastId = e.id, !.lastKind = e.kind]
  BY DEF Observed
<1> HIDE DEF o
<1> QED BY <1>1, <1>2, <1>3 DEF Sessions

LEMMA StartedTyped ==
  ASSUME TypeOK, NEW i \in Items, NEW offset \in 0 .. Duration, NEW time \in 0 .. now
  PROVE  /\ Started(i, offset, time) \in Sessions
         /\ Started(i, offset, time).item = i
         /\ Started(i, offset, time).status = "starting"
         /\ Started(i, offset, time).offset = offset
         /\ ~Started(i, offset, time).completed
         /\ Started(i, offset, time).eventTime = time
<1>1. /\ 0 \in 0 .. Duration /\ 0 \in 0 .. now /\ 0 \in 0 .. sent /\ 0 \in Nat
      /\ "starting" \in Statuses /\ "none" \in Statuses
  BY PlaybackAssumption DEF TypeOK, Statuses
<1>2. NoSession \in Sessions
  BY <1>1 DEF NoSession, Sessions
<1>3. ~NoSession.completed BY DEF NoSession
<1> QED BY <1>1, <1>2, <1>3 DEF Started, Sessions

-----------------------------------------------------------------------------
(* The handlers of AudioPlayer events *)

\* The queue keeps its items and their places.
QueueKept(queue) ==
  /\ DOMAIN store.queue.ids \subseteq DOMAIN queue.ids
  /\ \A k \in DOMAIN store.queue.ids : queue.ids[k] = store.queue.ids[k]

\* What an event completes: itself if it says so.
Completes(e) == IF e.kind = "finished" \/ e.offset >= Duration THEN {e.token} ELSE {}

\* What handling an event does to the document.
EventSeen(e) ==
  /\ store' \in Documents
  /\ QueueKept(store'.queue)
  /\ store'.active.eventTime = e.time
  /\ \/ /\ store'.active.item = store.active.item
        /\ store'.queue.index = store.queue.index
     \/ /\ store'.active.item = e.token
        /\ InQueue(store.queue, e.token) =>
             /\ store'.queue.index \in DOMAIN store'.queue.ids
             /\ store'.queue.ids[store'.queue.index] = e.token
        /\ e.token = store.active.item \/ e.kind = "started"
  /\ FinishedIds(store') \subseteq FinishedIds(store) \cup Completes(e)

LEMMA EventTyped ==
  ASSUME TypeOK, NEW e \in Events
  PROVE  /\ store.active \in Sessions /\ store.queue \in Queues /\ e.token \in Items
         /\ e.offset \in 0 .. Duration /\ "playing" \in Statuses
         /\ e.time \in 0 .. now /\ NoItem \notin Items
         /\ store \in Documents /\ e.kind \in Kinds
<1>1. store.active \in Sessions /\ store.queue \in Queues /\ store \in Documents
  BY DEF TypeOK, Documents
<1>2. /\ e.token \in Items /\ e.offset \in 0 .. Duration /\ e.kind \in Kinds
      /\ e.time \in 1 .. now
  BY DEF Events
<1>3. now \in Nat BY DEF TypeOK
<1>4. e.time \in 0 .. now BY <1>2, <1>3
<1>5. "playing" \in Statuses /\ NoItem \notin Items BY PlaybackAssumption DEF Statuses
<1> QED BY <1>1, <1>2, <1>4, <1>5

LEMMA StartedSeen ==
  ASSUME TypeOK, NEW e \in Events, NEW rest, PlaybackStarted(e, rest)
  PROVE  EventSeen(e)
<1>0. /\ store.active \in Sessions /\ store.queue \in Queues /\ e.token \in Items
      /\ e.offset \in 0 .. Duration /\ "playing" \in Statuses
      /\ e.time \in 0 .. now /\ NoItem \notin Items
      /\ store \in Documents
  BY EventTyped
<1>1. CASE e.token = store.active.item
  <2> DEFINE o == Observed(store.active, e, "playing", e.offset)
  <2>1. /\ o \in Sessions /\ o.item = store.active.item /\ o.status = "playing"
        /\ o.offset = e.offset /\ o.completed = store.active.completed
        /\ o.eventTime = e.time
    BY <1>0, ObservedTyped
  <2>2. store' = [store EXCEPT !.active = o] BY <1>1 DEF PlaybackStarted
  <2> HIDE DEF o
  <2>3. /\ store' \in Documents /\ store'.active = o /\ store'.queue = store.queue
        /\ store'.completed = store.completed
    BY <1>0, <2>1, <2>2 DEF Documents
  <2>4. FinishedIds(store') \subseteq FinishedIds(store) \cup Completes(e)
    BY <1>0, <1>1, <2>1, <2>3 DEF FinishedIds, IsFinished, Completes
  <2> QED BY <2>1, <2>3, <2>4 DEF EventSeen, QueueKept
<1>2. CASE e.token # store.active.item
  <2> DEFINE s == Started(e.token, e.offset, e.time)
             o == Observed(s, e, "playing", e.offset)
             q == AtContent(store.queue, e.token)
  <2>1. s \in Sessions /\ s.item = e.token /\ ~s.completed
    BY <1>0, StartedTyped
  <2> HIDE DEF s
  <2>2. /\ o \in Sessions /\ o.item = e.token /\ o.status = "playing"
        /\ o.offset = e.offset /\ ~o.completed /\ o.eventTime = e.time
    BY <1>0, <2>1, ObservedTyped
  <2>3. store' = [store EXCEPT !.active = o, !.queue = q, !.prepared = NoItem]
    BY <1>2 DEF PlaybackStarted, s
  <2>4. /\ q \in Queues /\ q.ids = store.queue.ids
        /\ InQueue(store.queue, e.token) => q.index \in DOMAIN q.ids /\ q.ids[q.index] = e.token
    BY <1>0, AtContentKeeps
  <2> HIDE DEF o, q
  <2>5. /\ store' \in Documents /\ store'.active = o /\ store'.queue = q
        /\ store'.completed = store.completed
    BY <1>0, <2>2, <2>3, <2>4 DEF Documents
  <2>6. FinishedIds(store') \subseteq FinishedIds(store) \cup Completes(e)
    BY <1>0, <2>2, <2>5 DEF FinishedIds, IsFinished, Completes
  <2>7. e.kind = "started" BY DEF PlaybackStarted
  <2> QED BY <2>2, <2>4, <2>5, <2>6, <2>7 DEF EventSeen, QueueKept
<1> QED BY <1>1, <1>2

LEMMA NearlyFinishedSeen ==
  ASSUME TypeOK, NEW e \in Events, NEW rest, NEW loads, NEW finds,
         PlaybackNearlyFinished(e, rest, loads, finds)
  PROVE  /\ EventSeen(e)
         /\ \/ NoDirective(rest)
            \/ \E i \in Items : /\ InQueue(store'.queue, i)
                                /\ EnqueueDirective(i, e.token, rest)
<1> DEFINE offset == IF e.offset = 0 THEN store.active.offset ELSE e.offset
           o == Observed(store.active, e, "playing", offset)
           seen == [store EXCEPT !.active = o]
           atEnd == NextUnfinished(seen, seen.queue.index + 1) \notin DOMAIN seen.queue.ids
           with == IF atEnd /\ loads THEN WithNextPage(seen) ELSE seen
           next == NextUnfinished(with, with.queue.index + 1)
           found == next \in DOMAIN with.queue.ids
<1>0. /\ store.active \in Sessions /\ store.queue \in Queues /\ e.token \in Items
      /\ e.offset \in 0 .. Duration /\ "playing" \in Statuses /\ offset \in 0 .. Duration
      /\ NoItem \notin Items /\ store \in Documents /\ store.active.item = e.token
  BY EventTyped DEF Sessions, PlaybackNearlyFinished
<1>1. /\ o \in Sessions /\ o.item = store.active.item /\ o.status = "playing"
      /\ o.offset = offset /\ o.completed = store.active.completed
      /\ o.eventTime = e.time
  BY <1>0, ObservedTyped
<1>2. IF found /\ with.queue.ids[next] # store.prepared /\ finds
        THEN /\ store' = [with EXCEPT !.prepared = with.queue.ids[next]]
             /\ EnqueueDirective(with.queue.ids[next], e.token, rest)
        ELSE store' = with /\ NoDirective(rest)
  BY DEF PlaybackNearlyFinished
<1>3. /\ seen \in Documents /\ seen.active = o /\ seen.queue = store.queue
      /\ seen.completed = store.completed
  <2> HIDE DEF o
  <2> QED BY <1>0, <1>1 DEF Documents
<1> HIDE DEF o, seen
<1>4. /\ with \in Documents /\ with.active = o /\ QueueKept(with.queue)
      /\ with.queue.index = store.queue.index /\ with.completed = store.completed
  <2>1. CASE atEnd /\ loads
    BY <1>3, <2>1, NextPageAppends DEF QueueKept
  <2>2. CASE ~(atEnd /\ loads) BY <1>3, <2>2 DEF QueueKept
  <2> QED BY <2>1, <2>2
<1> HIDE DEF with
<1>5. with.queue.ids \in Seq(Items) BY <1>4 DEF Documents, Queues
<1>6. ASSUME found PROVE with.queue.ids[next] \in Items
  BY <1>5, <1>6, LenProperties
<1> HIDE DEF next
<1>7. /\ store' \in Documents /\ store'.active = o /\ store'.queue = with.queue
      /\ store'.completed = store.completed
  <2>1. CASE store' = with BY <1>4, <2>1
  <2>2. CASE store' # with
    <3>1. /\ with.queue.ids[next] \in Items
          /\ store' = [with EXCEPT !.prepared = with.queue.ids[next]]
      BY <1>2, <1>6, <2>2
    <3> QED BY <1>4, <3>1 DEF Documents
  <2> QED BY <2>1, <2>2
<1>8. FinishedIds(store') \subseteq FinishedIds(store) \cup Completes(e)
  <2>1. IsFinished(o) => IsFinished(store.active) \/ e.offset >= Duration
    BY <1>1 DEF IsFinished
  <2> QED BY <1>0, <1>1, <1>7, <2>1 DEF FinishedIds, Completes
<1>9. EventSeen(e) BY <1>1, <1>4, <1>7, <1>8 DEF EventSeen, QueueKept
<1>10. found => InQueue(store'.queue, with.queue.ids[next]) BY <1>7 DEF InQueue
<1> QED BY <1>2, <1>6, <1>9, <1>10

LEMMA FinishedSeen ==
  ASSUME TypeOK, NEW e \in Events, NEW rest, PlaybackFinished(e, rest)
  PROVE  EventSeen(e)
<1> DEFINE o == Observed(store.active, e, "completed", e.offset)
           c == PlayedOut(o)
           q == AtContent(store.queue, e.token)
<1>1. /\ store.active \in Sessions /\ store.queue \in Queues /\ e.token \in Items
      /\ e.offset \in 0 .. Duration /\ store \in Documents /\ "completed" \in Statuses
      /\ e.kind = "finished" /\ e.token = store.active.item
      /\ Duration \in 0 .. Duration
  BY EventTyped, PlaybackAssumption DEF Statuses, PlaybackFinished
<1>2. o \in Sessions /\ o.item = e.token /\ o.eventTime = e.time
  BY <1>1, ObservedTyped
<1>3. store' = [store EXCEPT !.active = c, !.queue = q, !.completed = @ \union {e.token}]
  BY DEF PlaybackFinished
<1>4. /\ q \in Queues /\ q.ids = store.queue.ids
      /\ InQueue(store.queue, e.token) => q.index \in DOMAIN q.ids /\ q.ids[q.index] = e.token
  BY <1>1, AtContentKeeps
<1> HIDE DEF o, q
<1>5. c \in Sessions /\ c.item = e.token /\ c.eventTime = e.time
  BY <1>1, <1>2 DEF Sessions, PlayedOut
<1> HIDE DEF c
<1>6. /\ store' \in Documents /\ store'.active = c /\ store'.queue = q
      /\ store'.completed = store.completed \union {e.token}
  BY <1>1, <1>3, <1>4, <1>5 DEF Documents
<1>7. FinishedIds(store') \subseteq FinishedIds(store) \cup Completes(e)
  BY <1>1, <1>5, <1>6 DEF FinishedIds, Completes
<1> QED BY <1>4, <1>5, <1>6, <1>7, <1>1 DEF EventSeen, QueueKept

\* A handler that only observes.
LEMMA ObservationSeen ==
  ASSUME TypeOK, NEW e \in Events, NEW status \in Statuses \ {"completed"},
         NEW offset \in {e.offset, store.active.offset},
         e.token = store.active.item,
         store'.active = Observed(store.active, e, status, offset),
         store'.queue = store.queue, store'.completed = store.completed,
         store'.prepared \in {store.prepared, NoItem},
         store' \in [active : {store'.active}, queue : {store'.queue},
                     prepared : {store'.prepared}, completed : {store'.completed}]
  PROVE  EventSeen(e)
<1> DEFINE o == Observed(store.active, e, status, offset)
<1>1. /\ store.active \in Sessions /\ store.queue \in Queues /\ e.token \in Items
      /\ e.offset \in 0 .. Duration /\ store \in Documents
      /\ offset \in 0 .. Duration /\ status \in Statuses
  BY EventTyped DEF Sessions
<1>2. /\ o \in Sessions /\ o.item = e.token /\ o.status = status
      /\ o.offset = offset /\ o.completed = store.active.completed /\ o.eventTime = e.time
  BY <1>1, ObservedTyped
<1>3. store'.active = o OBVIOUS
<1> HIDE DEF o
<1>4. store' \in Documents
  BY <1>1, <1>2, <1>3 DEF Documents
<1>5. IsFinished(o) => IsFinished(store.active) \/ e.offset >= Duration
  BY <1>2 DEF IsFinished
<1>6. FinishedIds(store') \subseteq FinishedIds(store) \cup Completes(e)
  BY <1>1, <1>2, <1>3, <1>5 DEF FinishedIds, Completes
<1> QED BY <1>2, <1>3, <1>4, <1>6 DEF EventSeen, QueueKept

LEMMA StoppedSeen ==
  ASSUME TypeOK, NEW e \in Events, NEW rest, PlaybackStopped(e, rest)
  PROVE  EventSeen(e)
<1> DEFINE o == Observed(store.active, e, "paused", e.offset)
<1>1. /\ store' = [store EXCEPT !.active = o] /\ e.token = store.active.item
      /\ "paused" \in Statuses \ {"completed"}
  BY DEF PlaybackStopped, Statuses
<1> HIDE DEF o
<1>2. /\ store'.active = o /\ store'.queue = store.queue
      /\ store'.completed = store.completed /\ store'.prepared = store.prepared
      /\ store' \in [active : {store'.active}, queue : {store'.queue},
                     prepared : {store'.prepared}, completed : {store'.completed}]
  BY <1>1, EventTyped DEF Documents
<1> QED BY <1>1, <1>2, ObservationSeen DEF o

LEMMA ProgressSeen ==
  ASSUME TypeOK, NEW e \in Events, NEW rest, PlaybackProgress(e, rest)
  PROVE  EventSeen(e)
<1> DEFINE o == Observed(store.active, e, "playing", e.offset)
<1>1. /\ store' = [store EXCEPT !.active = o] /\ e.token = store.active.item
      /\ "playing" \in Statuses \ {"completed"}
  BY DEF PlaybackProgress, Statuses
<1> HIDE DEF o
<1>2. /\ store'.active = o /\ store'.queue = store.queue
      /\ store'.completed = store.completed /\ store'.prepared = store.prepared
      /\ store' \in [active : {store'.active}, queue : {store'.queue},
                     prepared : {store'.prepared}, completed : {store'.completed}]
  BY <1>1, EventTyped DEF Documents
<1> QED BY <1>1, <1>2, ObservationSeen DEF o

LEMMA FailedSeen ==
  ASSUME TypeOK, NEW e \in Events, NEW rest, PlaybackFailed(e, rest)
  PROVE  EventSeen(e)
<1> DEFINE o == Observed(store.active, e, "failed", store.active.offset)
<1>1. /\ store' = [store EXCEPT !.active = o, !.prepared = NoItem]
      /\ e.token = store.active.item /\ "failed" \in Statuses \ {"completed"}
  BY DEF PlaybackFailed, Statuses
<1> HIDE DEF o
<1>2. /\ store'.active = o /\ store'.queue = store.queue
      /\ store'.completed = store.completed /\ store'.prepared = NoItem
      /\ store' \in [active : {store'.active}, queue : {store'.queue},
                     prepared : {store'.prepared}, completed : {store'.completed}]
  BY <1>1, EventTyped DEF Documents
<1> QED BY <1>1, <1>2, ObservationSeen DEF o

-----------------------------------------------------------------------------
(* The network *)

\* An event has been handled; it may have enqueued an item of the queue.
Handled(e) ==
  /\ Applies(e) /\ EventSeen(e) /\ DeviceTyped
  /\ \/ player' = player /\ \A k \in DOMAIN mail' : Old(mail'[k])
     \/ \E i \in Items :
          /\ InQueue(store'.queue, i)
          /\ \/ player' = player \/ player' = [player EXCEPT !.upcoming = i]
             \/ player' = Streaming(i, 0)
          /\ \A k \in DOMAIN mail' : Old(mail'[k]) \/ IsNew(mail'[k], <<"started", i, 0>>)

\* No event has been handled.
Ignored == UNCHANGED <<store, player>> /\ DeviceTyped /\ \A k \in DOMAIN mail' : Old(mail'[k])

LEMMA NearlyFinishedStep ==
  ASSUME TypeOK, PlaysSomething, NEW e \in Events, NEW rest, Rest(rest), Applies(e), now' = now,
         NEW loads, NEW finds, PlaybackNearlyFinished(e, rest, loads, finds)
  PROVE  Handled(e)
<1>1. /\ EventSeen(e)
      /\ \/ NoDirective(rest)
         \/ \E i \in Items : /\ InQueue(store'.queue, i)
                             /\ EnqueueDirective(i, e.token, rest)
  BY NearlyFinishedSeen
<1>2. CASE NoDirective(rest) BY <1>1, <1>2, NoDirectiveStep DEF Handled
<1>3. ASSUME NEW i \in Items, InQueue(store'.queue, i), EnqueueDirective(i, e.token, rest)
      PROVE  Handled(e)
  <2>1. /\ DeviceTyped
        /\ \/ player' = player \/ player' = [player EXCEPT !.upcoming = i]
           \/ player' = Streaming(i, 0)
        /\ \A k \in DOMAIN mail' : Old(mail'[k]) \/ IsNew(mail'[k], <<"started", i, 0>>)
    BY <1>3, EnqueueDirectiveStep
  <2> QED BY <1>1, <1>3, <2>1 DEF Handled
<1> QED BY <1>1, <1>2, <1>3

LEMMA HandleStep ==
  ASSUME TypeOK, PlaysSomething, NEW e \in Events, NEW rest, Rest(rest), now' = now,
         Handle(e, rest)
  PROVE  Handled(e) \/ Ignored
<1>1. CASE Applies(e) /\ Apply(e, rest)
  <2>1. CASE PlaybackNearlyFinished(e, rest, TRUE, TRUE)
    BY <1>1, <2>1, NearlyFinishedStep
  <2>2. CASE ~PlaybackNearlyFinished(e, rest, TRUE, TRUE)
    <3>1. EventSeen(e)
      BY <1>1, <2>2, StartedSeen, FinishedSeen, StoppedSeen, FailedSeen, ProgressSeen DEF Apply
    <3>2. NoDirective(rest)
      BY <1>1, <2>2 DEF Apply, PlaybackStarted, PlaybackFinished, PlaybackStopped,
                        PlaybackFailed, PlaybackProgress
    <3> QED BY <1>1, <3>1, <3>2, NoDirectiveStep DEF Handled
  <2> QED BY <2>1, <2>2
<1>2. CASE Reject(e, rest)
  <2>1. NoDirective(rest) /\ store' = store BY <1>2 DEF Reject
  <2> QED BY <2>1, NoDirectiveStep DEF Ignored
<1> QED BY <1>1, <1>2 DEF Handle

\* A step of the network hands one event to its handler, or none.
LEMMA NetworkStep ==
  ASSUME TypeOK, PlaysSomething, Network
  PROVE  /\ Quiescent /\ mail # <<>>
         /\ disorder \subseteq disorder' /\ disorder' \subseteq Irregularities \union {"overtaken"}
         /\ Ignored \/ \E j \in DOMAIN mail : Handled(mail[j])
<1>1. /\ Rest(mail) /\ \A k \in DOMAIN mail : mail[k] \in Events
      /\ mail # <<>> => Rest(Tail(mail)) /\ Head(mail) = mail[1] /\ 1 \in DOMAIN mail
  BY MailRests
<1>2. /\ disorder \subseteq Irregularities \union {"overtaken"}
      /\ Faults \subseteq Irregularities
  BY PlaybackAssumption DEF TypeOK
<1>3. ASSUME NEW kind, Irregular(kind)
      PROVE  disorder \subseteq disorder' /\ disorder' \subseteq Irregularities \union {"overtaken"}
  BY <1>2, <1>3 DEF Irregular
<1>4. CASE Deliver
  <2>1. /\ mail # <<>> /\ disorder' = disorder /\ Quiescent
        /\ Handle(Head(mail), Tail(mail)) /\ now' = now
    BY <1>4 DEF Deliver, Quiescent
  <2>2. Handled(mail[1]) \/ Ignored BY <1>1, <2>1, HandleStep
  <2> QED BY <1>1, <1>2, <2>1, <2>2
<1>5. CASE DeliverEarly
  <2>1. Irregular("reordered") /\ Quiescent /\ now' = now BY <1>5 DEF DeliverEarly, Quiescent
  <2>2. PICK k \in DOMAIN mail : Handle(mail[k], Without(k)) BY <1>5 DEF DeliverEarly
  <2>3. Rest(Without(k)) BY WithoutRests
  <2>4. Handled(mail[k]) \/ Ignored BY <1>1, <2>1, <2>2, <2>3, HandleStep
  <2>5. mail # <<>> OBVIOUS
  <2> QED BY <1>3, <2>1, <2>4, <2>5
<1>6. CASE DeliverAndRepeat
  <2>1. /\ mail # <<>> /\ Irregular("repeated") /\ Quiescent
        /\ Handle(Head(mail), mail) /\ now' = now
    BY <1>6 DEF DeliverAndRepeat, Quiescent
  <2>2. Handled(mail[1]) \/ Ignored BY <1>1, <2>1, HandleStep
  <2> QED BY <1>1, <1>3, <2>1, <2>2
<1>7. CASE Lose
  <2>1. /\ mail # <<>> /\ Irregular("lost") /\ Quiescent /\ now' = now
        /\ NoDirective(Tail(mail)) /\ store' = store
    BY <1>7 DEF Lose, Quiescent, NoDirective
  <2>2. Ignored BY <1>1, <2>1, NoDirectiveStep DEF Ignored
  <2> QED BY <1>3, <2>1, <2>2
<1>8. CASE DeliverInVain
  <2>1. /\ mail # <<>> /\ Applies(Head(mail)) /\ Quiescent /\ now' = now
        /\ Irregular("backend") \/ Irregular("unanswered")
        /\ \E loads, finds \in BOOLEAN :
             PlaybackNearlyFinished(Head(mail), Tail(mail), loads, finds)
    BY <1>8 DEF DeliverInVain, Quiescent
  <2>2. Handled(mail[1]) BY <1>1, <2>1, NearlyFinishedStep
  <2> QED BY <1>1, <1>3, <2>1, <2>2
<1> QED BY <1>4, <1>5, <1>6, <1>7, <1>8 DEF Network

-----------------------------------------------------------------------------
(* The commands *)

\* What every command does: nothing is heard, time stands still.
Spoken ==
  /\ UNCHANGED <<now, heard, ended>> /\ stamp < now
  /\ disorder \subseteq disorder' /\ disorder' \subseteq Irregularities \union {"overtaken"}
  /\ "unanswered" \notin Faults => Answered

\* An item is played, from before its end, if the answer reaches the device.
Directed(i) ==
  \E offset \in 0 .. Duration :
    /\ offset < Duration
    /\ IF Answered THEN player' = Streaming(i, offset) ELSE player' = player
    /\ \A k \in DOMAIN mail' :
         Old(mail'[k]) \/ IsStopped(mail'[k]) \/ IsNew(mail'[k], <<"started", i, offset>>)

\* The device stops, or goes on as it was.
Undirected ==
  /\ player' = player \/ player' = [player EXCEPT !.activity = "STOPPED"]
  /\ \A k \in DOMAIN mail' : Old(mail'[k]) \/ IsStopped(mail'[k])

\* A new queue: its first item is played.
Searched ==
  /\ store'.queue.ids = Pages[1] /\ store'.queue.index = 1
  /\ 1 \in DOMAIN Pages[1] /\ Pages[1][1] \in Items
  /\ store'.active.item = Pages[1][1] /\ store'.active.eventTime = now
  /\ Directed(Pages[1][1])

\* Another item of the queue is played.
Moved ==
  /\ HasSession /\ QueueKept(store'.queue)
  /\ store'.queue.index \in DOMAIN store'.queue.ids
  /\ store'.active.item \in Items
  /\ store'.active.item = store'.queue.ids[store'.queue.index]
  /\ store'.active.eventTime = now
  /\ Directed(store'.active.item)

\* The same item, played again or not.
Stayed ==
  /\ QueueKept(store'.queue) /\ store'.queue.index = store.queue.index
  /\ store'.active.item = store.active.item
  /\ store'.active.eventTime = store.active.eventTime
  /\ Undirected \/ (HasSession /\ Directed(store.active.item))

\* What the device has played to its end.
PlayedToEnd == IF player.offset >= Duration THEN {player.token} \ {NoItem} ELSE {}

\* The document stays well-formed, and a command completes no item.
Completed ==
  /\ store' \in Documents /\ DeviceTyped
  /\ FinishedIds(store') \subseteq FinishedIds(store) \union PlayedToEnd

LEMMA InputsBound ==
  ASSUME TypeOK
  PROVE  /\ Inputs \in Nat /\ used.commands <= Inputs /\ used.reports <= Inputs
         /\ MaxInputs \in Nat /\ MaxSearches \in Nat /\ MaxIdle \in Nat
<1>1. IsFiniteSet(Irregularities)
  <2>1. IsFiniteSet({}) BY FS_EmptySet
  <2>2. Irregularities =
          ((((({} \union {"reordered"}) \union {"repeated"}) \union {"lost"}) \union {"backend"})
             \union {"unanswered"}) \union {"failure"}
    BY DEF Irregularities
  <2> QED BY <2>1, <2>2, FS_AddElement
<1>2. disorder \ {"overtaken"} \subseteq Irregularities BY DEF TypeOK
<1>3. Cardinality(disorder \ {"overtaken"}) \in Nat
  BY <1>1, <1>2, FS_Subset, FS_CardinalityType
<1>4. MaxInputs \in Nat /\ MaxSearches \in Nat /\ MaxIdle \in Nat BY PlaybackAssumption
<1>5. used.commands \in Nat /\ used.reports \in Nat BY <1>4 DEF TypeOK
<1> QED BY <1>3, <1>4, <1>5 DEF Inputs

LEMMA SpeaksStep ==
  ASSUME TypeOK, NEW faults, Speaks(faults) PROVE Spoken
<1>1. /\ disorder \subseteq Irregularities \union {"overtaken"}
      /\ Faults \subseteq Irregularities /\ Overtakes \subseteq {"overtaken"}
  BY PlaybackAssumption DEF TypeOK, Overtakes
<1>2. now \in Nat /\ stamp \in Nat /\ now > stamp BY DEF TypeOK, Speaks
<1>3. CASE disorder' = disorder \union Overtakes
  BY <1>1, <1>2, <1>3 DEF Spoken, Speaks, Answered
<1>4. CASE disorder' # disorder \union Overtakes
  <2>1. PICK kind \in (faults \intersect Faults) \ disorder :
          disorder' = disorder \union Overtakes \union {kind}
    BY <1>4 DEF Speaks
  <2> QED BY <1>1, <1>2, <2>1 DEF Spoken, Speaks, Answered
<1> QED BY <1>3, <1>4

LEMMA GivesStep ==
  ASSUME TypeOK, NEW command, NEW faults, Gives(command, faults)
  PROVE  /\ Spoken /\ used'.searches = used.searches
         /\ used' \in [searches : 0 .. MaxSearches, commands : 0 .. MaxInputs,
                       reports : 0 .. MaxInputs, idle : 0 .. MaxIdle]
<1>1. Spoken BY SpeaksStep DEF Gives
<1>2. /\ used' = [used EXCEPT !.commands = @ + 1] /\ Inputs < MaxInputs BY DEF Gives
<1>3. used.commands \in Nat /\ used.commands + 1 \in 0 .. MaxInputs
  BY <1>2, InputsBound DEF TypeOK
<1> QED BY <1>1, <1>2, <1>3 DEF TypeOK

LEMMA DirectiveStep ==
  ASSUME TypeOK, PlaysSomething, NEW i \in Items, NEW offset \in 0 .. Duration,
         offset < Duration, PlayDirective(i, offset), now' = now
  PROVE  DeviceTyped /\ Directed(i)
BY PlayDirectiveStep DEF Directed

LEMMA PlayStep ==
  ASSUME TypeOK, PlaysSomething, Play
  PROVE  /\ Spoken /\ Searched /\ Completed /\ used.searches < MaxSearches
         /\ used'.searches = used.searches + 1
         /\ used' \in [searches : 0 .. MaxSearches, commands : 0 .. MaxInputs,
                       reports : 0 .. MaxInputs, idle : 0 .. MaxIdle]
<1> DEFINE first == Pages[1][1]
           a == Started(first, 0, now)
           q == [ids |-> Pages[1], index |-> 1, page |-> 1]
<1>1. /\ Pages[1] \in Seq(Items) /\ 1 \in DOMAIN Pages[1] /\ first \in Items
  <2>1. Pages \in Seq(Seq(Items)) /\ Pages # <<>> /\ Pages[1] # <<>>
    BY PlaybackAssumption
  <2>2. Pages[1] \in Seq(Items)
    BY <2>1, EmptySeq, LenProperties, ElementOfSeq
  <2>3. 1 \in DOMAIN Pages[1] BY <2>1, <2>2, EmptySeq, LenProperties
  <2> QED BY <2>2, <2>3, ElementOfSeq, LenProperties
<1>2. /\ used' = [used EXCEPT !.searches = @ + 1] /\ Speaks({"unanswered"})
      /\ used.searches < MaxSearches
      /\ store' = [store EXCEPT !.queue = q, !.active = a] /\ PlayDirective(first, 0)
  BY DEF Play
<1>3. Spoken /\ now' = now BY <1>2, SpeaksStep DEF Spoken
<1>4. /\ used'.searches = used.searches + 1
      /\ used' \in [searches : 0 .. MaxSearches, commands : 0 .. MaxInputs,
                    reports : 0 .. MaxInputs, idle : 0 .. MaxIdle]
  <2>1. used.searches \in Nat /\ used.searches + 1 \in 0 .. MaxSearches
    BY <1>2, InputsBound DEF TypeOK
  <2> QED BY <1>2, <2>1 DEF TypeOK
<1>5. 0 \in 0 .. Duration /\ 0 < Duration /\ now \in 0 .. now /\ Duration \in Nat
  BY PlaybackAssumption DEF TypeOK
<1>6. DeviceTyped /\ Directed(first)
  <2> HIDE DEF first
  <2> QED BY <1>1, <1>2, <1>3, <1>5, DirectiveStep
<1>7. /\ a \in Sessions /\ a.item = first /\ a.status = "starting" /\ a.offset = 0
      /\ ~a.completed /\ a.eventTime = now
  <2> HIDE DEF first
  <2> QED BY <1>1, <1>5, StartedTyped
<1> HIDE DEF first, a
<1>8. q \in Queues BY <1>1 DEF Queues
<1>9. /\ store' \in Documents /\ store'.active = a /\ store'.queue = q
      /\ store'.completed = store.completed
  BY <1>2, <1>7, <1>8 DEF TypeOK, Documents
<1>10. FinishedIds(store') \subseteq FinishedIds(store)
  BY <1>5, <1>7, <1>9 DEF FinishedIds, IsFinished
<1>11. Completed BY <1>6, <1>9, <1>10 DEF Completed
<1>12. Searched BY <1>1, <1>6, <1>7, <1>9 DEF Searched, first
<1> QED BY <1>2, <1>3, <1>4, <1>11, <1>12

LEMMA RestartStep ==
  ASSUME TypeOK, PlaysSomething, HasSession, NEW offset \in 0 .. Duration, offset < Duration,
         Restart(offset), now' = now
  PROVE  Stayed /\ Completed
<1>1. /\ store \in Documents /\ store.active \in Sessions /\ store.active.item \in Items
      /\ Duration \in Nat
  BY PlaybackAssumption DEF TypeOK, Documents, Sessions, HasSession
<1>2. /\ store' = [store EXCEPT !.prepared = NoItem,
                     !.active.status = "starting", !.active.offset = offset]
      /\ PlayDirective(store.active.item, offset)
  BY DEF Restart
<1>3. DeviceTyped /\ Directed(store.active.item)
  BY <1>1, <1>2, DirectiveStep
<1> DEFINE a == [store.active EXCEPT !.status = "starting", !.offset = offset]
<1>4. /\ a \in Sessions /\ a.item = store.active.item /\ a.status = "starting"
      /\ a.offset = offset /\ a.completed = store.active.completed
      /\ a.eventTime = store.active.eventTime
  BY <1>1 DEF Sessions, Statuses
<1>5. store' = [store EXCEPT !.prepared = NoItem, !.active = a]
  BY <1>1, <1>2 DEF Documents
<1> HIDE DEF a
<1>6. /\ store' \in Documents /\ store'.active = a /\ store'.queue = store.queue
      /\ store'.completed = store.completed
  BY <1>1, <1>4, <1>5 DEF Documents
<1>7. FinishedIds(store') \subseteq FinishedIds(store)
  <2>1. IsFinished(a) => IsFinished(store.active) BY <1>1, <1>4 DEF IsFinished
  <2> QED BY <1>4, <1>6, <2>1 DEF FinishedIds
<1> QED BY <1>3, <1>4, <1>6, <1>7 DEF Stayed, Completed, QueueKept

LEMMA PlayDeltaStep ==
  ASSUME TypeOK, PlaysSomething, HasSession, NEW delta, PlayDelta(delta), now' = now
  PROVE  (Stayed \/ Moved) /\ Completed
<1> DEFINE Target(s) == IF delta > 0 THEN NextUnfinished(s, s.queue.index + delta)
                        ELSE s.queue.index + delta
           Has(s) == Target(s) \in DOMAIN s.queue.ids
           with == IF Has(store) \/ delta < 0 THEN store ELSE WithNextPage(store)
           Unavailable == "backend" \in disorder' \ disorder
           k == Target(with)
           i == with.queue.ids[k]
<1>1. \/ /\ Has(with) /\ ~Unavailable
         /\ store' = [with EXCEPT !.queue.index = k, !.active = Started(i, 0, now)]
         /\ PlayDirective(i, 0)
      \/ /\ ~Has(with) \/ Unavailable
         /\ store' \in IF Unavailable THEN {store, with} ELSE {with}
         /\ NoDirective(mail)
  BY DEF PlayDelta
<1>2. store \in Documents /\ QueueKept(store.queue) BY DEF TypeOK, QueueKept
<1>3. /\ with \in Documents /\ QueueKept(with.queue) /\ with.queue.index = store.queue.index
      /\ with.active = store.active /\ with.completed = store.completed
  <2> HIDE DEF Has
  <2>1. CASE Has(store) \/ delta < 0 BY <1>2, <2>1
  <2>2. CASE ~(Has(store) \/ delta < 0) BY <1>2, <2>2, NextPageAppends DEF QueueKept
  <2> QED BY <2>1, <2>2
<1>4. /\ with.queue.ids \in Seq(Items) /\ with.queue \in Queues
      /\ DOMAIN with.queue.ids \subseteq Nat
  <2>1. with.queue.ids \in Seq(Items) /\ with.queue \in Queues
    BY <1>3 DEF Documents, Queues
  <2> QED BY <2>1, LenProperties
<1>5. Has(with) => k \in DOMAIN with.queue.ids OBVIOUS
<1> HIDE DEF with, Has, k, Unavailable
<1>6. CASE store' \in {store, with} /\ NoDirective(mail)
  <2>1. /\ store' \in Documents /\ QueueKept(store'.queue)
        /\ store'.queue.index = store.queue.index
        /\ store'.active = store.active /\ store'.completed = store.completed
    BY <1>2, <1>3, <1>6
  <2>2. DeviceTyped /\ player' = player /\ \A n \in DOMAIN mail' : Old(mail'[n])
    BY <1>6, MailRests, NoDirectiveStep
  <2>3. FinishedIds(store') = FinishedIds(store) BY <2>1 DEF FinishedIds
  <2>4. Undirected BY <2>2 DEF Undirected
  <2>5. Stayed BY <2>1, <2>4 DEF Stayed
  <2>6. Completed BY <2>1, <2>2, <2>3 DEF Completed
  <2> QED BY <2>5, <2>6
<1>7. CASE /\ Has(with)
           /\ store' = [with EXCEPT !.queue.index = k, !.active = Started(i, 0, now)]
           /\ PlayDirective(i, 0)
  <2> DEFINE a == Started(i, 0, now)
             q == [with.queue EXCEPT !.index = k]
  <2>1. k \in DOMAIN with.queue.ids /\ k \in Nat /\ i \in Items
    BY <1>4, <1>5, <1>7, LenProperties
  <2> HIDE DEF i
  <2>2. 0 \in 0 .. Duration /\ 0 < Duration /\ now \in 0 .. now /\ Duration \in Nat
    BY PlaybackAssumption DEF TypeOK
  <2>3. /\ a \in Sessions /\ a.item = i /\ a.status = "starting" /\ a.offset = 0
        /\ ~a.completed /\ a.eventTime = now
    BY <2>1, <2>2, StartedTyped
  <2>4. DeviceTyped /\ Directed(i) BY <1>7, <2>1, <2>2, DirectiveStep
  <2>5. q \in Queues /\ q.ids = with.queue.ids /\ q.index = k BY <1>4, <2>1 DEF Queues
  <2>6. store' = [with EXCEPT !.queue = q, !.active = a]
    BY <1>3, <1>7 DEF Documents
  <2> HIDE DEF a, q
  <2>7. /\ store' \in Documents /\ store'.active = a /\ store'.queue = q
        /\ store'.completed = store.completed
    BY <1>3, <2>3, <2>5, <2>6 DEF Documents
  <2>8. FinishedIds(store') \subseteq FinishedIds(store)
    BY <2>2, <2>3, <2>7 DEF FinishedIds, IsFinished
  <2>9. Completed BY <2>4, <2>7, <2>8 DEF Completed
  <2>10. Moved BY <1>3, <2>1, <2>3, <2>4, <2>5, <2>7 DEF Moved, QueueKept, i
  <2> QED BY <2>9, <2>10
<1> QED BY <1>1, <1>6, <1>7

LEMMA PauseStep ==
  ASSUME TypeOK, PlaysSomething, Pause, now' = now
  PROVE  Stayed /\ Completed
<1> DEFINE watching == player.activity = "PLAYING" /\ player.token = store.active.item
           o == ObservedAt(store.active, "paused", "paused", player.offset, now)
           p == [store.active EXCEPT !.status = "paused"]
<1>1. /\ store \in Documents /\ store.active \in Sessions /\ store.queue \in Queues
      /\ player.offset \in 0 .. Duration /\ now \in 0 .. now /\ "paused" \in Statuses
  BY DEF TypeOK, Documents, Players, Statuses
<1>2. /\ o \in Sessions /\ o.item = store.active.item /\ o.status = "paused"
      /\ o.offset = player.offset /\ o.completed = store.active.completed
      /\ o.eventTime = store.active.eventTime
  BY <1>1, ObservedAtTyped
<1>3. /\ p \in Sessions /\ p.item = store.active.item /\ p.status = "paused"
      /\ p.offset = store.active.offset /\ p.completed = store.active.completed
      /\ p.eventTime = store.active.eventTime
  BY <1>1 DEF Sessions
<1>4. /\ \/ store' = store
         \/ watching /\ HasSession /\ store' = [store EXCEPT !.active = o]
         \/ store' = [store EXCEPT !.active = p]
      /\ StopDirective
  <2>1. [store EXCEPT !.active.status = "paused"] = [store EXCEPT !.active = p]
    BY <1>1 DEF Documents
  <2> QED BY <2>1 DEF Pause
<1> HIDE DEF o, p
<1>5. DeviceTyped /\ Undirected BY <1>4, StopDirectiveStep DEF Undirected
<1>6. CASE store' = store
  <2>1. Stayed BY <1>5, <1>6 DEF Stayed, QueueKept
  <2>2. Completed BY <1>1, <1>5, <1>6 DEF Completed
  <2> QED BY <2>1, <2>2
<1>7. CASE watching /\ HasSession /\ store' = [store EXCEPT !.active = o]
  <2>1. /\ store' \in Documents /\ store'.active = o /\ store'.queue = store.queue
        /\ store'.completed = store.completed
    BY <1>1, <1>2, <1>7 DEF Documents
  <2>2. IsFinished(o) => IsFinished(store.active) \/ player.offset >= Duration
    BY <1>2 DEF IsFinished
  <2>3. FinishedIds(store') \subseteq FinishedIds(store) \union PlayedToEnd
    BY <1>2, <1>7, <2>1, <2>2 DEF FinishedIds, PlayedToEnd, HasSession
  <2>4. Stayed BY <1>2, <1>5, <2>1 DEF Stayed, QueueKept
  <2>5. Completed BY <1>5, <2>1, <2>3 DEF Completed
  <2> QED BY <2>4, <2>5
<1>8. CASE store' = [store EXCEPT !.active = p]
  <2>1. /\ store' \in Documents /\ store'.active = p /\ store'.queue = store.queue
        /\ store'.completed = store.completed
    BY <1>1, <1>3, <1>8 DEF Documents
  <2>2. IsFinished(p) => IsFinished(store.active) BY <1>3 DEF IsFinished
  <2>3. FinishedIds(store') \subseteq FinishedIds(store)
    BY <1>3, <2>1, <2>2 DEF FinishedIds
  <2>4. Stayed BY <1>3, <1>5, <2>1 DEF Stayed, QueueKept
  <2>5. Completed BY <1>5, <2>1, <2>3 DEF Completed
  <2> QED BY <2>4, <2>5
<1> QED BY <1>4, <1>6, <1>7, <1>8

LEMMA SeekStep ==
  ASSUME TypeOK, PlaysSomething, NEW direction \in {1, -1}, Seek(direction), now' = now
  PROVE  Stayed /\ Completed
<1> DEFINE current == IF player.activity = "PLAYING" THEN player.offset ELSE store.active.offset
<1>1. HasSession /\ current + direction \in SeekRange(direction) /\ Restart(current + direction)
  BY DEF Seek
<1>2. current \in 0 .. Duration /\ Duration \in Nat \ {0}
  BY PlaybackAssumption DEF TypeOK, Players, Documents, Sessions
<1> HIDE DEF current
<1>3. current + direction \in 0 .. Duration /\ current + direction < Duration
  BY <1>1, <1>2 DEF SeekRange
<1> QED BY <1>1, <1>3, RestartStep

\* A command searches, moves in the queue, or stays with its item.
LEMMA CommandStep ==
  ASSUME TypeOK, PlaysSomething, Listener
  PROVE  /\ Spoken /\ Completed
         /\ used' \in [searches : 0 .. MaxSearches, commands : 0 .. MaxInputs,
                       reports : 0 .. MaxInputs, idle : 0 .. MaxIdle]
         /\ \/ /\ Searched /\ used.searches < MaxSearches
               /\ used'.searches = used.searches + 1
            \/ (Moved \/ Stayed) /\ used'.searches = used.searches
<1>1. CASE Play BY <1>1, PlayStep
<1>2. CASE ~Play
  <2>1. \E command, faults : Gives(command, faults)
    BY <1>2 DEF Listener, Pause, Resume, Repeat, ChangeSpeed, Seek, Skip, Previous
  <2>2. /\ Spoken /\ used'.searches = used.searches
        /\ used' \in [searches : 0 .. MaxSearches, commands : 0 .. MaxInputs,
                      reports : 0 .. MaxInputs, idle : 0 .. MaxIdle]
    BY <2>1, GivesStep
  <2>3. now' = now BY <2>2 DEF Spoken
  <2>4. /\ store.active.offset \in 0 .. Duration /\ 0 \in 0 .. Duration
        /\ Duration \in Nat \ {0}
    BY PlaybackAssumption DEF TypeOK, Documents, Sessions
  <2>5. ~IsFinished(store.active) => store.active.offset < Duration
    BY <2>4 DEF IsFinished
  <2>6. CASE Pause BY <2>2, <2>3, <2>6, PauseStep
  <2>7. CASE Resume
    BY <2>2, <2>3, <2>4, <2>5, <2>7, PlayDeltaStep, RestartStep DEF Resume
  <2>8. CASE Repeat
    BY <2>2, <2>3, <2>4, <2>8, RestartStep DEF Repeat
  <2>9. CASE ChangeSpeed
    BY <2>2, <2>3, <2>4, <2>5, <2>9, RestartStep DEF ChangeSpeed
  <2>10. CASE Seek(1) \/ Seek(-1) BY <2>2, <2>3, <2>10, SeekStep
  <2>11. CASE Skip BY <2>2, <2>3, <2>11, PlayDeltaStep DEF Skip
  <2>12. CASE Previous BY <2>2, <2>3, <2>12, PlayDeltaStep DEF Previous
  <2> QED BY <1>2, <2>6, <2>7, <2>8, <2>9, <2>10, <2>11, <2>12 DEF Listener
<1> QED BY <1>1, <1>2

-----------------------------------------------------------------------------
(* The device's own actions *)

\* What a stream reports of itself.
IsReport(m) ==
  m.kind # "started" /\ IsNew(m, <<m.kind, player.token, player.offset>>)
    /\ (m.kind = "finished" => player.offset >= Duration)

\* The stream goes on, or the next one starts.
Acted ==
  /\ UNCHANGED <<store, now, heard, ended>> /\ used'.searches = used.searches
  /\ player.activity = "PLAYING" /\ DeviceTyped
  /\ \/ /\ player'.token = player.token /\ player'.offset = player.offset
        /\ player'.upcoming = player.upcoming
        /\ \A k \in DOMAIN mail' : Old(mail'[k]) \/ IsReport(mail'[k])
     \/ /\ player.upcoming \in Items /\ player' = Streaming(player.upcoming, 0)
        /\ \A k \in DOMAIN mail' :
             \/ Old(mail'[k]) \/ IsReport(mail'[k])
             \/ IsNew(mail'[k], <<"started", player.upcoming, 0>>)

LEMMA ReportSent ==
  ASSUME TypeOK, PlaysSomething, player.activity = "PLAYING", now' = now,
         NEW kind \in Kinds \ {"started"}, kind = "finished" => player.offset >= Duration,
         Sends(mail, << <<kind, player.token, player.offset>> >>)
  PROVE  MailTyped /\ \A k \in DOMAIN mail' : Old(mail'[k]) \/ IsReport(mail'[k])
<1> DEFINE call == <<kind, player.token, player.offset>>
<1>1. call \in Calls BY DEF TypeOK, Players, PlaysSomething, Calls
<1> HIDE DEF call
<1>2. <<call>> \in Seq(Calls) /\ DOMAIN <<call>> = {1} /\ <<call>>[1] = call
  BY <1>1, OneCall
<1>3. Sends(mail, <<call>>) /\ Rest(mail) BY MailRests DEF call
<1>4. /\ MailTyped
      /\ \A k \in DOMAIN mail' :
           \/ \E j \in DOMAIN mail : mail'[k] = mail[j]
           \/ \E j \in DOMAIN <<call>> : IsNew(mail'[k], <<call>>[j])
  BY <1>2, <1>3, Sent DEF Calls
<1>5. ASSUME NEW m, IsNew(m, call) PROVE IsReport(m)
  BY <1>5 DEF IsNew, IsReport, call
<1> QED BY <1>2, <1>4, <1>5 DEF Old

LEMMA FinishStep ==
  ASSUME TypeOK, PlaysSomething, Finish
  PROVE  Acted /\ used' = used /\ disorder' = disorder
<1>1. /\ UNCHANGED <<store, now, used, disorder, heard, ended>>
      /\ player.activity = "PLAYING" /\ player.offset = Duration
      /\ IF player.upcoming = NoItem
         THEN /\ player' = [player EXCEPT !.activity = "FINISHED"]
              /\ Sends(mail, << <<"finished", player.token, player.offset>> >>)
         ELSE /\ player' = Streaming(player.upcoming, 0)
              /\ Sends(mail, << <<"finished", player.token, player.offset>>,
                                <<"started", player.upcoming, 0>> >>)
  BY DEF Finish
<1>2. /\ player \in Players /\ player.token \in Items /\ Duration \in Nat
      /\ player.offset >= Duration /\ 0 \in 0 .. Duration
  BY <1>1, PlaybackAssumption DEF TypeOK, PlaysSomething, Players
<1>3. CASE player.upcoming = NoItem
  <2>1. MailTyped /\ \A k \in DOMAIN mail' : Old(mail'[k]) \/ IsReport(mail'[k])
    BY <1>1, <1>2, <1>3, ReportSent DEF Kinds
  <2>2. player' \in Players /\ PlaysSomething'
    BY <1>1, <1>2, <1>3 DEF Players, PlaysSomething
  <2>3. /\ player'.token = player.token /\ player'.offset = player.offset
        /\ player'.upcoming = player.upcoming
    BY <1>1, <1>2, <1>3 DEF Players
  <2> QED BY <1>1, <2>1, <2>2, <2>3 DEF Acted, DeviceTyped
<1>4. CASE player.upcoming # NoItem
  <2> DEFINE done == <<"finished", player.token, player.offset>>
             start == <<"started", player.upcoming, 0>>
  <2>1. player.upcoming \in Items BY <1>2, <1>4 DEF Players
  <2>2. done \in Calls /\ start \in Calls BY <1>2, <2>1 DEF Calls, Kinds, Players
  <2>3. player' = Streaming(player.upcoming, 0) /\ Sends(mail, <<done, start>>)
    BY <1>1, <1>4
  <2>4. \A m : IsNew(m, done) => IsReport(m)
    BY <1>2 DEF IsNew, IsReport
  <2> HIDE DEF done, start
  <2>5. /\ <<done, start>> \in Seq(Calls) /\ DOMAIN <<done, start>> = {1, 2}
        /\ <<done, start>>[1] = done /\ <<done, start>>[2] = start
    BY <2>2
  <2>6. /\ MailTyped
        /\ \A k \in DOMAIN mail' :
             \/ \E j \in DOMAIN mail : mail'[k] = mail[j]
             \/ \E j \in DOMAIN <<done, start>> : IsNew(mail'[k], <<done, start>>[j])
    BY <1>1, <2>3, <2>5, MailRests, Sent DEF Calls
  <2>7. \A k \in DOMAIN mail' :
          Old(mail'[k]) \/ IsReport(mail'[k]) \/ IsNew(mail'[k], start)
    BY <2>4, <2>5, <2>6 DEF Old
  <2>8. player' \in Players /\ PlaysSomething'
    BY <1>2, <2>1, <2>3, StreamingTyped DEF PlaysSomething
  <2> QED BY <1>1, <2>1, <2>3, <2>6, <2>7, <2>8 DEF Acted, DeviceTyped, start
<1> QED BY <1>3, <1>4

LEMMA DeviceStep ==
  ASSUME TypeOK, PlaysSomething, NearlyFinish \/ Report \/ Finish \/ Fail
  PROVE  /\ Acted
         /\ used' \in [searches : 0 .. MaxSearches, commands : 0 .. MaxInputs,
                       reports : 0 .. MaxInputs, idle : 0 .. MaxIdle]
         /\ disorder \subseteq disorder'
         /\ disorder' \subseteq Irregularities \union {"overtaken"}
<1>1. /\ disorder \subseteq Irregularities \union {"overtaken"}
      /\ Faults \subseteq Irregularities /\ player \in Players
      /\ used \in [searches : 0 .. MaxSearches, commands : 0 .. MaxInputs,
                   reports : 0 .. MaxInputs, idle : 0 .. MaxIdle]
  BY PlaybackAssumption DEF TypeOK
<1>2. CASE NearlyFinish
  <2>1. /\ UNCHANGED <<store, now, used, disorder, heard, ended>>
        /\ player.activity = "PLAYING" /\ player' = [player EXCEPT !.announced = TRUE]
        /\ Sends(mail, << <<"nearly_finished", player.token, player.offset>> >>)
    BY <1>2 DEF NearlyFinish
  <2>2. MailTyped /\ \A k \in DOMAIN mail' : Old(mail'[k]) \/ IsReport(mail'[k])
    BY <2>1, ReportSent DEF Kinds
  <2>3. /\ player' \in Players /\ PlaysSomething'
        /\ player'.token = player.token /\ player'.offset = player.offset
        /\ player'.upcoming = player.upcoming
    BY <1>1, <2>1 DEF Players, PlaysSomething
  <2> QED BY <1>1, <2>1, <2>2, <2>3 DEF Acted, DeviceTyped
<1>3. CASE Report
  <2>1. /\ UNCHANGED <<store, player, now, disorder, heard, ended>>
        /\ player.activity = "PLAYING" /\ Inputs < MaxInputs
        /\ used' = [used EXCEPT !.reports = @ + 1]
        /\ Sends(mail, << <<"progress", player.token, player.offset>> >>)
    BY <1>3 DEF Report
  <2>2. MailTyped /\ \A k \in DOMAIN mail' : Old(mail'[k]) \/ IsReport(mail'[k])
    BY <2>1, ReportSent DEF Kinds
  <2>3. used.reports \in Nat /\ used.reports + 1 \in 0 .. MaxInputs
    BY <1>1, <2>1, InputsBound
  <2>4. /\ used' \in [searches : 0 .. MaxSearches, commands : 0 .. MaxInputs,
                      reports : 0 .. MaxInputs, idle : 0 .. MaxIdle]
        /\ used'.searches = used.searches
    BY <1>1, <2>1, <2>3
  <2> QED BY <1>1, <2>1, <2>2, <2>4 DEF Acted, DeviceTyped, PlaysSomething
<1>4. CASE Finish BY <1>1, <1>4, FinishStep DEF Acted
<1>5. CASE Fail
  <2>1. /\ UNCHANGED <<store, now, used, heard, ended>> /\ Irregular("failure")
        /\ player.activity = "PLAYING" /\ player' = [player EXCEPT !.activity = "STOPPED"]
        /\ Sends(mail, << <<"failed", player.token, player.offset>> >>)
    BY <1>5 DEF Fail
  <2>2. MailTyped /\ \A k \in DOMAIN mail' : Old(mail'[k]) \/ IsReport(mail'[k])
    BY <2>1, ReportSent DEF Kinds
  <2>3. /\ player' \in Players /\ PlaysSomething'
        /\ player'.token = player.token /\ player'.offset = player.offset
        /\ player'.upcoming = player.upcoming
    BY <1>1, <2>1 DEF Players, PlaysSomething
  <2>4. disorder \subseteq disorder' /\ disorder' \subseteq Irregularities \union {"overtaken"}
    BY <1>1, <2>1 DEF Irregular
  <2> QED BY <1>1, <2>1, <2>2, <2>3, <2>4 DEF Acted, DeviceTyped
<1> QED BY <1>2, <1>3, <1>4, <1>5

-----------------------------------------------------------------------------
(* Types *)

LEMMA TickStep ==
  ASSUME TypeOK, PlaysSomething, Tick PROVE TypeOK' /\ PlaysSomething'
<1>1. /\ UNCHANGED <<store, mail, stamp, sent, disorder>> /\ now' = now + 1
      /\ now \in Nat \ {0} /\ sent \in Nat /\ stamp \in 0 .. now
  BY DEF Tick, TypeOK
<1>2. store' \in Documents' BY <1>1, DocumentsGrow DEF TypeOK
<1>3. mail' \in Seq(Events')
  <2>1. Events \subseteq Events' BY <1>1 DEF Events
  <2> QED BY <1>1, <2>1, SeqMonotonic DEF TypeOK
<1>4. now' \in Nat \ {0} /\ stamp' \in 0 .. now' BY <1>1
<1>5. CASE /\ player.activity = "PLAYING" /\ player.offset < Duration
           /\ player' = [player EXCEPT !.offset = @ + 1]
           /\ heard' = [heard EXCEPT ![player.token] = @ + 1]
           /\ ended' = IF player.offset + 1 = Duration THEN ended \union {player.token}
                                                       ELSE ended
           /\ UNCHANGED used
  <2>1. /\ player \in Players /\ player.token \in Items /\ Duration \in Nat
        /\ heard \in [Items -> Nat] /\ ended \subseteq Items
    BY <1>5, PlaybackAssumption DEF TypeOK, PlaysSomething
  <2>2. player.offset + 1 \in 0 .. Duration BY <1>5, <2>1 DEF Players
  <2>3. player' \in Players /\ PlaysSomething'
    BY <1>5, <2>1, <2>2 DEF Players, PlaysSomething
  <2>4. heard' \in [Items -> Nat] BY <1>5, <2>1
  <2>5. ended' \subseteq Items BY <1>5, <2>1
  <2> QED BY <1>1, <1>2, <1>3, <1>4, <1>5, <2>3, <2>4, <2>5 DEF TypeOK
<1>6. CASE /\ player.activity # "PLAYING" /\ used.idle < MaxIdle
           /\ used' = [used EXCEPT !.idle = @ + 1]
           /\ UNCHANGED <<player, heard, ended>>
  <2>1. used.idle + 1 \in 0 .. MaxIdle BY <1>6, InputsBound DEF TypeOK
  <2>2. used' \in [searches : 0 .. MaxSearches, commands : 0 .. MaxInputs,
                   reports : 0 .. MaxInputs, idle : 0 .. MaxIdle]
    BY <1>6, <2>1 DEF TypeOK
  <2> QED BY <1>1, <1>2, <1>3, <1>4, <1>6, <2>2 DEF TypeOK, PlaysSomething, Players
<1> QED BY <1>5, <1>6 DEF Tick

\* The device and the mail are typed: what remains is the document.
LEMMA StaysTyped ==
  ASSUME TypeOK, DeviceTyped, store' \in Documents, UNCHANGED <<now, heard, ended>>,
         used' \in [searches : 0 .. MaxSearches, commands : 0 .. MaxInputs,
                    reports : 0 .. MaxInputs, idle : 0 .. MaxIdle],
         disorder' \subseteq Irregularities \union {"overtaken"}
  PROVE  TypeOK' /\ PlaysSomething'
<1>1. /\ now' = now /\ now \in Nat \ {0} /\ sent' \in Nat /\ sent <= sent'
      /\ stamp' \in {stamp, now} /\ stamp \in 0 .. now
  BY DEF DeviceTyped, MailTyped, TypeOK
<1>2. store' \in Documents' BY <1>1, DocumentsGrow
<1>3. stamp' \in 0 .. now' /\ now' \in Nat \ {0} BY <1>1
<1>4. player' \in Players' /\ PlaysSomething' /\ mail' \in Seq(Events')
  BY DEF DeviceTyped, MailTyped, Players
<1>5. heard' \in [Items -> Nat] /\ ended' \subseteq Items BY DEF TypeOK
<1> QED BY <1>1, <1>2, <1>3, <1>4, <1>5 DEF TypeOK

TypeInv == TypeOK /\ PlaysSomething

LEMMA TypeNext ==
  ASSUME TypeInv, [Next]_vars PROVE TypeInv'
<1>0. TypeOK /\ PlaysSomething BY DEF TypeInv
<1>1. CASE Tick BY <1>0, <1>1, TickStep DEF TypeInv
<1>2. CASE NearlyFinish \/ Report \/ Finish \/ Fail
  <2>1. store \in Documents BY <1>0 DEF TypeOK
  <2> QED BY <1>0, <1>2, <2>1, DeviceStep, StaysTyped DEF Acted, TypeInv
<1>3. CASE Network
  <2>1. /\ UNCHANGED <<now, used, heard, ended>>
        /\ disorder' \subseteq Irregularities \union {"overtaken"}
        /\ Ignored \/ \E j \in DOMAIN mail : Handled(mail[j])
    BY <1>0, <1>3, NetworkStep DEF Quiescent
  <2>2. store' \in Documents /\ DeviceTyped
    BY <1>0, <2>1 DEF Ignored, Handled, EventSeen, TypeOK
  <2> QED BY <1>0, <2>1, <2>2, StaysTyped DEF TypeInv, TypeOK
<1>4. CASE Listener
  BY <1>0, <1>4, CommandStep, StaysTyped DEF Spoken, Completed, TypeInv
<1>5. CASE UNCHANGED vars
  BY <1>0, <1>5 DEF vars, TypeInv, TypeOK, PlaysSomething, Documents, Sessions, Queues,
                    Players, Events
<1> QED BY <1>1, <1>2, <1>3, <1>4, <1>5 DEF Next, Device

LEMMA TypeInit == Init => TypeInv
<1> SUFFICES ASSUME Init PROVE TypeInv OBVIOUS
<1>1. /\ 0 \in 0 .. Duration /\ 0 \in 0 .. MaxInputs /\ 0 \in 0 .. MaxSearches
      /\ 0 \in 0 .. MaxIdle
  BY PlaybackAssumption
<1>2. now = 1 /\ stamp = 0 /\ sent = 0 /\ mail = <<>> /\ disorder = {} /\ ended = {}
  BY DEF Init
<1>3. NoSession \in Sessions
  BY <1>1, <1>2 DEF NoSession, Sessions, Statuses
<1>4. store \in Documents
  <2>1. <<>> \in Seq(Items) OBVIOUS
  <2> HIDE DEF NoSession
  <2> QED BY <1>3, <2>1 DEF Init, Documents, Queues
<1>5. player \in Players /\ PlaysSomething
  BY <1>1 DEF Init, Streaming, Players, PlaysSomething
<1>6. /\ used \in [searches : 0 .. MaxSearches, commands : 0 .. MaxInputs,
                   reports : 0 .. MaxInputs, idle : 0 .. MaxIdle]
      /\ heard \in [Items -> Nat] /\ mail \in Seq(Events)
  BY <1>1 DEF Init
<1> QED BY <1>2, <1>4, <1>5, <1>6 DEF TypeInv, TypeOK

LEMMA TypeAlways == Spec => []TypeInv
<1> QED BY TypeInit, TypeNext, PTL DEF Spec

\* The document, the device's player and the events between them stay
\* well-formed whatever is said and whatever becomes of the events: an offset
\* that a handler stores is within the recording, and no stored or travelling
\* time or request id is of the future.
THEOREM PlaybackTypeCorrect == Spec => []TypeOK
<1>1. TypeInv => TypeOK BY DEF TypeInv
<1> QED BY <1>1, TypeAlways, PTL

-----------------------------------------------------------------------------
(* What is finished was heard *)

\* What is on its way says "at the end" only of what was played to its end.
EndIsPast(m) == m.kind = "finished" \/ m.offset >= Duration => m.token \in ended

LEMMA EndOnItsWay ==
  ASSUME TypeInv, EndWasHeard, ended' = ended, NEW m \in Events',
         \/ Old(m) \/ IsStopped(m) \/ IsReport(m)
         \/ \E i, offset : offset < Duration /\ IsNew(m, <<"started", i, offset>>)
  PROVE  m.kind = "finished" \/ m.offset >= Duration => m.token \in ended'
<1>1. /\ player \in Players /\ NoItem \notin Items /\ Duration \in Nat
      /\ m.token \in Items /\ m.offset \in 0 .. Duration
  BY PlaybackAssumption DEF TypeInv, TypeOK, Events
<1>2. CASE Old(m) BY <1>2 DEF Old, EndWasHeard
<1>3. CASE IsStopped(m)
  <2>1. m.kind = "stopped" /\ m.token = player.token /\ m.offset = player.offset
    BY <1>3 DEF IsStopped, IsNew
  <2> QED BY <1>1, <2>1 DEF EndWasHeard
<1>4. CASE IsReport(m)
  <2>1. /\ m.token = player.token /\ m.offset = player.offset
        /\ m.kind = "finished" => player.offset >= Duration
    BY <1>4 DEF IsReport, IsNew
  <2> QED BY <1>1, <2>1 DEF EndWasHeard
<1>5. CASE \E i, offset : offset < Duration /\ IsNew(m, <<"started", i, offset>>)
  <2>1. m.kind = "started" /\ m.offset < Duration BY <1>5 DEF IsNew
  <2> QED BY <1>1, <2>1
<1> QED BY <1>2, <1>3, <1>4, <1>5

\* The three parts of EndWasHeard, after a step in which nothing is played.
LEMMA EndKept ==
  ASSUME TypeInv, TypeInv', EndWasHeard, ended' = ended,
         FinishedIds(store') \subseteq ended,
         \/ player'.token = player.token /\ player'.offset = player.offset
         \/ player'.offset < Duration,
         \A k \in DOMAIN mail' :
           \/ Old(mail'[k]) \/ IsStopped(mail'[k]) \/ IsReport(mail'[k])
           \/ \E i, offset : offset < Duration /\ IsNew(mail'[k], <<"started", i, offset>>)
  PROVE  EndWasHeard'
<1>1. \A k \in DOMAIN mail' :
        mail'[k].kind = "finished" \/ mail'[k].offset >= Duration => mail'[k].token \in ended'
  <2>1. mail' \in Seq(Events') BY DEF TypeInv, TypeOK
  <2>2. \A k \in DOMAIN mail' : mail'[k] \in Events' BY <2>1, LenProperties, ElementOfSeq
  <2> QED BY <2>2, EndOnItsWay
<1>2. player'.token # NoItem /\ player'.offset >= Duration => player'.token \in ended'
  <2>1. player' \in Players' /\ Duration \in Nat
    BY PlaybackAssumption DEF TypeInv, TypeOK
  <2>2. player'.offset \in Nat BY <2>1 DEF Players
  <2> QED BY <2>1, <2>2 DEF EndWasHeard
<1>3. FinishedIds(store)' = FinishedIds(store') BY DEF FinishedIds, IsFinished
<1> QED BY <1>1, <1>2, <1>3 DEF EndWasHeard, FinishedWasHeard

\* Playing is how an item gets to its end.
LEMMA EndHeardByTick ==
  ASSUME TypeInv, EndWasHeard, Tick PROVE EndWasHeard'
<1>1. store' = store /\ mail' = mail BY DEF Tick
<1>2. ended \subseteq ended' BY DEF Tick
<1>3. player'.token # NoItem /\ player'.offset >= Duration => player'.token \in ended'
  <2>1. CASE player.activity # "PLAYING"
    <3>1. player' = player BY <2>1 DEF Tick
    <3> QED BY <1>2, <3>1 DEF EndWasHeard
  <2>2. CASE player.activity = "PLAYING"
    <3>1. /\ player.offset < Duration /\ player' = [player EXCEPT !.offset = @ + 1]
          /\ ended' = IF player.offset + 1 = Duration THEN ended \union {player.token}
                                                      ELSE ended
      BY <2>2 DEF Tick
    <3>2. player \in Players /\ player.offset \in Nat /\ Duration \in Nat
      BY PlaybackAssumption DEF TypeInv, TypeOK, Players
    <3>3. player'.offset = player.offset + 1 /\ player'.token = player.token
      BY <3>1, <3>2 DEF Players
    <3> QED BY <3>1, <3>2, <3>3
  <2> QED BY <2>1, <2>2
<1>4. FinishedIds(store') = FinishedIds(store) BY <1>1
<1>5. FinishedIds(store)' = FinishedIds(store') BY DEF FinishedIds, IsFinished
<1> QED BY <1>1, <1>2, <1>3, <1>4, <1>5 DEF EndWasHeard, FinishedWasHeard

LEMMA EndNext ==
  ASSUME TypeInv, TypeInv', EndWasHeard, [Next]_vars PROVE EndWasHeard'
<1>0. /\ TypeOK /\ PlaysSomething /\ FinishedIds(store) \subseteq ended
      /\ Duration \in Nat \ {0}
  BY PlaybackAssumption DEF TypeInv, EndWasHeard, FinishedWasHeard
<1>1. CASE Tick BY <1>1, EndHeardByTick
<1>2. CASE NearlyFinish \/ Report \/ Finish \/ Fail
  <2>1. Acted BY <1>0, <1>2, DeviceStep
  <2>2. ended' = ended /\ FinishedIds(store') \subseteq ended
    BY <1>0, <2>1 DEF Acted
  <2>3. \/ player'.token = player.token /\ player'.offset = player.offset
        \/ player'.offset < Duration
    BY <1>0, <2>1 DEF Acted, Streaming
  <2>4. \A k \in DOMAIN mail' :
           \/ Old(mail'[k]) \/ IsStopped(mail'[k]) \/ IsReport(mail'[k])
           \/ \E i, offset : offset < Duration /\ IsNew(mail'[k], <<"started", i, offset>>)
    <3>1. 0 < Duration BY <1>0
    <3> QED BY <2>1, <3>1 DEF Acted
  <2> QED BY <2>2, <2>3, <2>4, EndKept
<1>3. CASE Network
  <2>1. ended' = ended /\ (Ignored \/ \E j \in DOMAIN mail : Handled(mail[j]))
    BY <1>0, <1>3, NetworkStep DEF Quiescent
  <2>2. CASE Ignored
    <3>1. store' = store /\ player' = player /\ \A k \in DOMAIN mail' : Old(mail'[k])
      BY <2>2 DEF Ignored
    <3> QED BY <1>0, <2>1, <3>1, EndKept
  <2>3. ASSUME NEW j \in DOMAIN mail, Handled(mail[j]) PROVE EndWasHeard'
    <3>1. FinishedIds(store') \subseteq FinishedIds(store) \cup Completes(mail[j])
      BY <2>3 DEF Handled, EventSeen
    <3>2. Completes(mail[j]) \subseteq ended BY DEF Completes, EndWasHeard
    <3>3. FinishedIds(store') \subseteq ended BY <1>0, <3>1, <3>2
    <3>4. CASE player' = player /\ \A k \in DOMAIN mail' : Old(mail'[k])
      BY <2>1, <3>3, <3>4, EndKept
    <3>5. ASSUME NEW i \in Items,
                 \/ player' = player \/ player' = [player EXCEPT !.upcoming = i]
                 \/ player' = Streaming(i, 0),
                 \A k \in DOMAIN mail' : Old(mail'[k]) \/ IsNew(mail'[k], <<"started", i, 0>>)
          PROVE  EndWasHeard'
      <4>1. \/ player'.token = player.token /\ player'.offset = player.offset
            \/ player'.offset < Duration
        BY <1>0, <3>5 DEF Streaming, TypeOK, Players
      <4>2. \A k \in DOMAIN mail' :
              \/ Old(mail'[k]) \/ IsStopped(mail'[k]) \/ IsReport(mail'[k])
              \/ \E n, offset : offset < Duration /\ IsNew(mail'[k], <<"started", n, offset>>)
        <5>1. 0 < Duration BY <1>0
        <5> QED BY <3>5, <5>1
      <4> QED BY <2>1, <3>3, <4>1, <4>2, EndKept
    <3> QED BY <2>3, <3>4, <3>5 DEF Handled
  <2> QED BY <2>1, <2>2, <2>3
<1>4. CASE Listener
  <2>1. Spoken /\ Completed /\ (Searched \/ Moved \/ Stayed)
    BY <1>0, <1>4, CommandStep
  <2>2. ended' = ended BY <2>1 DEF Spoken
  <2>3. FinishedIds(store') \subseteq ended
    <3>1. PlayedToEnd \subseteq ended BY DEF PlayedToEnd, EndWasHeard
    <3> QED BY <1>0, <2>1, <3>1 DEF Completed
  <2>4. CASE Undirected
    <3>1. player'.token = player.token /\ player'.offset = player.offset
      BY <1>0, <2>4 DEF Undirected, TypeOK, Players
    <3> QED BY <2>2, <2>3, <2>4, <3>1, EndKept DEF Undirected
  <2>5. ASSUME NEW i, Directed(i) PROVE EndWasHeard'
    <3>1. PICK offset \in 0 .. Duration :
            /\ offset < Duration
            /\ IF Answered THEN player' = Streaming(i, offset) ELSE player' = player
            /\ \A k \in DOMAIN mail' :
                 \/ Old(mail'[k]) \/ IsStopped(mail'[k])
                 \/ IsNew(mail'[k], <<"started", i, offset>>)
      BY <2>5 DEF Directed
    <3>2. \/ player'.token = player.token /\ player'.offset = player.offset
          \/ player'.offset < Duration
      BY <3>1 DEF Streaming
    <3>3. \A k \in DOMAIN mail' :
            \/ Old(mail'[k]) \/ IsStopped(mail'[k]) \/ IsReport(mail'[k])
            \/ \E n, o : o < Duration /\ IsNew(mail'[k], <<"started", n, o>>)
      BY <3>1
    <3> QED BY <2>2, <2>3, <3>2, <3>3, EndKept
  <2> QED BY <2>1, <2>4, <2>5 DEF Searched, Moved, Stayed
<1>5. CASE UNCHANGED vars
  <2>1. FinishedIds(store)' = FinishedIds(store') BY DEF FinishedIds, IsFinished
  <2> QED BY <1>5, <2>1 DEF vars, EndWasHeard, FinishedWasHeard
<1> QED BY <1>1, <1>2, <1>3, <1>4, <1>5 DEF Next, Device

LEMMA EndInit == Init => EndWasHeard
<1> SUFFICES ASSUME Init PROVE EndWasHeard OBVIOUS
<1>1. /\ store.completed = {} /\ store.active.item = NoItem /\ mail = <<>>
      /\ player.token = NoItem
  BY DEF Init, NoSession, Streaming
<1> QED BY <1>1 DEF EndWasHeard, FinishedWasHeard, FinishedIds

\* What the skill records as finished, and so passes over from then on, has been
\* played to its end: no seek, repeat, resume, pause or search brings an item's
\* offset to its end, and no late, lost, reordered or repeated event completes an
\* item that was not.
THEOREM OnlyHeardIsFinished == Spec => []FinishedWasHeard
<1>1. EndWasHeard => FinishedWasHeard BY DEF EndWasHeard
<1>2. Init => EndWasHeard BY EndInit
<1>3. TypeInv /\ TypeInv' /\ EndWasHeard /\ [Next]_vars => EndWasHeard' BY EndNext
<1> QED BY <1>1, <1>2, <1>3, TypeAlways, PTL DEF Spec

-----------------------------------------------------------------------------
(* The cursor *)

\* An item keeps its place when the queue grows.
LEMMA QueueKeptItems ==
  ASSUME QueueKept(store'.queue)
  PROVE  \A i : InQueue(store.queue, i) => InQueue(store'.queue, i)
BY DEF QueueKept, InQueue

\* A letter that the step did not write is a letter of before, and as old.
LEMMA OldIsPast ==
  ASSUME TypeInv, MailIsPast, NEW m, Old(m)
  PROVE  m.time <= stamp /\ m.time \in Nat
BY MailRests DEF TypeInv, Old, MailIsPast, Events

\* After a step that starts an item of the queue at the device, or none, every
\* start the session will still accept is in the queue.
LEMMA StartsKept ==
  ASSUME TypeInv, CursorInv, QueueKept(store'.queue), store'.active.eventTime \in Nat,
         store'.active.eventTime >= store.active.eventTime,
         NEW i, InQueue(store'.queue, i) \/ (i = NoItem),
         \/ player'.upcoming \in {player.upcoming, NoItem} \/ player'.upcoming = i,
         \A k \in DOMAIN mail' :
           \/ Old(mail'[k]) \/ mail'[k].kind # "started"
           \/ i # NoItem /\ mail'[k].token = i
  PROVE  StartsFromQueue'
<1>1. player'.upcoming = NoItem \/ InQueue(store'.queue, player'.upcoming)
  BY QueueKeptItems DEF CursorInv, StartsFromQueue
<1>2. ASSUME NEW k \in DOMAIN mail', mail'[k].kind = "started",
             mail'[k].time >= store'.active.eventTime
      PROVE  InQueue(store'.queue, mail'[k].token)
  <2>1. CASE Old(mail'[k])
    <3>1. PICK j \in DOMAIN mail : mail'[k] = mail[j] BY <2>1 DEF Old
    <3>2. mail[j].time \in Nat /\ store.active.eventTime \in Nat
      <4>1. mail[j] \in Events BY MailRests DEF TypeInv
      <4>2. mail[j].time \in Nat BY <4>1 DEF Events
      <4>3. store.active.eventTime \in Nat BY DEF TypeInv, TypeOK, Documents, Sessions
      <4> QED BY <4>2, <4>3
    <3>3. mail[j].time >= store.active.eventTime BY <1>2, <3>1, <3>2
    <3>4. InQueue(store.queue, mail[j].token)
      BY <1>2, <3>1, <3>3 DEF CursorInv, StartsFromQueue
    <3> QED BY <3>1, <3>4, QueueKeptItems
  <2>2. CASE ~Old(mail'[k]) BY <1>2, <2>2
  <2> QED BY <2>1, <2>2
<1>3. \A x : InQueue(store.queue, x)' = InQueue(store'.queue, x) BY DEF InQueue
<1> QED BY <1>1, <1>2 DEF StartsFromQueue, InQueue

LEMMA CursorByNetwork ==
  ASSUME TypeInv, CursorInv, Network PROVE CursorInv'
<1>0. TypeOK /\ PlaysSomething BY DEF TypeInv
<1>1. /\ mail # <<>> /\ used' = used
      /\ Ignored \/ \E j \in DOMAIN mail : Handled(mail[j])
  BY <1>0, NetworkStep DEF Quiescent
<1>2. HasSession BY <1>1 DEF CursorInv, SilentBeforeSearch
<1>3. NoItem \notin Items /\ store.active.eventTime \in Nat
  BY PlaybackAssumption DEF TypeInv, TypeOK, Documents, Sessions
<1>4. CASE Ignored
  <2>1. /\ store' = store /\ player' = player /\ MailTyped
        /\ \A k \in DOMAIN mail' : Old(mail'[k])
    BY <1>4 DEF Ignored, DeviceTyped
  <2>2. MailIsPast' BY <2>1 DEF MailTyped, CursorInv
  <2>3. SilentBeforeSearch' BY <1>1, <1>2, <2>1 DEF CursorInv, SilentBeforeSearch, HasSession
  <2>4. StartsFromQueue'
    BY <1>3, <2>1, StartsKept DEF QueueKept
  <2>5. CursorInQueue' BY <2>1 DEF CursorInv, CursorInQueue, HasSession
  <2> QED BY <2>2, <2>3, <2>4, <2>5 DEF CursorInv
<1>5. ASSUME NEW j \in DOMAIN mail, Handled(mail[j]) PROVE CursorInv'
  <2> DEFINE e == mail[j]
  <2>1. e \in Events BY <1>0, MailRests
  <2>2. Applies(e) /\ EventSeen(e) /\ DeviceTyped BY <1>5 DEF Handled
  <2>3. /\ e.time \in Nat /\ e.time >= store.active.eventTime /\ e.token \in Items
    BY <1>2, <1>3, <2>1, <2>2 DEF Events, Applies, AcceptsEvent, HasSession
  <2>4. MailIsPast' BY <2>2 DEF DeviceTyped, MailTyped, CursorInv
  <2>5. store'.active.item # NoItem /\ QueueKept(store'.queue)
        /\ store'.active.eventTime = e.time
    BY <1>2, <1>3, <2>2, <2>3 DEF EventSeen, HasSession
  <2>6. SilentBeforeSearch'
    BY <1>1, <1>2, <2>5 DEF CursorInv, SilentBeforeSearch, HasSession
  <2>7. CursorInQueue'
    <3>1. /\ store.queue.index \in DOMAIN store.queue.ids
          /\ store.queue.ids[store.queue.index] = store.active.item
      BY <1>2 DEF CursorInv, CursorInQueue
    <3>2. CASE /\ store'.active.item = store.active.item
               /\ store'.queue.index = store.queue.index
      BY <2>5, <3>1, <3>2 DEF QueueKept, CursorInQueue
    <3>3. CASE ~(/\ store'.active.item = store.active.item
                 /\ store'.queue.index = store.queue.index)
      <4>1. /\ store'.active.item = e.token
            /\ e.token = store.active.item \/ e.kind = "started"
            /\ InQueue(store.queue, e.token) =>
                 /\ store'.queue.index \in DOMAIN store'.queue.ids
                 /\ store'.queue.ids[store'.queue.index] = e.token
        BY <2>2, <3>3 DEF EventSeen
      <4>2. InQueue(store.queue, e.token)
        <5>1. CASE e.token = store.active.item BY <3>1, <5>1 DEF InQueue
        <5>2. CASE e.kind = "started"
          BY <2>3, <5>2 DEF CursorInv, StartsFromQueue
        <5> QED BY <4>1, <5>1, <5>2
      <4> QED BY <4>1, <4>2 DEF CursorInQueue
    <3> QED BY <3>2, <3>3
  <2> HIDE DEF e
  <2>8. StartsFromQueue'
    <3>1. CASE player' = player /\ \A k \in DOMAIN mail' : Old(mail'[k])
      BY <2>3, <2>5, <3>1, StartsKept
    <3>2. ASSUME NEW i \in Items, InQueue(store'.queue, i),
                 \/ player' = player \/ player' = [player EXCEPT !.upcoming = i]
                 \/ player' = Streaming(i, 0),
                 \A k \in DOMAIN mail' : Old(mail'[k]) \/ IsNew(mail'[k], <<"started", i, 0>>)
          PROVE  StartsFromQueue'
      <4>1. player'.upcoming \in {player.upcoming, NoItem} \/ player'.upcoming = i
        BY <1>0, <3>2 DEF Streaming, TypeOK, Players
      <4>2. \A k \in DOMAIN mail' : Old(mail'[k]) \/ mail'[k].token = i
        BY <3>2 DEF IsNew
      <4> QED BY <1>3, <2>3, <2>5, <3>2, <4>1, <4>2, StartsKept
    <3> QED BY <1>5, <3>1, <3>2 DEF Handled
  <2> QED BY <2>4, <2>6, <2>7, <2>8 DEF CursorInv
<1> QED BY <1>1, <1>4, <1>5

LEMMA CursorByDevice ==
  ASSUME TypeInv, CursorInv, NearlyFinish \/ Report \/ Finish \/ Fail PROVE CursorInv'
<1>0. TypeOK /\ PlaysSomething BY DEF TypeInv
<1>1. Acted BY <1>0, DeviceStep
<1>2. /\ store' = store /\ used'.searches = used.searches /\ MailTyped
      /\ player.activity = "PLAYING"
  BY <1>1 DEF Acted, DeviceTyped
<1>3. HasSession BY <1>2 DEF CursorInv, SilentBeforeSearch
<1>4. MailIsPast' BY <1>2 DEF MailTyped, CursorInv
<1>5. SilentBeforeSearch' BY <1>2, <1>3 DEF CursorInv, SilentBeforeSearch, HasSession
<1>6. CursorInQueue' BY <1>2 DEF CursorInv, CursorInQueue, HasSession
<1>7. NoItem \notin Items /\ store.active.eventTime \in Nat
  BY PlaybackAssumption DEF TypeInv, TypeOK, Documents, Sessions
<1>8. \A m : IsReport(m) => m.kind # "started" BY DEF IsReport
<1>9. CASE /\ player'.upcoming = player.upcoming
           /\ \A k \in DOMAIN mail' : Old(mail'[k]) \/ IsReport(mail'[k])
  BY <1>2, <1>4, <1>5, <1>6, <1>7, <1>8, <1>9, StartsKept DEF QueueKept, CursorInv
<1>10. CASE /\ player.upcoming \in Items /\ player' = Streaming(player.upcoming, 0)
            /\ \A k \in DOMAIN mail' :
                 \/ Old(mail'[k]) \/ IsReport(mail'[k])
                 \/ IsNew(mail'[k], <<"started", player.upcoming, 0>>)
  <2>1. InQueue(store'.queue, player.upcoming) /\ player.upcoming # NoItem
    BY <1>2, <1>7, <1>10 DEF CursorInv, StartsFromQueue
  <2>2. player'.upcoming = NoItem BY <1>10 DEF Streaming
  <2>3. \A k \in DOMAIN mail' :
          Old(mail'[k]) \/ mail'[k].kind # "started" \/ mail'[k].token = player.upcoming
    BY <1>8, <1>10 DEF IsNew
  <2>4. StartsFromQueue' BY <1>2, <1>7, <2>1, <2>2, <2>3, StartsKept DEF QueueKept
  <2> QED BY <1>4, <1>5, <1>6, <2>4 DEF CursorInv
<1> QED BY <1>1, <1>9, <1>10 DEF Acted

\* A start sent before the session was set to another item is too old for it.
LEMMA OldStartsPast ==
  ASSUME TypeInv, CursorInv, stamp < now, store'.active.eventTime = now, NEW i,
         InQueue(store'.queue, i),
         player'.upcoming = NoItem \/ InQueue(store'.queue, player'.upcoming),
         \A k \in DOMAIN mail' :
           Old(mail'[k]) \/ mail'[k].kind # "started" \/ mail'[k].token = i
  PROVE  StartsFromQueue'
<1>1. stamp \in Nat /\ now \in Nat BY DEF TypeInv, TypeOK
<1>2. ASSUME NEW k \in DOMAIN mail', mail'[k].kind = "started", mail'[k].time >= now
      PROVE  InQueue(store'.queue, mail'[k].token)
  <2>1. ~Old(mail'[k])
    <3> SUFFICES ASSUME Old(mail'[k]) PROVE FALSE OBVIOUS
    <3>1. mail'[k].time <= stamp /\ mail'[k].time \in Nat
      BY OldIsPast DEF CursorInv
    <3> QED BY <1>1, <1>2, <3>1
  <2> QED BY <1>2, <2>1
<1> QED BY <1>2 DEF StartsFromQueue, InQueue

\* The answers to the second and later searches all reach the device.
SearchesAnswered == MaxSearches <= 1 \/ "unanswered" \notin Faults

LEMMA CursorByCommand ==
  ASSUME SearchesAnswered \/ Answered, TypeInv, CursorInv, Listener PROVE CursorInv'
<1>0. TypeOK /\ PlaysSomething BY DEF TypeInv
<1>1. /\ Spoken /\ Completed
      /\ \/ /\ Searched /\ used.searches < MaxSearches
            /\ used'.searches = used.searches + 1
         \/ (Moved \/ Stayed) /\ used'.searches = used.searches
  BY <1>0, CommandStep
<1>2. /\ now' = now /\ stamp < now /\ ("unanswered" \notin Faults => Answered)
      /\ MailTyped
  BY <1>1 DEF Spoken, Completed, DeviceTyped
<1>3. /\ NoItem \notin Items /\ store.active.eventTime \in Nat /\ used.searches \in Nat
      /\ MaxSearches \in Nat
  <2>1. NoItem \notin Items /\ MaxSearches \in Nat BY PlaybackAssumption
  <2>2. used.searches \in Nat BY <1>0, <2>1 DEF TypeOK
  <2>3. store.active.eventTime \in Nat BY <1>0 DEF TypeOK, Documents, Sessions
  <2> QED BY <2>1, <2>2, <2>3
<1>4. MailIsPast' BY <1>2 DEF MailTyped, CursorInv
<1>5. \A m : IsStopped(m) => m.kind # "started" BY DEF IsStopped, IsNew
<1>6. CASE Searched /\ used.searches < MaxSearches /\ used'.searches = used.searches + 1
  <2> DEFINE first == Pages[1][1]
  <2>1. /\ store'.queue.ids = Pages[1] /\ store'.queue.index = 1
        /\ 1 \in DOMAIN Pages[1] /\ first \in Items
        /\ store'.active.item = first /\ store'.active.eventTime = now
    BY <1>6 DEF Searched
  <2>2. HasSession' /\ used'.searches # 0 BY <1>3, <1>6, <2>1 DEF HasSession
  <2>3. SilentBeforeSearch' BY <2>2 DEF SilentBeforeSearch, HasSession
  <2>4. CursorInQueue' BY <2>1 DEF CursorInQueue
  <2>5. InQueue(store'.queue, first) BY <2>1 DEF InQueue
  <2> HIDE DEF first
  <2>6. PICK offset \in 0 .. Duration :
          /\ IF Answered THEN player' = Streaming(first, offset) ELSE player' = player
          /\ \A k \in DOMAIN mail' :
               \/ Old(mail'[k]) \/ IsStopped(mail'[k])
               \/ IsNew(mail'[k], <<"started", first, offset>>)
    BY <1>6 DEF Searched, Directed, first
  <2>7. player'.upcoming = NoItem
    <3>1. CASE Answered BY <2>6, <3>1 DEF Streaming
    <3>2. CASE ~Answered
      <4>1. used.searches = 0 BY <1>2, <1>3, <1>6, <3>2 DEF SearchesAnswered
      <4>2. player.upcoming = NoItem BY <4>1 DEF CursorInv, SilentBeforeSearch
      <4> QED BY <2>6, <3>2, <4>2
    <3> QED BY <3>1, <3>2
  <2>8. \A k \in DOMAIN mail' :
          Old(mail'[k]) \/ mail'[k].kind # "started" \/ mail'[k].token = first
    BY <1>5, <2>6 DEF IsNew
  <2>9. StartsFromQueue' BY <1>2, <2>1, <2>5, <2>7, <2>8, OldStartsPast
  <2> QED BY <1>4, <2>3, <2>4, <2>9 DEF CursorInv
<1>7. CASE Moved /\ used'.searches = used.searches
  <2> DEFINE i == store'.active.item
  <2>1. /\ HasSession /\ QueueKept(store'.queue)
        /\ store'.queue.index \in DOMAIN store'.queue.ids
        /\ i \in Items /\ i = store'.queue.ids[store'.queue.index]
        /\ store'.active.eventTime = now
    BY <1>7 DEF Moved
  <2>2. HasSession' BY <1>3, <2>1 DEF HasSession
  <2>3. SilentBeforeSearch' BY <1>7, <2>1, <2>2 DEF CursorInv, SilentBeforeSearch, HasSession
  <2>4. CursorInQueue' BY <2>1 DEF CursorInQueue
  <2>5. InQueue(store'.queue, i) BY <2>1 DEF InQueue
  <2> HIDE DEF i
  <2>6. PICK offset \in 0 .. Duration :
          /\ IF Answered THEN player' = Streaming(i, offset) ELSE player' = player
          /\ \A k \in DOMAIN mail' :
               \/ Old(mail'[k]) \/ IsStopped(mail'[k])
               \/ IsNew(mail'[k], <<"started", i, offset>>)
    BY <1>7 DEF Moved, Directed, i
  <2>7. player'.upcoming = NoItem \/ InQueue(store'.queue, player'.upcoming)
    <3>1. CASE Answered BY <2>6, <3>1 DEF Streaming
    <3>2. CASE ~Answered
      BY <2>1, <2>6, <3>2, QueueKeptItems DEF CursorInv, StartsFromQueue
    <3> QED BY <3>1, <3>2
  <2>8. \A k \in DOMAIN mail' :
          Old(mail'[k]) \/ mail'[k].kind # "started" \/ mail'[k].token = i
    BY <1>5, <2>6 DEF IsNew
  <2>9. StartsFromQueue' BY <1>2, <2>1, <2>5, <2>7, <2>8, OldStartsPast
  <2> QED BY <1>4, <2>3, <2>4, <2>9 DEF CursorInv
<1>8. CASE Stayed /\ used'.searches = used.searches
  <2>1. /\ QueueKept(store'.queue) /\ store'.queue.index = store.queue.index
        /\ store'.active.item = store.active.item
        /\ store'.active.eventTime = store.active.eventTime
        /\ Undirected \/ (HasSession /\ Directed(store.active.item))
    BY <1>8 DEF Stayed
  <2>2. HasSession' <=> HasSession BY <2>1 DEF HasSession
  <2>3. CursorInQueue'
    BY <2>1, <2>2 DEF CursorInv, CursorInQueue, QueueKept
  <2>4. CASE Undirected
    <3>1. /\ player' = player \/ player' = [player EXCEPT !.activity = "STOPPED"]
          /\ \A k \in DOMAIN mail' : Old(mail'[k]) \/ IsStopped(mail'[k])
      BY <2>4 DEF Undirected
    <3>2. player'.upcoming = player.upcoming BY <1>0, <3>1 DEF TypeOK, Players
    <3>3. StartsFromQueue' BY <1>3, <1>5, <2>1, <3>1, <3>2, StartsKept
    <3>4. ASSUME ~HasSession PROVE mail' = <<>> /\ player'.activity = "STOPPED"
      <4>1. mail = <<>> /\ player.activity = "STOPPED"
        BY <3>4 DEF CursorInv, SilentBeforeSearch
      <4>2. \A k \in DOMAIN mail' : FALSE BY <3>1, <4>1 DEF Old, IsStopped
      <4>3. mail' \in Seq(Events') BY <1>2 DEF MailTyped
      <4>4. mail' = <<>>
        <5>1. DOMAIN mail' = 1 .. Len(mail') /\ Len(mail') \in Nat
          BY <4>3, LenProperties
        <5>2. Len(mail') = 0 BY <4>2, <5>1
        <5> QED BY <4>3, <5>2, EmptySeq
      <4>5. player'.activity = "STOPPED" BY <1>0, <3>1, <4>1 DEF TypeOK, Players
      <4> QED BY <4>4, <4>5
    <3>5. SilentBeforeSearch'
      BY <1>8, <2>2, <3>2, <3>4 DEF CursorInv, SilentBeforeSearch, HasSession
    <3> QED BY <1>4, <2>3, <3>3, <3>5 DEF CursorInv
  <2>5. CASE HasSession /\ Directed(store.active.item)
    <3>1. SilentBeforeSearch'
      BY <1>8, <2>2, <2>5 DEF CursorInv, SilentBeforeSearch, HasSession
    <3> DEFINE i == store.active.item
    <3>2. InQueue(store'.queue, i) /\ i # NoItem
      BY <2>1, <2>5 DEF CursorInv, CursorInQueue, InQueue, HasSession, QueueKept
    <3> HIDE DEF i
    <3>3. PICK offset \in 0 .. Duration :
            /\ IF Answered THEN player' = Streaming(i, offset) ELSE player' = player
            /\ \A k \in DOMAIN mail' :
                 \/ Old(mail'[k]) \/ IsStopped(mail'[k])
                 \/ IsNew(mail'[k], <<"started", i, offset>>)
      BY <2>5 DEF Directed, i
    <3>4. player'.upcoming \in {player.upcoming, NoItem} BY <3>3 DEF Streaming
    <3>5. \A k \in DOMAIN mail' :
            Old(mail'[k]) \/ mail'[k].kind # "started" \/ mail'[k].token = i
      BY <1>5, <3>3 DEF IsNew
    <3>6. StartsFromQueue' BY <1>3, <2>1, <3>2, <3>4, <3>5, StartsKept
    <3> QED BY <1>4, <2>3, <3>1, <3>6 DEF CursorInv
  <2> QED BY <2>1, <2>4, <2>5
<1> QED BY <1>1, <1>6, <1>7, <1>8

LEMMA CursorNext ==
  ASSUME SearchesAnswered \/ Answered, TypeInv, CursorInv, [Next]_vars PROVE CursorInv'
<1>1. CASE Tick
  <2>1. /\ store' = store /\ mail' = mail /\ stamp' = stamp /\ used'.searches = used.searches
        /\ player'.upcoming = player.upcoming /\ player'.activity = player.activity
    BY <1>1 DEF Tick, TypeInv, TypeOK, Players
  <2> QED BY <2>1 DEF CursorInv, MailIsPast, SilentBeforeSearch, StartsFromQueue,
                      CursorInQueue, HasSession, InQueue
<1>2. CASE NearlyFinish \/ Report \/ Finish \/ Fail BY <1>2, CursorByDevice
<1>3. CASE Network BY <1>3, CursorByNetwork
<1>4. CASE Listener BY <1>4, CursorByCommand
<1>5. CASE UNCHANGED vars
  BY <1>5 DEF vars, CursorInv, MailIsPast, SilentBeforeSearch, StartsFromQueue,
              CursorInQueue, HasSession, InQueue
<1> QED BY <1>1, <1>2, <1>3, <1>4, <1>5 DEF Next, Device

LEMMA CursorInit == Init => CursorInv
BY DEF Init, CursorInv, MailIsPast, SilentBeforeSearch, StartsFromQueue, CursorInQueue,
       HasSession, NoSession, Streaming

\* "Next", "previous" and the prefetch count from what is playing: after any
\* commands and whatever becomes of the events, the queue's index is at the
\* active item, although the two are written apart.  It takes that the answer to
\* a search replaces the device's stream, unless it is the first one: the session
\* clears nothing that the device was handed from the queue before.
THEOREM CursorStaysAtActive ==
  ASSUME MaxSearches <= 1 \/ "unanswered" \notin Faults
  PROVE  Spec => []CursorAtActive
<1>0. SearchesAnswered BY DEF SearchesAnswered
<1>1. CursorInv => CursorAtActive BY DEF CursorInv, CursorInQueue, CursorAtActive
<1>2. Init => CursorInv BY CursorInit
<1>3. TypeInv /\ CursorInv /\ [Next]_vars => CursorInv' BY <1>0, CursorNext
<1> QED BY <1>1, <1>2, <1>3, TypeAlways, PTL DEF Spec

-----------------------------------------------------------------------------
(* The document and the device in step *)

\* The k-th of the letters that a step sends.
Letter(m, k, call) ==
  /\ m.id = sent + k /\ m.kind = call[1] /\ m.token = call[2] /\ m.offset = call[3]
  /\ m.time = now

\* What is left of the mail keeps its places, and what is sent comes after it.
LEMMA SentMail ==
  ASSUME TypeOK, NEW rest \in Seq(Events), NEW events \in Seq(Calls), Sends(rest, events)
  PROVE  /\ Len(rest) \in Nat /\ Len(events) \in Nat
         /\ DOMAIN rest = 1 .. Len(rest) /\ DOMAIN mail' = 1 .. Len(mail')
         /\ Len(mail') = Len(rest) + Len(events)
         /\ \A k \in 1 .. Len(rest) : mail'[k] = rest[k]
         /\ \A k \in 1 .. Len(events) : Letter(mail'[Len(rest) + k], k, events[k])
         /\ stamp' = IF events = <<>> THEN stamp ELSE now
<1> DEFINE letter(k) == [id |-> sent + k, kind |-> events[k][1], token |-> events[k][2],
                         offset |-> events[k][3], time |-> now]
           letters == [k \in DOMAIN events |-> letter(k)]
<1>1. /\ DOMAIN events = 1 .. Len(events) /\ Len(events) \in Nat
      /\ DOMAIN rest = 1 .. Len(rest) /\ Len(rest) \in Nat
  BY LenProperties
<1>2. letters \in Seq({letter(k) : k \in 1 .. Len(events)}) /\ Len(letters) = Len(events)
  <2>1. letters = [k \in 1 .. Len(events) |-> letter(k)] BY <1>1
  <2> HIDE DEF letter
  <2> QED BY <1>1, <2>1, IsASeq
<1>3. \A k \in 1 .. Len(events) : letters[k] = letter(k) BY <1>1
<1>4. mail' = rest \o letters /\ stamp' = IF events = <<>> THEN stamp ELSE now
  BY DEF Sends
<1>5. \A k \in 1 .. Len(events) : Letter(letter(k), k, events[k]) BY DEF Letter
<1> DEFINE All == Events \union {letter(k) : k \in 1 .. Len(events)}
<1> HIDE DEF letter, letters
<1>6. rest \in Seq(All) /\ letters \in Seq(All)
  BY <1>2, SeqMonotonic
<1> HIDE DEF All
<1>7. /\ rest \o letters \in Seq(All) /\ Len(rest \o letters) = Len(rest) + Len(letters)
      /\ \A k \in 1 .. Len(rest) + Len(letters) : (rest \o letters)[k] =
           IF k <= Len(rest) THEN rest[k] ELSE letters[k - Len(rest)]
  BY <1>6, ConcatProperties
<1>8. Len(mail') = Len(rest) + Len(events) /\ DOMAIN mail' = 1 .. Len(mail')
  BY <1>2, <1>4, <1>7, LenProperties
<1>9. \A k \in 1 .. Len(rest) : mail'[k] = rest[k]
  BY <1>1, <1>2, <1>4, <1>7
<1>10. ASSUME NEW k \in 1 .. Len(events)
       PROVE  Letter(mail'[Len(rest) + k], k, events[k])
  <2>1. /\ Len(rest) + k \in 1 .. Len(rest) + Len(letters) /\ ~(Len(rest) + k <= Len(rest))
        /\ (Len(rest) + k) - Len(rest) = k
    BY <1>1, <1>2
  <2>2. mail'[Len(rest) + k] = letters[k] BY <1>4, <1>7, <2>1
  <2> QED BY <1>3, <1>5, <2>2
<1> QED BY <1>1, <1>4, <1>8, <1>9, <1>10

LEMMA MailTail ==
  ASSUME TypeOK
  PROVE  /\ mail \in Seq(Events) /\ Len(mail) \in Nat /\ DOMAIN mail = 1 .. Len(mail)
         /\ mail = <<>> <=> Len(mail) = 0
         /\ mail # <<>> =>
              /\ Len(mail) > 0 /\ Head(mail) = mail[1] /\ Tail(mail) \in Seq(Events)
              /\ Len(Tail(mail)) = Len(mail) - 1
              /\ \A k \in 1 .. Len(mail) - 1 : Tail(mail)[k] = mail[k + 1]
         /\ \A k \in 1 .. Len(mail) : mail[k] \in Events
<1>1. mail \in Seq(Events) /\ Len(mail) \in Nat /\ DOMAIN mail = 1 .. Len(mail)
  BY LenProperties DEF TypeOK
<1>2. mail = <<>> <=> Len(mail) = 0 BY <1>1, EmptySeq
<1>3. mail # <<>> =>
        /\ Len(mail) > 0 /\ Head(mail) = mail[1] /\ Tail(mail) \in Seq(Events)
        /\ Len(Tail(mail)) = Len(mail) - 1
        /\ \A k \in 1 .. Len(mail) - 1 : Tail(mail)[k] = mail[k + 1]
  BY <1>1, <1>2, HeadTailProperties
<1>4. \A k \in 1 .. Len(mail) : mail[k] \in Events BY <1>1, ElementOfSeq
<1> QED BY <1>1, <1>2, <1>3, <1>4

\* What is left of the mail is in order, and the session has seen none of it.
RestInOrder(rest) ==
  /\ \A k \in DOMAIN rest :
       store'.active.lastId < rest[k].id /\ store'.active.eventTime <= rest[k].time
  /\ \A j, k \in DOMAIN rest :
       j < k => rest[j].id < rest[k].id /\ rest[j].time <= rest[k].time

\* New events come last and bear the latest id and time.
LEMMA OrderKept ==
  ASSUME TypeOK, NEW rest \in Seq(Events), NEW events \in Seq(Calls), Sends(rest, events),
         RestInOrder(rest), store'.active.lastId \in 0 .. sent, store'.active.eventTime \in Nat,
         \/ store'.active.eventTime <= stamp
         \/ store'.active.eventTime <= now /\ events # <<>>
  PROVE  MailInOrder'
<1>1. /\ now \in Nat /\ stamp \in Nat /\ stamp <= now /\ sent \in Nat BY DEF TypeOK
<1>2. /\ Len(rest) \in Nat /\ Len(events) \in Nat
      /\ DOMAIN rest = 1 .. Len(rest) /\ DOMAIN mail' = 1 .. Len(mail')
      /\ Len(mail') = Len(rest) + Len(events)
      /\ \A k \in 1 .. Len(rest) : mail'[k] = rest[k]
      /\ \A k \in 1 .. Len(events) : Letter(mail'[Len(rest) + k], k, events[k])
      /\ stamp' = IF events = <<>> THEN stamp ELSE now
  BY SentMail
<1>3. \A k \in 1 .. Len(rest) : rest[k].id \in 1 .. sent /\ rest[k].time \in 1 .. now
  <2>1. \A k \in 1 .. Len(rest) : rest[k] \in Events BY <1>2, ElementOfSeq
  <2> QED BY <2>1 DEF Events
<1>4. store'.active.eventTime <= stamp' BY <1>1, <1>2
<1>5. store'.active.eventTime <= now BY <1>1
<1>6. ASSUME NEW k \in DOMAIN mail'
      PROVE  \/ k \in 1 .. Len(rest) /\ mail'[k] = rest[k]
             \/ /\ k - Len(rest) \in 1 .. Len(events)
                /\ mail'[k].id = sent + (k - Len(rest)) /\ mail'[k].time = now
  <2>1. CASE k \in 1 .. Len(rest) BY <1>2, <2>1
  <2>2. CASE k \notin 1 .. Len(rest)
    <3>1. k \in 1 .. Len(rest) + Len(events) BY <1>2, <1>6
    <3>0. Len(rest) \in Nat /\ Len(events) \in Nat BY <1>2
    <3>2. k - Len(rest) \in 1 .. Len(events) /\ Len(rest) + (k - Len(rest)) = k
      BY <2>2, <3>0, <3>1
    <3>3. Letter(mail'[Len(rest) + (k - Len(rest))], k - Len(rest), events[k - Len(rest)])
      BY <1>2, <3>2
    <3> QED BY <3>2, <3>3 DEF Letter
  <2> QED BY <2>1, <2>2
<1>7. ASSUME NEW k \in DOMAIN mail'
      PROVE  store'.active.lastId < mail'[k].id /\ store'.active.eventTime <= mail'[k].time
  <2>1. CASE k \in 1 .. Len(rest) /\ mail'[k] = rest[k] BY <1>2, <2>1 DEF RestInOrder
  <2>2. CASE /\ k - Len(rest) \in 1 .. Len(events)
             /\ mail'[k].id = sent + (k - Len(rest)) /\ mail'[k].time = now
    BY <1>1, <1>2, <1>5, <2>2
  <2> QED BY <1>6, <2>1, <2>2
<1>8. ASSUME NEW j \in DOMAIN mail', NEW k \in DOMAIN mail', j < k
      PROVE  mail'[j].id < mail'[k].id /\ mail'[j].time <= mail'[k].time
  <2>0. j \in Nat /\ k \in Nat BY <1>2
  <2>1. CASE k \in 1 .. Len(rest) /\ mail'[k] = rest[k]
    <3>1. j \in 1 .. Len(rest) /\ mail'[j] = rest[j] BY <1>2, <1>8, <2>0, <2>1
    <3>2. j \in DOMAIN rest /\ k \in DOMAIN rest BY <1>2, <2>1, <3>1
    <3>3. rest[j].id < rest[k].id /\ rest[j].time <= rest[k].time
      BY <1>8, <3>2 DEF RestInOrder
    <3> QED BY <2>1, <3>1, <3>3
  <2>2. CASE /\ k - Len(rest) \in 1 .. Len(events)
             /\ mail'[k].id = sent + (k - Len(rest)) /\ mail'[k].time = now
    <3>1. CASE j \in 1 .. Len(rest) /\ mail'[j] = rest[j]
      BY <1>1, <1>2, <1>3, <2>2, <3>1
    <3>2. CASE /\ j - Len(rest) \in 1 .. Len(events)
               /\ mail'[j].id = sent + (j - Len(rest)) /\ mail'[j].time = now
      BY <1>1, <1>2, <1>8, <2>0, <2>2, <3>2
    <3> QED BY <1>6, <3>1, <3>2
  <2> QED BY <1>6, <2>1, <2>2
<1> QED BY <1>4, <1>7, <1>8 DEF MailInOrder

LEMMA SentOne ==
  ASSUME TypeOK, NEW rest \in Seq(Events), NEW call \in Calls, Sends(rest, <<call>>)
  PROVE  /\ Len(rest) \in Nat /\ DOMAIN rest = 1 .. Len(rest)
         /\ Len(mail') = Len(rest) + 1 /\ DOMAIN mail' = 1 .. Len(rest) + 1
         /\ \A k \in 1 .. Len(rest) : mail'[k] = rest[k]
         /\ Letter(mail'[Len(rest) + 1], 1, call)
<1>1. <<call>> \in Seq(Calls) /\ Len(<<call>>) = 1 /\ <<call>>[1] = call OBVIOUS
<1>2. /\ Len(rest) \in Nat /\ DOMAIN rest = 1 .. Len(rest) /\ DOMAIN mail' = 1 .. Len(mail')
      /\ Len(mail') = Len(rest) + 1
      /\ \A k \in 1 .. Len(rest) : mail'[k] = rest[k]
      /\ \A k \in 1 .. 1 : Letter(mail'[Len(rest) + k], k, <<call>>[k])
  BY <1>1, SentMail
<1>3. Letter(mail'[Len(rest) + 1], 1, call) BY <1>1, <1>2
<1> QED BY <1>2, <1>3

LEMMA SentTwo ==
  ASSUME TypeOK, NEW rest \in Seq(Events), NEW c \in Calls, NEW d \in Calls,
         Sends(rest, <<c, d>>)
  PROVE  /\ Len(rest) \in Nat /\ DOMAIN rest = 1 .. Len(rest)
         /\ Len(mail') = Len(rest) + 2 /\ DOMAIN mail' = 1 .. Len(rest) + 2
         /\ \A k \in 1 .. Len(rest) : mail'[k] = rest[k]
         /\ Letter(mail'[Len(rest) + 1], 1, c) /\ Letter(mail'[Len(rest) + 2], 2, d)
<1>1. /\ <<c, d>> \in Seq(Calls) /\ Len(<<c, d>>) = 2
      /\ <<c, d>>[1] = c /\ <<c, d>>[2] = d
  OBVIOUS
<1>2. /\ Len(rest) \in Nat /\ DOMAIN rest = 1 .. Len(rest) /\ DOMAIN mail' = 1 .. Len(mail')
      /\ Len(mail') = Len(rest) + 2
      /\ \A k \in 1 .. Len(rest) : mail'[k] = rest[k]
      /\ \A k \in 1 .. 2 : Letter(mail'[Len(rest) + k], k, <<c, d>>[k])
  BY <1>1, SentMail
<1>3. /\ Letter(mail'[Len(rest) + 1], 1, <<c, d>>[1])
      /\ Letter(mail'[Len(rest) + 2], 2, <<c, d>>[2])
  <2>1. 1 \in 1 .. 2 /\ 2 \in 1 .. 2 OBVIOUS
  <2> QED BY <1>2, <2>1
<1> QED BY <1>1, <1>2, <1>3

LEMMA SentNone ==
  ASSUME TypeOK, NEW rest \in Seq(Events), NoDirective(rest)
  PROVE  /\ Len(rest) \in Nat /\ DOMAIN rest = 1 .. Len(rest)
         /\ Len(mail') = Len(rest) /\ DOMAIN mail' = 1 .. Len(rest)
         /\ \A k \in 1 .. Len(rest) : mail'[k] = rest[k]
         /\ stamp' = stamp /\ player' = player /\ Sends(rest, <<>>) /\ <<>> \in Seq(Calls)
<1>1. <<>> \in Seq(Calls) /\ Len(<<>>) = 0 OBVIOUS
<1>2. Sends(rest, <<>>) /\ player' = player BY DEF NoDirective
<1>3. /\ Len(rest) \in Nat /\ DOMAIN rest = 1 .. Len(rest) /\ DOMAIN mail' = 1 .. Len(mail')
      /\ Len(mail') = Len(rest) + 0
      /\ \A k \in 1 .. Len(rest) : mail'[k] = rest[k]
      /\ stamp' = stamp
  BY <1>1, <1>2, SentMail
<1> QED BY <1>1, <1>2, <1>3

\* Time passes: what was seen or sent at the end of a recording becomes past.
LEMMA TickInStep ==
  ASSUME TypeInv, InStepInv, Tick PROVE InStepInv'
<1>1. /\ UNCHANGED <<store, mail, stamp>> /\ now' = now + 1 /\ now \in Nat
      /\ stamp \in Nat /\ stamp <= now /\ TypeOK
  BY DEF Tick, TypeInv, TypeOK
<1>2. /\ player'.token = player.token /\ player'.activity = player.activity
      /\ player'.announced = player.announced /\ player'.upcoming = player.upcoming
      /\ player.activity # "PLAYING" => player' = player
  BY DEF Tick, TypeInv, TypeOK, Players
<1>3. MailInOrder' /\ PrefetchInStep' /\ PlayingWasSeen'
  BY <1>1, <1>2 DEF InStepInv, MailInOrder, PrefetchInStep, PlayingWasSeen
<1>4. store.active.eventTime \in Nat /\ store.active.eventTime <= stamp
  BY <1>1 DEF TypeOK, Documents, Sessions, InStepInv, MailInOrder
<1>5. \A k \in DOMAIN mail : mail[k].time \in Nat /\ mail[k].time <= now
  <2>1. \A k \in DOMAIN mail : mail[k] \in Events BY <1>1, MailRests
  <2> QED BY <1>1, <2>1 DEF Events
<1>6. ASSUME player.token # NoItem PROVE Follows' \/ \E k \in DOMAIN mail : Awaits(k)'
  <2>1. CASE Follows
    <3>1. ToldOfStream' BY <1>1, <1>2, <2>1 DEF Follows, ToldOfStream, Runs
    <3>2. store.active.eventTime < now' BY <1>1, <1>4
    <3> QED BY <1>1, <1>2, <2>1, <3>1, <3>2 DEF Follows
  <2>2. CASE \E k \in DOMAIN mail : Awaits(k)
    <3>1. PICK k \in DOMAIN mail : Awaits(k) BY <2>2
    <3>2. mail[k].time < now' BY <1>1, <1>5
    <3>3. Awaits(k)' BY <1>1, <1>2, <3>1, <3>2 DEF Awaits, Runs
    <3> QED BY <3>3
  <2> QED BY <1>6, <2>1, <2>2 DEF InStepInv
<1> QED BY <1>1, <1>2, <1>3, <1>6 DEF InStepInv, HasSession

\* The document is the same and no event was handled.
LEMMA NothingSeen ==
  ASSUME TypeInv, InStepInv, store' = store
  PROVE  /\ RestInOrder(mail) /\ store'.active.lastId \in 0 .. sent
         /\ store'.active.eventTime \in Nat /\ store'.active.eventTime <= stamp
         /\ PlayingWasSeen'
BY DEF TypeInv, TypeOK, Documents, Sessions, InStepInv, MailInOrder, RestInOrder, PlayingWasSeen

\* The device reports of its stream, which goes on.
LEMMA ReportInStep ==
  ASSUME TypeInv, InStepInv, player.activity = "PLAYING", UNCHANGED <<store, now>>,
         NEW kind \in {"nearly_finished", "progress"},
         Sends(mail, << <<kind, player.token, player.offset>> >>),
         IF kind = "progress" THEN player' = player
         ELSE ~player.announced /\ player' = [player EXCEPT !.announced = TRUE]
  PROVE  InStepInv'
<1> DEFINE call == <<kind, player.token, player.offset>>
           new == Len(mail) + 1
<1>1. TypeOK /\ player.token \in Items /\ player \in Players /\ NoItem \notin Items
  BY PlaybackAssumption DEF TypeInv, PlaysSomething, TypeOK
<1>2. call \in Calls BY <1>1 DEF Calls, Kinds, Players
<1>3. /\ mail \in Seq(Events) /\ Len(mail) \in Nat /\ DOMAIN mail = 1 .. Len(mail)
      /\ new \in Nat
  BY <1>1, MailTail
<1>4. /\ DOMAIN mail' = 1 .. Len(mail) + 1 /\ Len(mail') = Len(mail) + 1
      /\ \A k \in 1 .. Len(mail) : mail'[k] = mail[k]
      /\ Letter(mail'[Len(mail) + 1], 1, call)
  <2> HIDE DEF call
  <2>1. Sends(mail, <<call>>) BY DEF call
  <2> QED BY <1>1, <1>2, <1>3, <2>1, SentOne
<1>5. mail'[new].kind = kind /\ mail'[new].token = player.token /\ Runs(mail'[new])
  BY <1>4 DEF Letter, Runs
<1>6. MailInOrder'
  <2> HIDE DEF call
  <2>1. <<call>> \in Seq(Calls) BY <1>2
  <2>2. Sends(mail, <<call>>) BY DEF call
  <2> QED BY <1>1, <1>3, <2>1, <2>2, NothingSeen, OrderKept
<1>7. /\ player'.token = player.token /\ player'.offset = player.offset
      /\ player'.activity = "PLAYING" /\ player'.upcoming = player.upcoming
      /\ kind = "nearly_finished" => ~player.announced /\ player'.announced
      /\ player.announced => player'.announced
  BY <1>1 DEF Players
<1>8. PrefetchInStep'
  <2>0. PrefetchInStep /\ store' = store BY DEF InStepInv
  <2>1. kind = "nearly_finished" =>
          /\ \A k \in 1 .. Len(mail) : mail[k].kind # "nearly_finished"
          /\ player.upcoming = NoItem
    BY <1>3, <1>7, <2>0 DEF PrefetchInStep
  <2>2. ASSUME NEW k \in DOMAIN mail', mail'[k].kind = "nearly_finished"
        PROVE  /\ player'.announced /\ player'.upcoming = NoItem
               /\ \A j \in DOMAIN mail' : mail'[j].kind = "nearly_finished" => j = k
    <3>1. k \in 1 .. Len(mail) \/ k = new BY <1>3, <1>4
    <3>2. \A j \in DOMAIN mail' : j \in 1 .. Len(mail) \/ j = new BY <1>3, <1>4
    <3>3. CASE kind = "nearly_finished"
      <4>1. \A j \in 1 .. Len(mail) : mail'[j].kind # "nearly_finished" BY <1>4, <2>1, <3>3
      <4> QED BY <1>7, <2>1, <2>2, <3>1, <3>2, <3>3, <4>1
    <3>4. CASE kind # "nearly_finished"
      <4>1. k \in 1 .. Len(mail) /\ mail'[k] = mail[k] BY <1>4, <1>5, <2>2, <3>1, <3>4
      <4>2. player.announced /\ player.upcoming = NoItem
        BY <1>3, <2>0, <2>2, <4>1 DEF PrefetchInStep
      <4>3. \A j \in 1 .. Len(mail) : mail'[j].kind = "nearly_finished" => j = k
        BY <1>3, <1>4, <2>0, <2>2, <4>1 DEF PrefetchInStep
      <4> QED BY <1>5, <1>7, <3>2, <3>4, <4>2, <4>3
    <3> QED BY <3>3, <3>4
  <2>3. ASSUME player'.upcoming # NoItem
        PROVE  /\ player'.announced /\ store'.prepared = player'.upcoming
               /\ \A k \in DOMAIN mail' : mail'[k].kind # "started"
    <3>1. /\ player.announced /\ store.prepared = player.upcoming
          /\ \A k \in 1 .. Len(mail) : mail[k].kind # "started"
      BY <1>3, <1>7, <2>0, <2>3 DEF PrefetchInStep
    <3>2. \A k \in DOMAIN mail' : k \in 1 .. Len(mail) \/ k = new BY <1>3, <1>4
    <3> QED BY <1>4, <1>5, <1>7, <2>0, <3>1, <3>2
  <2> QED BY <2>2, <2>3 DEF PrefetchInStep
<1> HIDE DEF new
<1>9. \A j \in DOMAIN mail' : j \in 1 .. Len(mail) \/ j = new BY <1>3, <1>4 DEF new
<1>10. CASE Follows
  <2>1. ToldOfStream'
    BY <1>3, <1>4, <1>5, <1>7, <1>9, <1>10 DEF Follows, ToldOfStream, Runs
  <2>2. Follows' BY <1>7, <1>10, <2>1 DEF Follows
  <2> QED BY <1>1, <1>6, <1>7, <1>8, <2>2, NothingSeen DEF InStepInv
<1>11. CASE \E k \in DOMAIN mail : Awaits(k)
  <2>1. PICK k \in DOMAIN mail : Awaits(k) BY <1>11
  <2>2. k \in DOMAIN mail' /\ k \in 1 .. Len(mail) /\ mail'[k] = mail[k] /\ k < new /\ k \in Nat
    BY <1>3, <1>4 DEF new
  <2>3. ASSUME NEW j \in DOMAIN mail', j < k
        PROVE  mail'[j].kind \in {"stopped", "progress", "finished"}
    <3>1. j \in 1 .. Len(mail) /\ mail'[j] = mail[j] BY <1>3, <1>4, <1>9, <2>2, <2>3 DEF new
    <3> QED BY <1>3, <2>1, <2>3, <3>1 DEF Awaits
  <2>4. ASSUME NEW j \in DOMAIN mail', j > k
        PROVE  mail'[j].token = player.token /\ Runs(mail'[j])
    <3>1. CASE j \in 1 .. Len(mail)
      BY <1>3, <1>4, <2>1, <2>4, <3>1 DEF Awaits
    <3> QED BY <1>5, <1>9, <3>1 DEF new
  <2>5. Awaits(k)' BY <1>7, <2>1, <2>2, <2>3, <2>4 DEF Awaits
  <2> QED BY <1>1, <1>6, <1>7, <1>8, <2>2, <2>5, NothingSeen DEF InStepInv
<1> QED BY <1>1, <1>10, <1>11 DEF InStepInv

\* The stream ends and stops, or the enqueued one starts.
LEMMA FinishInStep ==
  ASSUME TypeInv, InStepInv, Finish PROVE InStepInv'
<1> DEFINE done == <<"finished", player.token, Duration>>
           start == <<"started", player.upcoming, 0>>
           new == Len(mail) + 1
<1>1. /\ TypeOK /\ player.token \in Items /\ player \in Players /\ NoItem \notin Items
      /\ Duration \in Nat \ {0}
  BY PlaybackAssumption DEF TypeInv, PlaysSomething, TypeOK, Finish
<1>2. /\ UNCHANGED <<store, now>> /\ player.activity = "PLAYING" /\ player.announced
      /\ player.offset = Duration
      /\ IF player.upcoming = NoItem
         THEN player' = [player EXCEPT !.activity = "FINISHED"] /\ Sends(mail, <<done>>)
         ELSE player' = Streaming(player.upcoming, 0) /\ Sends(mail, <<done, start>>)
  BY DEF Finish
<1>3. done \in Calls BY <1>1 DEF Calls, Kinds
<1>4. /\ mail \in Seq(Events) /\ Len(mail) \in Nat /\ DOMAIN mail = 1 .. Len(mail)
      /\ new \in Nat /\ mail = <<>> <=> Len(mail) = 0
  BY <1>1, MailTail
<1>5. CASE player.upcoming = NoItem
  <2>1. Sends(mail, <<done>>) /\ player' = [player EXCEPT !.activity = "FINISHED"]
    BY <1>2, <1>5
  <2>2. /\ player'.token = player.token /\ player'.activity = "FINISHED"
        /\ player'.announced = player.announced /\ player'.upcoming = NoItem
    BY <1>1, <1>5, <2>1 DEF Players
  <2> HIDE DEF done
  <2>3. /\ Len(mail') = Len(mail) + 1 /\ DOMAIN mail' = 1 .. Len(mail) + 1
        /\ \A k \in 1 .. Len(mail) : mail'[k] = mail[k]
        /\ Letter(mail'[new], 1, done)
    BY <1>1, <1>3, <1>4, <2>1, SentOne
  <2>4. mail'[new].kind = "finished" /\ mail'[new].token = player.token
    BY <2>3 DEF Letter, done
  <2>5. MailInOrder'
    <3>1. <<done>> \in Seq(Calls) BY <1>3
    <3> QED BY <1>1, <1>2, <1>4, <2>1, <3>1, NothingSeen, OrderKept
  <2> HIDE DEF new
  <2>6. \A j \in DOMAIN mail' :
          /\ j \in Nat
          /\ \/ j = new
             \/ j \in DOMAIN mail /\ j < new /\ j # Len(mail') /\ mail'[j] = mail[j]
    BY <1>4, <2>3 DEF new
  <2>7. PrefetchInStep'
    BY <2>2, <2>4, <2>6 DEF InStepInv, PrefetchInStep
  <2>8. new = Len(mail') /\ new \in DOMAIN mail' /\ mail' # <<>> BY <1>4, <2>3 DEF new
  <2>9. CASE Follows
    <3>1. ToldOfStream'
      BY <1>2, <2>2, <2>4, <2>6, <2>8, <2>9 DEF Follows, ToldOfStream, Runs
    <3>2. Follows' BY <1>2, <2>2, <2>8, <2>9, <3>1 DEF Follows
    <3> QED BY <1>1, <1>2, <2>2, <2>5, <2>7, <3>2, NothingSeen DEF InStepInv
  <2>10. CASE \E k \in DOMAIN mail : Awaits(k)
    <3>1. PICK k \in DOMAIN mail : Awaits(k) BY <2>10
    <3>2. k \in DOMAIN mail' /\ mail'[k] = mail[k] /\ k < new /\ k \in Nat
      BY <1>4, <2>3 DEF new
    <3>3. ASSUME NEW j \in DOMAIN mail', j < k
          PROVE  mail'[j].kind \in {"stopped", "progress", "finished"}
      <4>1. j \in DOMAIN mail /\ mail'[j] = mail[j] BY <1>4, <2>6, <3>2, <3>3 DEF new
      <4> QED BY <3>1, <3>3, <4>1 DEF Awaits
    <3>4. ASSUME NEW j \in DOMAIN mail', j > k
          PROVE  /\ mail'[j].token = player.token
                 /\ IF j = Len(mail') THEN mail'[j].kind = "finished" ELSE Runs(mail'[j])
      <4>1. CASE j = new BY <2>4, <2>8, <4>1
      <4>2. CASE j # new
        <5>1. j \in DOMAIN mail /\ mail'[j] = mail[j] /\ j # Len(mail') BY <2>6, <4>2
        <5> QED BY <1>2, <3>1, <3>4, <5>1 DEF Awaits
      <4> QED BY <4>1, <4>2
    <3>5. Awaits(k)' BY <1>2, <2>2, <2>8, <3>1, <3>2, <3>3, <3>4 DEF Awaits, Runs
    <3> QED BY <1>1, <1>2, <2>2, <2>5, <2>7, <3>2, <3>5, NothingSeen DEF InStepInv
  <2> QED BY <1>1, <2>9, <2>10 DEF InStepInv
<1>6. CASE player.upcoming # NoItem
  <2>1. player' = Streaming(player.upcoming, 0) /\ Sends(mail, <<done, start>>)
        /\ player.upcoming \in Items
    BY <1>1, <1>2, <1>6 DEF Players
  <2>2. start \in Calls BY <1>1, <2>1 DEF Calls, Kinds
  <2>3. /\ player'.token = player.upcoming /\ player'.activity = "PLAYING"
        /\ player'.upcoming = NoItem /\ player'.offset = 0 /\ 0 # Duration
    BY <1>1, <2>1 DEF Streaming
  <2> HIDE DEF done, start
  <2>4. /\ Len(mail') = Len(mail) + 2 /\ DOMAIN mail' = 1 .. Len(mail) + 2
        /\ \A k \in 1 .. Len(mail) : mail'[k] = mail[k]
        /\ Letter(mail'[Len(mail) + 1], 1, done) /\ Letter(mail'[Len(mail) + 2], 2, start)
    BY <1>1, <1>3, <1>4, <2>1, <2>2, SentTwo
  <2>5. /\ mail'[new].kind = "finished" /\ mail'[new].token = player.token
        /\ mail'[new + 1].kind = "started" /\ mail'[new + 1].token = player.upcoming
        /\ mail'[new + 1].time = now
    <3>1. new + 1 = Len(mail) + 2 BY <1>4
    <3> QED BY <2>4, <3>1 DEF Letter, done, start
  <2>6. MailInOrder'
    <3>1. <<done, start>> \in Seq(Calls) BY <1>3, <2>2
    <3> QED BY <1>1, <1>2, <1>4, <2>1, <3>1, NothingSeen, OrderKept
  <2>7. /\ store.prepared = player.upcoming
        /\ \A k \in DOMAIN mail : mail[k].kind \notin {"started", "nearly_finished"}
    BY <1>6 DEF InStepInv, PrefetchInStep
  <2>8. Follows BY <1>1, <2>7 DEF InStepInv, Awaits
  <2>9. \A j \in DOMAIN mail : mail[j].kind = "progress"
    BY <1>2, <2>7, <2>8 DEF Follows, ToldOfStream, Runs
  <2>10. \A j \in DOMAIN mail' :
           /\ j <= new + 1
           /\ j # new + 1 => mail'[j].kind \in {"progress", "finished"}
    <3>1. ASSUME NEW j \in DOMAIN mail'
          PROVE  /\ j <= new + 1
                 /\ \/ j = new + 1 \/ j = new
                    \/ j \in DOMAIN mail /\ mail'[j] = mail[j]
      BY <1>4, <2>4
    <3> HIDE DEF new
    <3> QED BY <2>5, <2>9, <3>1
  <2>11. PrefetchInStep' BY <2>3, <2>5, <2>10 DEF PrefetchInStep
  <2>12. store.active.lastKind = "started" => store.active.eventTime < now
    BY <1>2, <2>8 DEF Follows
  <2>13. new + 1 \in DOMAIN mail' /\ \A j \in DOMAIN mail' : ~(j > new + 1)
    BY <1>4, <2>4
  <2>14. \A j \in DOMAIN mail' :
           j < new + 1 => mail'[j].kind \in {"stopped", "progress", "finished"}
    <3>1. \A j \in DOMAIN mail' : j < new + 1 => j # new + 1 BY <1>4, <2>4
    <3> QED BY <2>10, <3>1
  <2> HIDE DEF new
  <2>15. PICK n \in DOMAIN mail' : n = new + 1 BY <2>13
  <2>16. Awaits(n)'
    BY <1>2, <2>3, <2>5, <2>7, <2>12, <2>13, <2>14, <2>15 DEF Awaits
  <2> QED BY <1>1, <1>2, <2>1, <2>3, <2>6, <2>11, <2>16, NothingSeen DEF InStepInv
<1> QED BY <1>5, <1>6

LEMMA TwoCallsInOne ==
  ASSUME NEW c \in Calls, NEW d \in Calls
  PROVE  <<c>> \o <<d>> = <<c, d>>
<1>1. <<c>> \o <<d>> \in Seq(Calls) /\ <<c, d>> \in Seq(Calls) BY TwoCalls
<1>2. Len(<<c>> \o <<d>>) = Len(<<c, d>>) OBVIOUS
<1>3. \A k \in 1 .. Len(<<c, d>>) : (<<c>> \o <<d>>)[k] = <<c, d>>[k] OBVIOUS
<1> QED BY <1>1, <1>2, <1>3, SeqEqual

\* A command that plays an item replaces the device's stream; the session awaits
\* the start of the new one.
LEMMA PlayInStep ==
  ASSUME TypeInv, mail = <<>>, now' = now, now > stamp, Answered,
         NEW i \in Items, NEW offset \in 0 .. Duration, offset < Duration,
         PlayDirective(i, offset), store' \in Documents,
         store'.active.item = i, store'.active.status = "starting",
         store'.active.eventTime <= now,
         store'.active.lastKind = "started" => store'.active.eventTime < now
  PROVE  InStepInv'
<1> DEFINE stop == <<"stopped", player.token, player.offset>>
           start == <<"started", i, offset>>
<1>1. /\ TypeOK /\ player \in Players /\ NoItem \notin Items /\ Duration \in Nat
      /\ now \in Nat
  BY PlaybackAssumption DEF TypeInv, PlaysSomething, TypeOK
<1>2. player' = Streaming(i, offset) /\ Sends(mail, StoppedEvents \o <<start>>)
  BY DEF PlayDirective
<1>3. /\ player'.token = i /\ player'.offset = offset /\ player'.activity = "PLAYING"
      /\ player'.upcoming = NoItem /\ offset # Duration
  BY <1>1, <1>2 DEF Streaming
<1>4. start \in Calls BY DEF Calls, Kinds
<1>5. /\ mail \in Seq(Events) /\ Len(mail) = 0 /\ DOMAIN mail = {}
      /\ store'.active.lastId \in 0 .. sent /\ store'.active.eventTime \in Nat
  BY <1>1, MailTail DEF Documents, Sessions
<1>6. RestInOrder(mail) BY <1>5 DEF RestInOrder
<1>7. CASE player.activity # "PLAYING"
  <2>1. Sends(mail, <<start>>)
    <3>1. StoppedEvents \o <<start>> = <<start>>
      <4> HIDE DEF start
      <4> QED BY <1>7 DEF StoppedEvents
    <3> QED BY <1>2, <3>1
  <2> HIDE DEF start
  <2>2. Len(mail') = 1 /\ DOMAIN mail' = 1 .. 1 /\ Letter(mail'[1], 1, start)
    <3>1. /\ Len(mail') = 0 + 1 /\ DOMAIN mail' = 1 .. 0 + 1
          /\ Letter(mail'[0 + 1], 1, start)
      BY <1>1, <1>4, <1>5, <2>1, SentOne
    <3>2. 0 + 1 = 1 OBVIOUS
    <3> QED BY <3>1, <3>2
  <2>3. mail'[1].kind = "started" /\ mail'[1].token = i /\ mail'[1].time = now
    BY <2>2 DEF Letter, start
  <2>4. MailInOrder'
    <3>1. <<start>> \in Seq(Calls) /\ <<start>> # <<>> BY <1>4
    <3> QED BY <1>1, <1>5, <1>6, <2>1, <3>1, OrderKept
  <2>5. DOMAIN mail' = {1} BY <2>2
  <2>6. PrefetchInStep' /\ PlayingWasSeen'
    BY <1>3, <2>3, <2>5 DEF PrefetchInStep, PlayingWasSeen
  <2>7. Awaits(1)' BY <1>3, <2>3, <2>5 DEF Awaits
  <2> QED BY <1>1, <1>3, <2>4, <2>5, <2>6, <2>7 DEF InStepInv
<1>8. CASE player.activity = "PLAYING"
  <2>1. stop \in Calls BY <1>1, <1>8 DEF TypeInv, PlaysSomething, Players, Calls, Kinds
  <2>2. Sends(mail, <<stop, start>>)
    <3>1. StoppedEvents = <<stop>> BY <1>8 DEF StoppedEvents
    <3> HIDE DEF start, stop
    <3> QED BY <1>2, <1>4, <2>1, <3>1, TwoCallsInOne
  <2> HIDE DEF start, stop
  <2>3. /\ Len(mail') = 2 /\ DOMAIN mail' = 1 .. 2
        /\ Letter(mail'[1], 1, stop) /\ Letter(mail'[2], 2, start)
    <3>1. /\ Len(mail') = 0 + 2 /\ DOMAIN mail' = 1 .. 0 + 2
          /\ Letter(mail'[0 + 1], 1, stop) /\ Letter(mail'[0 + 2], 2, start)
      BY <1>1, <1>4, <1>5, <2>1, <2>2, SentTwo
    <3>2. 0 + 1 = 1 /\ 0 + 2 = 2 OBVIOUS
    <3> QED BY <3>1, <3>2
  <2>4. /\ mail'[1].kind = "stopped"
        /\ mail'[2].kind = "started" /\ mail'[2].token = i /\ mail'[2].time = now
    BY <2>3 DEF Letter, start, stop
  <2>5. MailInOrder'
    <3>1. <<stop, start>> \in Seq(Calls) /\ <<stop, start>> # <<>> BY <1>4, <2>1
    <3> QED BY <1>1, <1>5, <1>6, <2>2, <3>1, OrderKept
  <2>6. DOMAIN mail' = {1, 2} BY <2>3
  <2>7. PrefetchInStep' /\ PlayingWasSeen'
    BY <1>3, <2>4, <2>6 DEF PrefetchInStep, PlayingWasSeen
  <2>8. Awaits(2)' BY <1>3, <2>4, <2>6 DEF Awaits
  <2> QED BY <1>1, <1>3, <2>5, <2>6, <2>7, <2>8 DEF InStepInv
<1> QED BY <1>7, <1>8

\* With no event on its way, the session is that of the device's stream.
LEMMA Quiet ==
  ASSUME TypeInv, InStepInv, mail = <<>>
  PROVE  /\ player.token = NoItem => ~HasSession
         /\ player.token # NoItem => Follows
         /\ store.active.item = player.token
         /\ store.active.eventTime \in Nat /\ store.active.eventTime <= stamp
         /\ store.active.lastId \in 0 .. sent
<1>1. DOMAIN mail = {} BY EmptySeq DEF TypeInv, TypeOK
<1> QED BY <1>1 DEF TypeInv, TypeOK, Documents, Sessions, InStepInv, MailInOrder, Awaits,
                    Follows, HasSession

LEMMA RestartInStep ==
  ASSUME TypeInv, InStepInv, mail = <<>>, now' = now, now > stamp, Answered, HasSession,
         NEW offset \in 0 .. Duration, offset < Duration, Restart(offset)
  PROVE  InStepInv'
<1>1. TypeOK /\ PlaysSomething BY DEF TypeInv
<1>2. Stayed /\ Completed BY <1>1, RestartStep
<1>3. /\ store' \in Documents /\ store \in Documents /\ now \in Nat /\ stamp \in Nat
  BY <1>1, <1>2 DEF Completed, TypeOK
<1>4. store.active.item \in Items BY <1>3 DEF HasSession, Documents, Sessions
<1>5. /\ store'.active.item = store.active.item /\ store'.active.status = "starting"
      /\ store'.active.eventTime = store.active.eventTime
    <2>1. store' = [store EXCEPT !.prepared = NoItem, !.active.status = "starting",
                                 !.active.offset = offset]
      BY DEF Restart
    <2> QED BY <1>3, <2>1 DEF Documents, Sessions
<1>6. PlayDirective(store.active.item, offset) BY DEF Restart
<1>7. store.active.eventTime < now /\ store.active.eventTime <= now BY <1>3, Quiet
<1> QED BY <1>3, <1>4, <1>5, <1>6, <1>7, PlayInStep

\* The document changes only in its queue.
LEMMA QueueGrowsInStep ==
  ASSUME TypeInv, InStepInv, mail = <<>>, now' = now, NoDirective(mail),
         store'.active = store.active, store'.prepared = store.prepared
  PROVE  InStepInv'
<1>1. TypeOK /\ mail \in Seq(Events) /\ Len(mail) = 0 /\ DOMAIN mail = {}
  BY MailTail DEF TypeInv
<1>2. /\ player' = player /\ stamp' = stamp /\ Len(mail') = 0 /\ DOMAIN mail' = {}
  BY <1>1, SentNone
<1>3. mail' = <<>>
  <2>1. TypeOK /\ PlaysSomething /\ Rest(mail) BY <1>1, MailRests DEF TypeInv
  <2>2. mail' \in Seq(Events')
    BY <2>1, NoDirectiveStep DEF DeviceTyped, MailTyped
  <2> QED BY <1>2, <2>2, EmptySeq
<1>4. MailInOrder' /\ PrefetchInStep' /\ PlayingWasSeen'
  BY <1>1, <1>2 DEF InStepInv, MailInOrder, PrefetchInStep, PlayingWasSeen
<1>5. Follows => Follows'
  BY <1>1, <1>2, <1>3 DEF Follows, ToldOfStream
<1> QED BY <1>2, <1>3, <1>4, <1>5, Quiet DEF InStepInv, HasSession

LEMMA PlayDeltaInStep ==
  ASSUME TypeInv, InStepInv, mail = <<>>, now' = now, now > stamp, disorder' = disorder,
         HasSession, NEW delta, PlayDelta(delta)
  PROVE  InStepInv'
<1> DEFINE Target(s) == IF delta > 0 THEN NextUnfinished(s, s.queue.index + delta)
                        ELSE s.queue.index + delta
           Has(s) == Target(s) \in DOMAIN s.queue.ids
           with == IF Has(store) \/ delta < 0 THEN store ELSE WithNextPage(store)
           k == Target(with)
           i == with.queue.ids[k]
<1>1. \/ /\ Has(with)
         /\ store' = [with EXCEPT !.queue.index = k, !.active = Started(i, 0, now)]
         /\ PlayDirective(i, 0)
      \/ store' = with /\ NoDirective(mail)
  <2>1. "backend" \notin disorder' \ disorder OBVIOUS
  <2> QED BY <2>1 DEF PlayDelta
<1>2. TypeOK /\ store \in Documents BY DEF TypeInv, TypeOK
<1>3. with \in Documents /\ with.active = store.active /\ with.prepared = store.prepared
  <2> HIDE DEF Has
  <2>1. CASE Has(store) \/ delta < 0 BY <1>2, <2>1
  <2>2. CASE ~(Has(store) \/ delta < 0) BY <1>2, <2>2, NextPageAppends
  <2> QED BY <2>1, <2>2
<1>4. with.queue.ids \in Seq(Items) /\ with.queue \in Queues
  BY <1>3 DEF Documents, Queues
<1>5. Has(with) => k \in DOMAIN with.queue.ids OBVIOUS
<1>6. DOMAIN with.queue.ids \subseteq Nat BY <1>4, LenProperties
<1> HIDE DEF with, Has, k
<1>7. CASE store' = with /\ NoDirective(mail) BY <1>3, <1>7, QueueGrowsInStep
<1>8. CASE /\ Has(with)
           /\ store' = [with EXCEPT !.queue.index = k, !.active = Started(i, 0, now)]
           /\ PlayDirective(i, 0)
  <2>1. k \in DOMAIN with.queue.ids /\ k \in Nat /\ i \in Items
    BY <1>4, <1>5, <1>6, <1>8, LenProperties
  <2> HIDE DEF i
  <2>2. /\ 0 \in 0 .. Duration /\ 0 < Duration /\ now \in 0 .. now /\ now \in Nat
    BY <1>2, PlaybackAssumption DEF TypeOK
  <2> DEFINE s == Started(i, 0, now)
  <2>3. /\ s \in Sessions /\ s.item = i /\ s.status = "starting" /\ s.eventTime = now
    BY <1>2, <2>1, <2>2, StartedTyped
  <2>4. s.lastKind = "none" BY DEF Started, NoSession
  <2> HIDE DEF s
  <2>5. store' = [with EXCEPT !.queue.index = k, !.active = s] BY <1>8 DEF s
  <2>6. store' \in Documents /\ store'.active = s
    BY <1>3, <1>4, <2>1, <2>3, <2>5 DEF Documents, Queues
  <2>7. Answered BY DEF Answered
  <2> QED BY <1>8, <2>1, <2>2, <2>3, <2>4, <2>6, <2>7, PlayInStep
<1> QED BY <1>1, <1>7, <1>8

\* A search starts with the first item of its first page.
LEMMA SearchInStep ==
  ASSUME TypeInv, InStepInv, mail = <<>>, now' = now, now > stamp, disorder' = disorder, Play
  PROVE  InStepInv'
<1> DEFINE first == Pages[1][1]
           s == Started(first, 0, now)
           q == [ids |-> Pages[1], index |-> 1, page |-> 1]
<1>1. TypeOK /\ PlaysSomething BY DEF TypeInv
<1>2. store' \in Documents /\ Searched BY <1>1, PlayStep DEF Completed
<1>3. store' = [store EXCEPT !.queue = q, !.active = s] /\ PlayDirective(first, 0)
  BY DEF Play
<1>4. first \in Items
  <2>1. Pages \in Seq(Seq(Items)) /\ Pages # <<>> /\ Pages[1] # <<>>
    BY PlaybackAssumption
  <2>2. Pages[1] \in Seq(Items) BY <2>1, EmptySeq, LenProperties, ElementOfSeq
  <2>3. 1 \in DOMAIN Pages[1] BY <2>1, <2>2, EmptySeq, LenProperties
  <2> QED BY <2>2, <2>3, ElementOfSeq, LenProperties
<1> HIDE DEF first, q
<1>5. /\ 0 \in 0 .. Duration /\ 0 < Duration /\ now \in 0 .. now /\ now \in Nat
  BY <1>1, PlaybackAssumption DEF TypeOK
<1>6. /\ s.item = first /\ s.status = "starting" /\ s.eventTime = now
  BY <1>1, <1>4, <1>5, StartedTyped
<1>7. s.lastKind = "none" BY DEF Started, NoSession
<1> HIDE DEF s
<1>8. store'.active = s BY <1>1, <1>3 DEF TypeOK, Documents
<1>9. Answered BY DEF Answered
<1> QED BY <1>2, <1>3, <1>4, <1>5, <1>6, <1>7, <1>8, <1>9, PlayInStep

\* "Pause" writes what the device is about to report.
LEMMA PauseInStep ==
  ASSUME TypeInv, InStepInv, mail = <<>>, now' = now, disorder' = disorder, Pause
  PROVE  InStepInv'
<1>1. /\ TypeOK /\ PlaysSomething /\ store \in Documents /\ player \in Players
      /\ store.active \in Sessions /\ NoItem \notin Items
  BY PlaybackAssumption DEF TypeInv, TypeOK, Documents
<1>2. mail \in Seq(Events) /\ Len(mail) = 0 /\ DOMAIN mail = {}
  BY <1>1, MailTail
<1>3. Answered BY DEF Answered
<1>4. CASE player.activity # "PLAYING"
  <2>1. NoDirective(mail) BY <1>4 DEF Pause, StopDirective
  <2>2. store'.active = store.active /\ store'.prepared = store.prepared
    <3>1. CASE ~HasSession \/ store.active.status = "completed"
      BY <3>1 DEF Pause
    <3>2. CASE HasSession /\ store.active.status # "completed"
      <4>1. store' = [store EXCEPT !.active.status = "paused"] BY <1>4, <3>2 DEF Pause
      <4>2. Follows BY <3>2, Quiet
      <4>3. player.activity = "STOPPED"
        BY <1>1, <1>4, <3>2, <4>2 DEF Follows, Players
      <4>4. store.active.status = "paused" BY <4>2, <4>3 DEF Follows
      <4> QED BY <1>1, <4>1, <4>4 DEF Documents, Sessions
    <3> QED BY <3>1, <3>2
  <2> QED BY <2>1, <2>2, QueueGrowsInStep
<1>5. CASE player.activity = "PLAYING"
  <2> DEFINE stop == <<"stopped", player.token, player.offset>>
             o == ObservedAt(store.active, "paused", "paused", player.offset, now)
  <2>1. player.token \in Items /\ player.token # NoItem /\ player.offset \in 0 .. Duration
    BY <1>1, <1>5 DEF PlaysSomething, Players
  <2>2. Follows /\ store.active.item = player.token BY <2>1, Quiet
  <2>3. store' = [store EXCEPT !.active = o]
    BY <1>5, <2>1, <2>2 DEF Pause, Follows, HasSession
  <2>4. /\ o.item = store.active.item /\ o.status = "paused" /\ o.offset = player.offset
        /\ o.eventTime = store.active.eventTime /\ o.lastId = store.active.lastId
        /\ o.lastKind = store.active.lastKind
    <3>1. now \in 0 .. now /\ "paused" \in Statuses BY <1>1 DEF TypeOK, Statuses
    <3>2. /\ o.item = store.active.item /\ o.status = "paused" /\ o.offset = player.offset
          /\ o.eventTime = store.active.eventTime
      BY <1>1, <2>1, <3>1, ObservedAtTyped
    <3>3. o.lastId = store.active.lastId /\ o.lastKind = store.active.lastKind
      BY <1>1 DEF ObservedAt, Sessions
    <3> QED BY <3>2, <3>3
  <2> HIDE DEF o
  <2>5. store'.active = o /\ store'.prepared = store.prepared BY <1>1, <2>3 DEF Documents
  <2>6. /\ player' = [player EXCEPT !.activity = "STOPPED"] /\ Sends(mail, <<stop>>)
    BY <1>3, <1>5 DEF Pause, StopDirective, StoppedEvents
  <2>7. /\ player'.token = player.token /\ player'.offset = player.offset
        /\ player'.activity = "STOPPED" /\ player'.upcoming = player.upcoming
        /\ player'.announced = player.announced
    BY <1>1, <2>6 DEF Players
  <2>8. stop \in Calls BY <2>1 DEF Calls, Kinds
  <2> HIDE DEF stop
  <2>9. Len(mail') = 1 /\ DOMAIN mail' = 1 .. 1 /\ Letter(mail'[1], 1, stop)
    <3>1. /\ Len(mail') = 0 + 1 /\ DOMAIN mail' = 1 .. 0 + 1
          /\ Letter(mail'[0 + 1], 1, stop)
      BY <1>1, <1>2, <2>6, <2>8, SentOne
    <3>2. 0 + 1 = 1 OBVIOUS
    <3> QED BY <3>1, <3>2
  <2>10. /\ DOMAIN mail' = {1} /\ mail'[1].kind = "stopped" /\ mail'[1].token = player.token
         /\ mail'[1].offset = player.offset
    BY <2>9 DEF Letter, stop
  <2>11. MailInOrder'
    <3>1. <<stop>> \in Seq(Calls) BY <2>8
    <3>2. RestInOrder(mail) BY <1>2 DEF RestInOrder
    <3> QED BY <1>1, <1>2, <2>4, <2>5, <2>6, <3>1, <3>2, Quiet, OrderKept
  <2>12. PrefetchInStep'
    BY <2>5, <2>7, <2>10 DEF InStepInv, PrefetchInStep
  <2>13. PlayingWasSeen' BY <2>4, <2>5 DEF PlayingWasSeen
  <2>14. ToldOfStream' BY <2>7, <2>9, <2>10 DEF ToldOfStream
  <2>15. Follows' BY <2>2, <2>4, <2>5, <2>7, <2>14 DEF Follows
  <2> QED BY <2>1, <2>7, <2>11, <2>12, <2>13, <2>15 DEF InStepInv
<1> QED BY <1>4, <1>5

\* A command that comes when every event is handled, and that nothing hinders.
LEMMA SpeaksInOrder ==
  ASSUME disorder' = {}, NEW faults, Speaks(faults)
  PROVE  mail = <<>> /\ disorder' = disorder /\ now' = now /\ now > stamp
BY DEF Speaks, Overtakes

LEMMA CommandInStep ==
  ASSUME TypeInv, InStepInv, disorder' = {}, Listener
  PROVE  InStepInv'
<1>1. mail = <<>> /\ disorder' = disorder /\ now' = now /\ now > stamp
  <2>1. \E faults : Speaks(faults)
    BY DEF Listener, Play, Pause, Resume, Repeat, ChangeSpeed, Seek, Skip, Previous, Gives
  <2> QED BY <2>1, SpeaksInOrder
<1>2. Answered BY <1>1 DEF Answered
<1>3. /\ store.active.offset \in 0 .. Duration /\ 0 \in 0 .. Duration
      /\ Duration \in Nat \ {0} /\ player.offset \in 0 .. Duration
  BY PlaybackAssumption DEF TypeInv, TypeOK, Documents, Sessions, Players
<1>4. ~IsFinished(store.active) => store.active.offset < Duration
  BY <1>3 DEF IsFinished
<1>5. CASE Play BY <1>1, <1>5, SearchInStep
<1>6. CASE Pause BY <1>1, <1>6, PauseInStep
<1>7. CASE Resume
  BY <1>1, <1>2, <1>3, <1>4, <1>7, PlayDeltaInStep, RestartInStep DEF Resume
<1>8. CASE Repeat BY <1>1, <1>2, <1>3, <1>8, RestartInStep DEF Repeat
<1>9. CASE ChangeSpeed
  BY <1>1, <1>2, <1>3, <1>4, <1>9, RestartInStep DEF ChangeSpeed
<1>10. ASSUME NEW direction \in {1, -1}, Seek(direction) PROVE InStepInv'
  <2> DEFINE current == IF player.activity = "PLAYING" THEN player.offset
                        ELSE store.active.offset
  <2>1. /\ HasSession /\ current + direction \in SeekRange(direction)
        /\ Restart(current + direction)
    BY <1>10 DEF Seek
  <2>2. current \in 0 .. Duration BY <1>3
  <2> HIDE DEF current
  <2>3. current + direction \in 0 .. Duration /\ current + direction < Duration
    BY <1>3, <1>10, <2>1, <2>2 DEF SeekRange
  <2> QED BY <1>1, <1>2, <2>1, <2>3, RestartInStep
<1>11. CASE Skip BY <1>1, <1>11, PlayDeltaInStep DEF Skip
<1>12. CASE Previous BY <1>1, <1>12, PlayDeltaInStep DEF Previous
<1> QED BY <1>5, <1>6, <1>7, <1>8, <1>9, <1>10, <1>11, <1>12 DEF Listener

-----------------------------------------------------------------------------
(* Events that are handled in order *)

\* The session has observed an event.
Sees(e, status) ==
  /\ store'.active.item = e.token /\ store'.active.status = status
  /\ store'.active.eventTime = e.time /\ store'.active.lastId = e.id
  /\ store'.active.lastKind = e.kind

LEMMA ObservedMarks ==
  ASSUME TypeOK, NEW s \in Sessions, NEW e \in Events, NEW status \in Statuses,
         NEW offset \in 0 .. Duration
  PROVE  /\ Observed(s, e, status, offset).lastId = e.id
         /\ Observed(s, e, status, offset).lastKind = e.kind
<1> DEFINE o == ObservedAt(s, e.kind, status, offset, e.time)
<1>1. /\ e.time \in 0 .. now /\ e.id \in 0 .. sent /\ e.kind \in Kinds
  BY DEF Events, TypeOK
<1>2. o \in Sessions BY <1>1, ObservedAtTyped
<1>3. Observed(s, e, status, offset) =
        [o EXCEPT !.eventTime = e.time, !.lastId = e.id, !.lastKind = e.kind]
  BY DEF Observed
<1> HIDE DEF o
<1> QED BY <1>1, <1>2, <1>3 DEF Sessions

LEMMA StartedSees ==
  ASSUME TypeOK, NEW e \in Events, NEW rest, PlaybackStarted(e, rest)
  PROVE  Sees(e, "playing") /\ NoDirective(rest)
<1>0. /\ store.active \in Sessions /\ e.token \in Items /\ e.offset \in 0 .. Duration
      /\ "playing" \in Statuses /\ e.time \in 0 .. now /\ store \in Documents
  BY EventTyped
<1>1. NoDirective(rest) BY DEF PlaybackStarted
<1>2. CASE e.token = store.active.item
  <2> DEFINE o == Observed(store.active, e, "playing", e.offset)
  <2>1. /\ o.item = e.token /\ o.status = "playing" /\ o.eventTime = e.time
        /\ o.lastId = e.id /\ o.lastKind = e.kind
    BY <1>0, <1>2, ObservedTyped, ObservedMarks
  <2>2. store' = [store EXCEPT !.active = o] BY <1>2 DEF PlaybackStarted
  <2> HIDE DEF o
  <2>3. store'.active = o BY <1>0, <2>2 DEF Documents
  <2> QED BY <1>1, <2>1, <2>3 DEF Sees
<1>3. CASE e.token # store.active.item
  <2> DEFINE s == Started(e.token, e.offset, e.time)
             o == Observed(s, e, "playing", e.offset)
             q == AtContent(store.queue, e.token)
  <2>1. s \in Sessions /\ s.item = e.token BY <1>0, StartedTyped
  <2>2. store' = [store EXCEPT !.active = o, !.queue = q, !.prepared = NoItem]
    BY <1>3 DEF PlaybackStarted
  <2> HIDE DEF s
  <2>3. /\ o.item = e.token /\ o.status = "playing" /\ o.eventTime = e.time
        /\ o.lastId = e.id /\ o.lastKind = e.kind
    BY <1>0, <2>1, ObservedTyped, ObservedMarks
  <2> HIDE DEF o, q
  <2>4. store'.active = o BY <1>0, <2>2 DEF Documents
  <2> QED BY <1>1, <2>3, <2>4 DEF Sees
<1> QED BY <1>2, <1>3

\* A handler that writes one observation.
LEMMA ObservationSees ==
  ASSUME TypeOK, NEW e \in Events, NEW status \in Statuses, NEW offset \in 0 .. Duration,
         e.token = store.active.item,
         store' = [store EXCEPT !.active = Observed(store.active, e, status, offset)]
  PROVE  Sees(e, status) /\ store'.active.offset = offset /\ store'.prepared = store.prepared
<1> DEFINE o == Observed(store.active, e, status, offset)
<1>0. store.active \in Sessions /\ store \in Documents BY EventTyped
<1>1. /\ o.item = e.token /\ o.status = status /\ o.eventTime = e.time
      /\ o.lastId = e.id /\ o.lastKind = e.kind /\ o.offset = offset
  BY <1>0, ObservedTyped, ObservedMarks
<1>2. store' = [store EXCEPT !.active = o] OBVIOUS
<1> HIDE DEF o
<1>3. store'.active = o /\ store'.prepared = store.prepared BY <1>0, <1>2 DEF Documents
<1> QED BY <1>1, <1>3 DEF Sees

LEMMA StoppedSees ==
  ASSUME TypeOK, NEW e \in Events, NEW rest, PlaybackStopped(e, rest)
  PROVE  /\ Sees(e, "paused") /\ store'.active.offset = e.offset
         /\ store'.prepared = store.prepared /\ NoDirective(rest)
<1>1. e.offset \in 0 .. Duration /\ "paused" \in Statuses BY EventTyped DEF Statuses
<1>2. /\ store' = [store EXCEPT !.active = Observed(store.active, e, "paused", e.offset)]
      /\ e.token = store.active.item /\ NoDirective(rest)
  BY DEF PlaybackStopped
<1> QED BY <1>1, <1>2, ObservationSees

LEMMA ProgressSees ==
  ASSUME TypeOK, NEW e \in Events, NEW rest, PlaybackProgress(e, rest)
  PROVE  Sees(e, "playing") /\ store'.prepared = store.prepared /\ NoDirective(rest)
<1>1. e.offset \in 0 .. Duration /\ "playing" \in Statuses BY EventTyped
<1>2. /\ store' = [store EXCEPT !.active = Observed(store.active, e, "playing", e.offset)]
      /\ e.token = store.active.item /\ NoDirective(rest)
  BY DEF PlaybackProgress
<1> QED BY <1>1, <1>2, ObservationSees

LEMMA FinishedSees ==
  ASSUME TypeOK, NEW e \in Events, NEW rest, PlaybackFinished(e, rest)
  PROVE  Sees(e, "completed") /\ store'.prepared = store.prepared /\ NoDirective(rest)
<1> DEFINE o == Observed(store.active, e, "completed", e.offset)
           c == PlayedOut(o)
           q == AtContent(store.queue, e.token)
<1>0. /\ store.active \in Sessions /\ store \in Documents /\ e.offset \in 0 .. Duration
      /\ "completed" \in Statuses /\ e.token = store.active.item /\ NoDirective(rest)
  BY EventTyped DEF Statuses, PlaybackFinished
<1>1. /\ o \in Sessions /\ o.item = e.token /\ o.status = "completed" /\ o.eventTime = e.time
      /\ o.lastId = e.id /\ o.lastKind = e.kind
  BY <1>0, ObservedTyped, ObservedMarks
<1>2. store' = [store EXCEPT !.active = c, !.queue = q, !.completed = @ \union {e.token}]
  BY DEF PlaybackFinished
<1> HIDE DEF o, q
<1>3. /\ c.item = e.token /\ c.status = "completed" /\ c.eventTime = e.time
      /\ c.lastId = e.id /\ c.lastKind = e.kind
  BY <1>1 DEF Sessions, PlayedOut
<1> HIDE DEF c
<1>4. store'.active = c /\ store'.prepared = store.prepared BY <1>0, <1>2 DEF Documents
<1> QED BY <1>0, <1>3, <1>4 DEF Sees

LEMMA NearlyFinishedSees ==
  ASSUME TypeOK, NEW e \in Events, NEW rest, PlaybackNearlyFinished(e, rest, TRUE, TRUE)
  PROVE  /\ Sees(e, "playing")
         /\ \/ store'.prepared = store.prepared /\ NoDirective(rest)
            \/ \E i \in Items : store'.prepared = i /\ EnqueueDirective(i, e.token, rest)
<1> DEFINE offset == IF e.offset = 0 THEN store.active.offset ELSE e.offset
           o == Observed(store.active, e, "playing", offset)
           seen == [store EXCEPT !.active = o]
           atEnd == NextUnfinished(seen, seen.queue.index + 1) \notin DOMAIN seen.queue.ids
           with == IF atEnd THEN WithNextPage(seen) ELSE seen
           next == NextUnfinished(with, with.queue.index + 1)
           found == next \in DOMAIN with.queue.ids
<1>0. /\ store.active \in Sessions /\ store.queue \in Queues /\ e.token \in Items
      /\ "playing" \in Statuses /\ offset \in 0 .. Duration
      /\ store \in Documents /\ store.active.item = e.token
  BY EventTyped DEF Sessions, PlaybackNearlyFinished
<1>1. /\ o \in Sessions /\ o.item = e.token /\ o.status = "playing" /\ o.eventTime = e.time
      /\ o.lastId = e.id /\ o.lastKind = e.kind
  BY <1>0, ObservedTyped, ObservedMarks
<1>2. IF found /\ with.queue.ids[next] # store.prepared
        THEN /\ store' = [with EXCEPT !.prepared = with.queue.ids[next]]
             /\ EnqueueDirective(with.queue.ids[next], e.token, rest)
        ELSE store' = with /\ NoDirective(rest)
  BY DEF PlaybackNearlyFinished
<1>3. seen \in Documents /\ seen.active = o /\ seen.prepared = store.prepared
  <2> HIDE DEF o
  <2> QED BY <1>0, <1>1 DEF Documents
<1> HIDE DEF o, seen
<1>4. with \in Documents /\ with.active = o /\ with.prepared = store.prepared
  <2>1. CASE atEnd BY <1>3, <2>1, NextPageAppends
  <2>2. CASE ~atEnd BY <1>3, <2>2
  <2> QED BY <2>1, <2>2
<1> HIDE DEF with
<1>5. with.queue.ids \in Seq(Items) BY <1>4 DEF Documents, Queues
<1>6. ASSUME found PROVE with.queue.ids[next] \in Items
  BY <1>5, <1>6, LenProperties
<1> HIDE DEF next
<1>7. CASE store' = with /\ NoDirective(rest) BY <1>1, <1>4, <1>7 DEF Sees
<1>8. CASE /\ found /\ store' = [with EXCEPT !.prepared = with.queue.ids[next]]
           /\ EnqueueDirective(with.queue.ids[next], e.token, rest)
  <2>1. store'.active = o /\ store'.prepared = with.queue.ids[next]
    BY <1>4, <1>8 DEF Documents
  <2> QED BY <1>1, <1>6, <1>8, <2>1 DEF Sees
<1> QED BY <1>2, <1>7, <1>8

\* What is left when the first event is taken is in order, and not seen yet.
LEMMA HeadSeen ==
  ASSUME TypeInv, MailIsPast, InStepInv, mail # <<>>,
         store' = store \/ \E status : Sees(Head(mail), status)
  PROVE  /\ RestInOrder(Tail(mail)) /\ store'.active.lastId \in 0 .. sent
         /\ store'.active.eventTime \in Nat /\ store'.active.eventTime <= stamp
<1> DEFINE e == Head(mail)
           rest == Tail(mail)
<1>1. /\ TypeOK /\ mail \in Seq(Events) /\ Len(mail) \in Nat /\ Len(mail) > 0
      /\ DOMAIN mail = 1 .. Len(mail) /\ e = mail[1] /\ rest \in Seq(Events)
      /\ Len(rest) = Len(mail) - 1
      /\ \A k \in 1 .. Len(mail) - 1 : rest[k] = mail[k + 1]
  BY MailTail DEF TypeInv
<1>2. mail[1] \in Events /\ 1 \in DOMAIN mail BY <1>1, ElementOfSeq
<1>3. DOMAIN rest = 1 .. Len(mail) - 1 BY <1>1, LenProperties
<1> HIDE DEF rest
<1>4. \A k \in DOMAIN rest : k + 1 \in DOMAIN mail /\ rest[k] = mail[k + 1] /\ 1 < k + 1
  BY <1>1, <1>3
<1>5. e.id \in 0 .. sent /\ e.time \in Nat /\ e.time <= stamp
  <2>1. e.id \in 1 .. sent /\ e.time \in 1 .. now /\ e.time <= stamp
    BY <1>1, <1>2 DEF Events, MailIsPast
  <2>2. sent \in Nat /\ now \in Nat BY <1>1 DEF TypeOK
  <2> HIDE DEF e
  <2> QED BY <2>1, <2>2
<1>6. MailInOrder BY DEF InStepInv
<1>7. /\ store.active.lastId \in 0 .. sent /\ store.active.eventTime \in Nat
      /\ store.active.eventTime <= stamp
  BY <1>1, <1>6 DEF TypeOK, Documents, Sessions, MailInOrder
<1>8. \A k \in DOMAIN rest :
        /\ store.active.lastId < rest[k].id /\ store.active.eventTime <= rest[k].time
        /\ e.id < rest[k].id /\ e.time <= rest[k].time
  BY <1>1, <1>2, <1>4, <1>6 DEF MailInOrder
<1>9. \A j, k \in DOMAIN rest :
        j < k => rest[j].id < rest[k].id /\ rest[j].time <= rest[k].time
  <2>1. \A j, k \in DOMAIN rest : j < k => j + 1 < k + 1 BY <1>1, <1>3
  <2> QED BY <1>4, <1>6, <2>1 DEF MailInOrder
<1> HIDE DEF e
<1>10. \/ store' = store
       \/ store'.active.lastId = e.id /\ store'.active.eventTime = e.time
  BY DEF Sees, e
<1>11. RestInOrder(rest) BY <1>8, <1>9, <1>10 DEF RestInOrder
<1> QED BY <1>5, <1>7, <1>10, <1>11 DEF rest

\* The first event is accepted unless it repeats what was seen at the same time.
LEMMA HeadAccepted ==
  ASSUME TypeInv, InStepInv, mail # <<>>,
         mail[1].time = store.active.eventTime => mail[1].kind # store.active.lastKind
  PROVE  AcceptsEvent(store.active, mail[1])
<1>1. /\ TypeOK /\ Len(mail) \in Nat /\ Len(mail) > 0 /\ DOMAIN mail = 1 .. Len(mail)
      /\ mail[1] \in Events
  BY MailTail DEF TypeInv
<1>2. /\ store.active.lastId < mail[1].id /\ store.active.eventTime <= mail[1].time
  BY <1>1 DEF InStepInv, MailInOrder
<1>3. /\ store.active.lastId \in Nat /\ store.active.eventTime \in Nat
      /\ mail[1].id \in Nat /\ mail[1].time \in Nat
  <2>1. store.active \in Sessions /\ sent \in Nat /\ now \in Nat
    BY <1>1 DEF TypeOK, Documents
  <2>2. store.active.lastId \in Nat /\ store.active.eventTime \in Nat
    BY <2>1 DEF Sessions
  <2>3. mail[1].id \in 1 .. sent /\ mail[1].time \in 1 .. now BY <1>1 DEF Events
  <2> QED BY <2>1, <2>2, <2>3
<1> QED BY <1>2, <1>3 DEF AcceptsEvent

\* The first event is taken, and nothing is sent.
LEMMA Taken ==
  ASSUME TypeInv, MailIsPast, InStepInv, mail # <<>>, now' = now, Sends(Tail(mail), <<>>),
         store' = store \/ \E status : Sees(Head(mail), status)
  PROVE  /\ MailInOrder' /\ Len(mail) \in Nat /\ Len(mail) > 0 /\ DOMAIN mail = 1 .. Len(mail)
         /\ Len(mail') = Len(mail) - 1 /\ DOMAIN mail' = 1 .. Len(mail) - 1
         /\ \A k \in DOMAIN mail' : k + 1 \in DOMAIN mail /\ mail'[k] = mail[k + 1]
         /\ mail' = <<>> <=> Len(mail) = 1
<1>1. /\ TypeOK /\ mail \in Seq(Events) /\ Len(mail) \in Nat /\ Len(mail) > 0
      /\ DOMAIN mail = 1 .. Len(mail) /\ Tail(mail) \in Seq(Events)
      /\ Len(Tail(mail)) = Len(mail) - 1
      /\ \A k \in 1 .. Len(mail) - 1 : Tail(mail)[k] = mail[k + 1]
  BY MailTail DEF TypeInv
<1>2. <<>> \in Seq(Calls) /\ Len(<<>>) = 0 OBVIOUS
<1>3. /\ Len(mail') = Len(Tail(mail)) + 0 /\ DOMAIN mail' = 1 .. Len(mail')
      /\ \A k \in 1 .. Len(Tail(mail)) : mail'[k] = Tail(mail)[k]
  BY <1>1, <1>2, SentMail
<1>4. /\ Len(mail') = Len(mail) - 1 /\ DOMAIN mail' = 1 .. Len(mail) - 1
      /\ \A k \in 1 .. Len(mail) - 1 : mail'[k] = mail[k + 1]
  BY <1>1, <1>3
<1>5. MailInOrder' BY <1>1, <1>2, HeadSeen, OrderKept
<1>6. mail' = <<>> <=> Len(mail) = 1
  <2>1. mail' \in Seq(Events')
    <3>1. Rest(Tail(mail)) BY <1>1, MailRests
    <3> QED BY <1>1, <1>2, <3>1, Sent DEF MailTyped, Calls
  <2>2. mail' = <<>> <=> Len(mail') = 0 BY <2>1, EmptySeq
  <2> QED BY <1>1, <1>4, <2>2
<1>7. \A k \in DOMAIN mail' : k + 1 \in DOMAIN mail /\ mail'[k] = mail[k + 1]
  BY <1>1, <1>4
<1> QED BY <1>1, <1>4, <1>5, <1>6, <1>7

\* What is on its way of the prefetch stays so.
LEMMA PrefetchTaken ==
  ASSUME PrefetchInStep, player' = player,
         player.upcoming = NoItem \/ store'.prepared = store.prepared,
         Len(mail) \in Nat, DOMAIN mail = 1 .. Len(mail),
         \A k \in DOMAIN mail' : k + 1 \in DOMAIN mail /\ mail'[k] = mail[k + 1],
         DOMAIN mail' = 1 .. Len(mail) - 1
  PROVE  PrefetchInStep'
<1>1. ASSUME NEW k \in DOMAIN mail', mail'[k].kind = "nearly_finished"
      PROVE  /\ player'.announced /\ player'.upcoming = NoItem
             /\ \A j \in DOMAIN mail' : mail'[j].kind = "nearly_finished" => j = k
  <2>1. k + 1 \in DOMAIN mail /\ mail[k + 1].kind = "nearly_finished" BY <1>1
  <2>2. \A j \in DOMAIN mail' : mail'[j].kind = "nearly_finished" => j + 1 = k + 1
    BY <2>1 DEF PrefetchInStep
  <2>3. \A j \in DOMAIN mail' : j + 1 = k + 1 => j = k OBVIOUS
  <2> QED BY <2>1, <2>2, <2>3 DEF PrefetchInStep
<1>2. ASSUME player'.upcoming # NoItem
      PROVE  /\ player'.announced /\ store'.prepared = player'.upcoming
             /\ \A k \in DOMAIN mail' : mail'[k].kind # "started"
  BY <1>2 DEF PrefetchInStep
<1> QED BY <1>1, <1>2 DEF PrefetchInStep

\* The events of the stream that are left tell the same of it.
LEMMA ToldTaken ==
  ASSUME ToldOfStream, player'.token = player.token, player'.activity = player.activity,
         Len(mail) \in Nat, DOMAIN mail = 1 .. Len(mail),
         \A k \in DOMAIN mail' : k + 1 \in DOMAIN mail /\ mail'[k] = mail[k + 1],
         DOMAIN mail' = 1 .. Len(mail) - 1, Len(mail') = Len(mail) - 1
  PROVE  ToldOfStream'
<1> SUFFICES ASSUME NEW k \in DOMAIN mail'
             PROVE  /\ mail'[k].token = player.token /\ mail'[k].kind # "started"
                    /\ player.activity = "PLAYING" => Runs(mail'[k])
                    /\ player.activity # "STOPPED"
                    /\ player.activity = "FINISHED" =>
                         IF k = Len(mail') THEN mail'[k].kind = "finished" ELSE Runs(mail'[k])
  BY DEF ToldOfStream, Runs
<1>1. k + 1 \in DOMAIN mail /\ mail'[k] = mail[k + 1] /\ k \in Nat /\ Len(mail) # 1
  OBVIOUS
<1>2. k = Len(mail') <=> k + 1 = Len(mail) BY <1>1
<1> QED BY <1>1, <1>2 DEF ToldOfStream

\* An event of the stream that the session follows is taken, and nothing is sent.
LEMMA FollowsTaken ==
  ASSUME TypeInv, MailIsPast, InStepInv, mail # <<>>, now' = now, NoDirective(Tail(mail)),
         store' = store \/ \E status : Sees(Head(mail), status),
         store'.prepared = store.prepared, player.token # NoItem, Follows,
         store'.active.item = player.token, PlayingWasSeen',
         player.activity = "PLAYING" =>
           /\ store'.active.status = "playing"
           /\ player.offset = Duration /\ store'.active.lastKind = "started"
                => store'.active.eventTime < now,
         player.activity = "STOPPED" =>
           store'.active.status = "paused" /\ store'.active.offset = player.offset,
         player.activity = "FINISHED" =>
           store'.active.status = IF Len(mail) = 1 THEN "completed" ELSE "playing"
  PROVE  InStepInv'
<1>1. player' = player /\ Sends(Tail(mail), <<>>) BY DEF NoDirective
<1>2. /\ MailInOrder' /\ Len(mail) \in Nat /\ Len(mail) > 0 /\ DOMAIN mail = 1 .. Len(mail)
      /\ Len(mail') = Len(mail) - 1 /\ DOMAIN mail' = 1 .. Len(mail) - 1
      /\ \A k \in DOMAIN mail' : k + 1 \in DOMAIN mail /\ mail'[k] = mail[k + 1]
      /\ mail' = <<>> <=> Len(mail) = 1
  BY <1>1, Taken
<1>3. PrefetchInStep' BY <1>1, <1>2, PrefetchTaken DEF InStepInv
<1>4. ToldOfStream' BY <1>1, <1>2, ToldTaken DEF Follows
<1>5. Follows' BY <1>1, <1>2, <1>4 DEF Follows
<1> QED BY <1>1, <1>2, <1>3, <1>5 DEF InStepInv

\* The session has handed the device a successor, which waits for the end of the
\* stream or, if the stream has ended, starts.
LEMMA EnqueueInStep ==
  ASSUME TypeInv, MailIsPast, InStepInv, mail # <<>>, now' = now, Answered,
         player.token # NoItem, Follows,
         mail[1].kind = "nearly_finished", Sees(Head(mail), "playing"), NEW i \in Items,
         store'.prepared = i, EnqueueDirective(i, mail[1].token, Tail(mail))
  PROVE  InStepInv'
<1> DEFINE start == <<"started", i, 0>>
<1>1. /\ TypeOK /\ player \in Players /\ NoItem \notin Items /\ Duration \in Nat \ {0}
      /\ Len(mail) \in Nat /\ Len(mail) > 0 /\ DOMAIN mail = 1 .. Len(mail)
      /\ 1 \in DOMAIN mail /\ Tail(mail) \in Seq(Events) /\ Head(mail) = mail[1]
      /\ Len(Tail(mail)) = Len(mail) - 1
      /\ \A k \in 1 .. Len(mail) - 1 : Tail(mail)[k] = mail[k + 1]
  <2>1. TypeOK BY DEF TypeInv
  <2>2. player \in Players /\ NoItem \notin Items /\ Duration \in Nat \ {0}
    BY <2>1, PlaybackAssumption DEF TypeOK
  <2>3. 1 \in DOMAIN mail BY <2>1, MailRests
  <2> QED BY <2>1, <2>2, <2>3, MailTail
<1>2. /\ player.announced /\ player.upcoming = NoItem
      /\ \A j \in DOMAIN mail : mail[j].kind = "nearly_finished" => j = 1
  BY <1>1 DEF InStepInv, PrefetchInStep
<1>3. /\ mail[1].token = player.token /\ store'.active.item = player.token
      /\ store'.active.status = "playing" /\ store'.active.lastKind = "nearly_finished"
  BY <1>1 DEF Follows, ToldOfStream, Sees
<1>4. PlayingWasSeen' BY <1>3 DEF PlayingWasSeen
<1>5. \A k \in DOMAIN mail : k # 1 => mail[k].kind \notin {"started", "nearly_finished"}
  BY <1>2 DEF Follows, ToldOfStream
<1>6. CASE player.activity = "FINISHED"
  <2>1. player' = Streaming(i, 0) /\ Sends(Tail(mail), <<start>>)
    BY <1>2, <1>3, <1>6 DEF EnqueueDirective
  <2>2. /\ player'.token = i /\ player'.offset = 0 /\ player'.activity = "PLAYING"
        /\ player'.upcoming = NoItem /\ 0 # Duration
    BY <1>1, <2>1 DEF Streaming
  <2>3. start \in Calls BY <1>1 DEF Calls, Kinds
  <2> HIDE DEF start
  <2> DEFINE rest == Tail(mail)
  <2>4. /\ Len(rest) \in Nat /\ DOMAIN mail' = 1 .. Len(rest) + 1
        /\ \A k \in 1 .. Len(rest) : mail'[k] = rest[k]
        /\ Letter(mail'[Len(rest) + 1], 1, start)
    BY <1>1, <2>1, <2>3, SentOne
  <2>5. MailInOrder'
    <3>1. <<start>> \in Seq(Calls) BY <2>3
    <3> QED BY <1>1, <2>1, <3>1, HeadSeen, OrderKept
  <2>6. DOMAIN mail' = 1 .. Len(mail) /\ Len(mail) \in DOMAIN mail'
    BY <1>1, <2>4
  <2>7. /\ mail'[Len(mail)].kind = "started" /\ mail'[Len(mail)].token = i
        /\ mail'[Len(mail)].time = now
    <3>1. Len(rest) + 1 = Len(mail) BY <1>1
    <3> QED BY <2>4, <3>1 DEF Letter, start
  <2>8. ASSUME NEW k \in DOMAIN mail', k # Len(mail)
        PROVE  k < Len(mail) /\ mail'[k].kind \in {"progress", "finished"}
    <3>1. /\ k \in 1 .. Len(rest) /\ k < Len(mail) /\ k + 1 \in DOMAIN mail /\ k + 1 # 1
          /\ k \in 1 .. Len(mail) - 1
      BY <1>1, <2>6, <2>8
    <3>2. mail'[k] = mail[k + 1] BY <1>1, <2>4, <3>1
    <3>3. mail[k + 1].kind \in {"nearly_finished", "progress", "finished"}
      BY <1>6, <3>1 DEF Follows, ToldOfStream, Runs
    <3> QED BY <1>5, <3>1, <3>2, <3>3
  <2>9. PrefetchInStep'
    <3>1. \A k \in DOMAIN mail' : mail'[k].kind # "nearly_finished" BY <2>7, <2>8
    <3> QED BY <2>2, <3>1 DEF PrefetchInStep
  <2>10. PICK n \in DOMAIN mail' : n = Len(mail) BY <2>6
  <2>11. \A j \in DOMAIN mail' :
           /\ j < n => mail'[j].kind \in {"stopped", "progress", "finished"}
           /\ ~(j > n)
    <3>1. \A j \in DOMAIN mail' : j <= n /\ (j < n => j # n) BY <1>1, <2>6, <2>10
    <3> QED BY <1>1, <2>6, <2>8, <2>10, <3>1
  <2>12. Awaits(n)' BY <1>3, <2>2, <2>7, <2>10, <2>11 DEF Awaits
  <2> QED BY <1>1, <1>4, <2>2, <2>5, <2>9, <2>12 DEF InStepInv
<1>7. CASE player.activity # "FINISHED"
  <2>1. player' = [player EXCEPT !.upcoming = i] /\ Sends(Tail(mail), <<>>)
    BY <1>2, <1>3, <1>7 DEF EnqueueDirective
  <2>2. /\ player'.token = player.token /\ player'.offset = player.offset
        /\ player'.activity = player.activity /\ player'.upcoming = i
        /\ player'.announced /\ player.activity = "PLAYING"
    <3>1. player.activity = "PLAYING"
      BY <1>1, <1>7 DEF Follows, ToldOfStream, Players
    <3> QED BY <1>1, <1>2, <2>1, <3>1 DEF Players
  <2>3. /\ MailInOrder' /\ Len(mail') = Len(mail) - 1 /\ DOMAIN mail' = 1 .. Len(mail) - 1
        /\ \A k \in DOMAIN mail' : k + 1 \in DOMAIN mail /\ mail'[k] = mail[k + 1]
    BY <2>1, Taken
  <2>4. \A k \in DOMAIN mail' : mail'[k].kind \notin {"started", "nearly_finished"}
    <3>1. \A k \in DOMAIN mail' : k + 1 # 1 BY <1>1, <2>3
    <3> QED BY <1>5, <2>3, <3>1
  <2>5. PrefetchInStep' BY <2>2, <2>4 DEF PrefetchInStep
  <2>6. ToldOfStream' BY <1>1, <2>2, <2>3, ToldTaken DEF Follows
  <2>7. Follows' BY <1>3, <2>2, <2>6 DEF Follows
  <2> QED BY <1>4, <2>2, <2>3, <2>5, <2>7 DEF InStepInv
<1> QED BY <1>6, <1>7

\* The session follows the device's stream, and an event of it is delivered.
LEMMA FollowsDelivered ==
  ASSUME TypeInv, MailIsPast, InStepInv, mail # <<>>, now' = now, disorder' = disorder,
         player.token # NoItem, Follows, Handle(Head(mail), Tail(mail))
  PROVE  InStepInv'
<1>1. /\ TypeOK /\ Head(mail) = mail[1] /\ mail[1] \in Events /\ 1 \in DOMAIN mail
      /\ Len(mail) \in Nat /\ Len(mail) > 0 /\ Answered /\ player \in Players
  <2>1. TypeOK BY DEF TypeInv
  <2>2. Answered BY DEF Answered
  <2>3. player \in Players BY <2>1 DEF TypeOK
  <2> QED BY <2>1, <2>2, <2>3, MailTail, MailRests
<1>2. /\ mail[1].token = player.token /\ store.active.item = player.token
      /\ mail[1].kind # "started"
      /\ player.activity = "PLAYING" => Runs(mail[1]) /\ store.active.status = "playing"
      /\ player.activity = "STOPPED" =>
           /\ mail[1].kind = "stopped" /\ mail[1].offset = player.offset
           /\ store.active.status = "paused" /\ store.active.offset = player.offset
      /\ player.activity = "FINISHED" =>
           /\ store.active.status = "playing"
           /\ IF Len(mail) = 1 THEN mail[1].kind = "finished" ELSE Runs(mail[1])
  BY <1>1 DEF Follows, ToldOfStream
<1>3. player.activity \in {"PLAYING", "STOPPED", "FINISHED"} BY <1>1 DEF Players
<1>4. CASE Reject(Head(mail), Tail(mail))
  <2>1. store' = store /\ NoDirective(Tail(mail)) /\ ~Applies(mail[1])
    BY <1>1, <1>4 DEF Reject
  <2>2. ~(player.activity = "FINISHED" /\ Len(mail) = 1)
    <3> SUFFICES ASSUME player.activity = "FINISHED", Len(mail) = 1 PROVE FALSE OBVIOUS
    <3>1. mail[1].kind = "finished" /\ store.active.status = "playing" BY <1>2
    <3>2. store.active.lastKind # "finished" BY <3>1 DEF InStepInv, PlayingWasSeen
    <3>3. AcceptsEvent(store.active, mail[1]) BY <3>1, <3>2, HeadAccepted
    <3> QED BY <1>2, <2>1, <3>1, <3>3 DEF Applies
  <2>3. PlayingWasSeen' BY <2>1 DEF InStepInv, PlayingWasSeen
  <2> QED BY <1>2, <2>1, <2>2, <2>3, FollowsTaken DEF Follows
<1>5. CASE Apply(Head(mail), Tail(mail))
  <2>1. CASE PlaybackStarted(mail[1], Tail(mail)) BY <1>2, <2>1 DEF PlaybackStarted
  <2>2. CASE PlaybackFailed(mail[1], Tail(mail))
    BY <1>2, <1>3, <2>2 DEF PlaybackFailed, Runs
  <2>3. CASE PlaybackProgress(mail[1], Tail(mail))
    <3>1. mail[1].kind = "progress" BY <2>3 DEF PlaybackProgress
    <3>2. /\ Sees(mail[1], "playing") /\ store'.prepared = store.prepared
          /\ NoDirective(Tail(mail))
      BY <1>1, <2>3, ProgressSees
    <3>3. PlayingWasSeen' BY <3>1, <3>2 DEF PlayingWasSeen, Sees
    <3> QED BY <1>1, <1>2, <3>1, <3>2, <3>3, FollowsTaken DEF Sees, Runs
  <2>4. CASE PlaybackStopped(mail[1], Tail(mail))
    <3>1. mail[1].kind = "stopped" BY <2>4 DEF PlaybackStopped
    <3>2. /\ Sees(mail[1], "paused") /\ store'.active.offset = mail[1].offset
          /\ store'.prepared = store.prepared /\ NoDirective(Tail(mail))
      BY <1>1, <2>4, StoppedSees
    <3>3. PlayingWasSeen' BY <3>2 DEF PlayingWasSeen, Sees
    <3>4. player.activity = "STOPPED" BY <1>2, <1>3, <3>1 DEF Runs
    <3> QED BY <1>1, <1>2, <3>2, <3>3, <3>4, FollowsTaken DEF Sees
  <2>5. CASE PlaybackFinished(mail[1], Tail(mail))
    <3>1. mail[1].kind = "finished" BY <2>5 DEF PlaybackFinished
    <3>2. /\ Sees(mail[1], "completed") /\ store'.prepared = store.prepared
          /\ NoDirective(Tail(mail))
      BY <1>1, <2>5, FinishedSees
    <3>3. PlayingWasSeen' BY <3>2 DEF PlayingWasSeen, Sees
    <3>4. player.activity = "FINISHED" /\ Len(mail) = 1 BY <1>2, <1>3, <3>1 DEF Runs
    <3> QED BY <1>1, <1>2, <3>2, <3>3, <3>4, FollowsTaken DEF Sees
  <2>6. CASE PlaybackNearlyFinished(mail[1], Tail(mail), TRUE, TRUE)
    <3>1. mail[1].kind = "nearly_finished" BY <2>6 DEF PlaybackNearlyFinished
    <3>2. /\ Sees(mail[1], "playing")
          /\ \/ store'.prepared = store.prepared /\ NoDirective(Tail(mail))
             \/ \E i \in Items : /\ store'.prepared = i
                                 /\ EnqueueDirective(i, mail[1].token, Tail(mail))
      BY <1>1, <2>6, NearlyFinishedSees
    <3>3. CASE store'.prepared = store.prepared /\ NoDirective(Tail(mail))
      <4>1. PlayingWasSeen' BY <3>1, <3>2 DEF PlayingWasSeen, Sees
      <4> QED BY <1>1, <1>2, <3>1, <3>2, <3>3, <4>1, FollowsTaken DEF Sees, Runs
    <3>4. ASSUME NEW i \in Items, store'.prepared = i,
                 EnqueueDirective(i, mail[1].token, Tail(mail))
          PROVE  InStepInv'
      BY <1>1, <3>1, <3>2, <3>4, EnqueueInStep
    <3> QED BY <3>2, <3>3, <3>4
  <2> QED BY <1>1, <1>5, <2>1, <2>2, <2>3, <2>4, <2>5, <2>6 DEF Apply
<1> QED BY <1>4, <1>5 DEF Handle

\* The session awaits the start of the device's stream, and an event is delivered.
LEMMA AwaitedDelivered ==
  ASSUME TypeInv, MailIsPast, InStepInv, mail # <<>>, now' = now,
         player.token # NoItem, NEW k \in DOMAIN mail, Awaits(k),
         Handle(Head(mail), Tail(mail))
  PROVE  InStepInv'
<1>1. /\ TypeOK /\ Head(mail) = mail[1] /\ mail[1] \in Events /\ 1 \in DOMAIN mail
      /\ Len(mail) \in Nat /\ Len(mail) > 0 /\ DOMAIN mail = 1 .. Len(mail) /\ k \in Nat
  <2>1. TypeOK BY DEF TypeInv
  <2> QED BY <2>1, MailTail, MailRests
<1>2. player.upcoming = NoItem BY DEF Awaits, InStepInv, PrefetchInStep
<1>3. ASSUME Sends(Tail(mail), <<>>),
             store' = store \/ \E status : Sees(Head(mail), status)
      PROVE  /\ MailInOrder'
             /\ Len(mail') = Len(mail) - 1 /\ DOMAIN mail' = 1 .. Len(mail) - 1
             /\ \A j \in DOMAIN mail' : j + 1 \in DOMAIN mail /\ mail'[j] = mail[j + 1]
             /\ mail' = <<>> <=> Len(mail) = 1
  BY <1>3, Taken
<1>4. CASE k = 1
  <2>1. /\ mail[1].kind = "started" /\ mail[1].token = player.token
        /\ store.active.item = player.token \/ store.prepared = player.token
        /\ store.active.lastKind = "started" => store.active.eventTime < mail[1].time
        /\ player.activity # "STOPPED"
        /\ player.activity = "PLAYING" /\ player.offset = Duration => mail[1].time < now
        /\ \A j \in DOMAIN mail : j > 1 =>
             /\ mail[j].token = player.token
             /\ IF player.activity = "FINISHED" /\ j = Len(mail)
                THEN mail[j].kind = "finished" ELSE Runs(mail[j])
        /\ player.activity = "FINISHED" => 1 < Len(mail)
    BY <1>4 DEF Awaits
  <2>2. Applies(mail[1])
    <3>1. mail[1].time = store.active.eventTime => mail[1].kind # store.active.lastKind
      <4>1. store.active.eventTime \in Nat BY <1>1 DEF TypeOK, Documents, Sessions
      <4> QED BY <2>1, <4>1
    <3>2. AcceptsEvent(store.active, mail[1]) BY <3>1, HeadAccepted
    <3> QED BY <2>1, <3>2 DEF Applies
  <2>3. PlaybackStarted(mail[1], Tail(mail))
    <3>1. Apply(mail[1], Tail(mail)) BY <1>1, <2>2 DEF Handle, Reject
    <3> QED BY <2>1, <3>1 DEF Apply, PlaybackNearlyFinished, PlaybackFinished,
                              PlaybackStopped, PlaybackFailed, PlaybackProgress
  <2>4. Sees(mail[1], "playing") /\ NoDirective(Tail(mail)) BY <1>1, <2>3, StartedSees
  <2>5. player' = player /\ Sends(Tail(mail), <<>>) BY <2>4 DEF NoDirective
  <2>6. /\ MailInOrder'
        /\ Len(mail') = Len(mail) - 1 /\ DOMAIN mail' = 1 .. Len(mail) - 1
        /\ \A j \in DOMAIN mail' : j + 1 \in DOMAIN mail /\ mail'[j] = mail[j + 1]
        /\ mail' = <<>> <=> Len(mail) = 1
    BY <1>1, <1>3, <2>4, <2>5
  <2>7. PrefetchInStep' BY <1>1, <1>2, <2>5, <2>6, PrefetchTaken DEF InStepInv
  <2>8. PlayingWasSeen' BY <2>1, <2>4 DEF PlayingWasSeen, Sees
  <2>9. ASSUME NEW j \in DOMAIN mail'
        PROVE  /\ mail'[j].token = player.token
               /\ IF player.activity = "FINISHED" /\ j = Len(mail')
                  THEN mail'[j].kind = "finished" ELSE Runs(mail'[j])
    <3>1. j + 1 > 1 /\ (j + 1 = Len(mail) <=> j = Len(mail')) BY <1>1, <2>6
    <3> QED BY <2>1, <2>6, <3>1
  <2>10. ToldOfStream' BY <2>1, <2>5, <2>9 DEF ToldOfStream, Runs
  <2>11. Follows' BY <1>1, <2>1, <2>4, <2>5, <2>6, <2>10 DEF Follows, Sees
  <2> QED BY <2>5, <2>6, <2>7, <2>8, <2>11 DEF InStepInv
<1>5. CASE k # 1
  <2>1. 1 < k /\ mail[1].kind \in {"stopped", "progress", "finished"}
    <3>1. 1 < k BY <1>1, <1>5
    <3> QED BY <1>1, <3>1 DEF Awaits
  <2>2. /\ NoDirective(Tail(mail)) /\ store'.prepared = store.prepared /\ PlayingWasSeen'
        /\ \/ store' = store
           \/ /\ \E status : Sees(mail[1], status)
              /\ store'.active.item = store.active.item
              /\ store'.active.lastKind # "started"
    <3>1. CASE Reject(mail[1], Tail(mail))
      BY <3>1 DEF Reject, InStepInv, PlayingWasSeen
    <3>2. CASE Apply(mail[1], Tail(mail))
      <4>1. CASE PlaybackStopped(mail[1], Tail(mail))
        <5>1. mail[1].token = store.active.item /\ mail[1].kind = "stopped"
          BY <4>1 DEF PlaybackStopped
        <5>2. /\ Sees(mail[1], "paused") /\ store'.prepared = store.prepared
              /\ NoDirective(Tail(mail))
          BY <1>1, <4>1, StoppedSees
        <5> QED BY <5>1, <5>2 DEF Sees, PlayingWasSeen
      <4>2. CASE PlaybackProgress(mail[1], Tail(mail))
        <5>1. mail[1].token = store.active.item /\ mail[1].kind = "progress"
          BY <4>2 DEF PlaybackProgress
        <5>2. /\ Sees(mail[1], "playing") /\ store'.prepared = store.prepared
              /\ NoDirective(Tail(mail))
          BY <1>1, <4>2, ProgressSees
        <5> QED BY <5>1, <5>2 DEF Sees, PlayingWasSeen
      <4>3. CASE PlaybackFinished(mail[1], Tail(mail))
        <5>1. mail[1].token = store.active.item /\ mail[1].kind = "finished"
          BY <4>3 DEF PlaybackFinished
        <5>2. /\ Sees(mail[1], "completed") /\ store'.prepared = store.prepared
              /\ NoDirective(Tail(mail))
          BY <1>1, <4>3, FinishedSees
        <5> QED BY <5>1, <5>2 DEF Sees, PlayingWasSeen
      <4> QED BY <2>1, <3>2, <4>1, <4>2, <4>3
              DEF Apply, PlaybackStarted, PlaybackNearlyFinished, PlaybackFailed
    <3> QED BY <1>1, <3>1, <3>2 DEF Handle
  <2>3. player' = player /\ Sends(Tail(mail), <<>>) BY <2>2 DEF NoDirective
  <2>4. /\ MailInOrder'
        /\ Len(mail') = Len(mail) - 1 /\ DOMAIN mail' = 1 .. Len(mail) - 1
        /\ \A j \in DOMAIN mail' : j + 1 \in DOMAIN mail /\ mail'[j] = mail[j + 1]
    BY <1>1, <1>3, <2>2, <2>3
  <2>5. PrefetchInStep' BY <1>1, <1>2, <2>3, <2>4, PrefetchTaken DEF InStepInv
  <2>6. PICK n \in DOMAIN mail' : n + 1 = k
    <3>1. k - 1 \in DOMAIN mail' /\ (k - 1) + 1 = k BY <1>1, <2>1, <2>4
    <3> QED BY <3>1
  <2>7. mail'[n] = mail[k] /\ n \in Nat /\ (player.activity = "FINISHED" => n < Len(mail'))
    BY <1>1, <2>4, <2>6 DEF Awaits
  <2>8. ASSUME NEW j \in DOMAIN mail'
        PROVE  /\ j < n => mail'[j].kind \in {"stopped", "progress", "finished"}
               /\ j > n =>
                    /\ mail'[j].token = player.token
                    /\ IF player.activity = "FINISHED" /\ j = Len(mail')
                       THEN mail'[j].kind = "finished" ELSE Runs(mail'[j])
    <3>1. /\ j + 1 \in DOMAIN mail /\ mail'[j] = mail[j + 1] BY <2>4
    <3>2. /\ j < n => j + 1 < k
          /\ j > n => j + 1 > k
          /\ j + 1 = Len(mail) <=> j = Len(mail')
      BY <1>1, <2>4, <2>6, <2>7
    <3> QED BY <3>1, <3>2 DEF Awaits
  <2>9. store'.active.item = store.active.item BY <2>2
  <2>10. store'.active.lastKind = "started" => store'.active.eventTime < mail'[n].time
    BY <2>2, <2>7 DEF Awaits
  <2>11. Awaits(n)'
    BY <2>2, <2>3, <2>7, <2>8, <2>9, <2>10 DEF Awaits, Runs
  <2> QED BY <2>2, <2>3, <2>4, <2>5, <2>11 DEF InStepInv
<1> QED BY <1>4, <1>5

\* No event is newer than the device's latest.
LEMMA PastNext ==
  ASSUME TypeInv, MailIsPast, [Next]_vars PROVE MailIsPast'
<1>0. TypeOK /\ PlaysSomething BY DEF TypeInv
<1>1. CASE Tick BY <1>1 DEF Tick, MailIsPast
<1>2. CASE NearlyFinish \/ Report \/ Finish \/ Fail
  BY <1>0, <1>2, DeviceStep DEF Acted, DeviceTyped, MailTyped
<1>3. CASE Network
  BY <1>0, <1>3, NetworkStep DEF Ignored, Handled, DeviceTyped, MailTyped
<1>4. CASE Listener BY <1>0, <1>4, CommandStep DEF Completed, DeviceTyped, MailTyped
<1>5. CASE UNCHANGED vars BY <1>5 DEF vars, MailIsPast
<1> QED BY <1>1, <1>2, <1>3, <1>4, <1>5 DEF Next, Device

\* What is in order now was in order before.
LEMMA StillInOrder ==
  ASSUME TypeOK, PlaysSomething, [Next]_vars, disorder' = {} PROVE disorder = {}
<1>1. CASE Device
  BY <1>1 DEF Device, Tick, NearlyFinish, Report, Finish, Fail, Irregular
<1>2. CASE Network
  BY <1>2 DEF Network, Deliver, DeliverEarly, DeliverAndRepeat, Lose, DeliverInVain,
              Irregular
<1>3. CASE Listener
  BY <1>3, CommandStep DEF Spoken
<1> QED BY <1>1, <1>2, <1>3 DEF Next, vars

\* Nothing irregular has happened, and every command came when all was handled.
OrderlyInv == MailIsPast /\ (disorder = {} => InStepInv)

LEMMA OrderlyNext ==
  ASSUME TypeInv, OrderlyInv, [Next]_vars PROVE OrderlyInv'
<1>0. TypeOK /\ PlaysSomething /\ MailIsPast BY DEF TypeInv, OrderlyInv
<1>1. disorder' = {} => disorder = {} BY <1>0, StillInOrder
<1>2. SUFFICES ASSUME disorder' = {}, InStepInv PROVE InStepInv'
  BY <1>0, <1>1, PastNext DEF OrderlyInv
<1>3. CASE Tick BY <1>2, <1>3, TickInStep
<1>4. CASE NearlyFinish
  BY <1>2, <1>4, ReportInStep DEF NearlyFinish
<1>5. CASE Report
  BY <1>2, <1>5, ReportInStep DEF Report
<1>6. CASE Finish BY <1>2, <1>6, FinishInStep
<1>7. CASE Fail BY <1>2, <1>7 DEF Fail, Irregular
<1>8. CASE Deliver
  <2>1. /\ mail # <<>> /\ disorder' = disorder /\ now' = now
        /\ Handle(Head(mail), Tail(mail))
    BY <1>8 DEF Deliver, Quiescent
  <2>2. player.token # NoItem BY <1>2, <2>1 DEF InStepInv
  <2>3. CASE Follows BY <1>0, <1>2, <2>1, <2>2, <2>3, FollowsDelivered
  <2>4. ASSUME NEW k \in DOMAIN mail, Awaits(k) PROVE InStepInv'
    BY <1>0, <1>2, <2>1, <2>2, <2>4, AwaitedDelivered
  <2> QED BY <1>2, <2>2, <2>3, <2>4 DEF InStepInv
<1>9. CASE DeliverEarly \/ DeliverAndRepeat \/ Lose \/ DeliverInVain
  BY <1>2, <1>9 DEF DeliverEarly, DeliverAndRepeat, Lose, DeliverInVain, Irregular
<1>10. CASE Listener BY <1>2, <1>10, CommandInStep
<1>11. CASE UNCHANGED vars
  BY <1>2, <1>11 DEF vars, InStepInv, MailInOrder, PrefetchInStep, PlayingWasSeen, Follows,
                     ToldOfStream, Awaits, Runs, HasSession
<1> QED BY <1>3, <1>4, <1>5, <1>6, <1>7, <1>8, <1>9, <1>10, <1>11 DEF Next, Device, Network

LEMMA OrderlyInit == Init => OrderlyInv
<1> SUFFICES ASSUME Init PROVE OrderlyInv OBVIOUS
<1>1. /\ mail = <<>> /\ DOMAIN mail = {} /\ stamp = 0 /\ player.token = NoItem
      /\ player.upcoming = NoItem /\ store.active = NoSession
  BY DEF Init, Streaming
<1>2. /\ store.active.item = NoItem /\ store.active.status = "none"
      /\ store.active.eventTime = 0
  BY <1>1 DEF NoSession
<1> QED BY <1>1, <1>2 DEF OrderlyInv, MailIsPast, InStepInv, MailInOrder, PrefetchInStep,
                          PlayingWasSeen, HasSession

\* While the device's events arrive in order, each once, and every command finds
\* them handled, whatever the listener says: once no event is on its way, the
\* document describes the device, its item, whether it plays, and the offset from
\* which a stopped stream goes on.  (With one command over late events the property
\* is only model-checked; without the provisos it is false.)
THEOREM DocumentInStep == Spec => [](disorder = {} => InStep)
<1>1. ASSUME TypeInv, OrderlyInv PROVE disorder = {} => InStep
  <2> SUFFICES ASSUME disorder = {}, mail = <<>>, player.token # NoItem
               PROVE  /\ store.active.item = player.token
                      /\ player.activity = "PLAYING" => store.active.status = "playing"
                      /\ player.activity = "STOPPED" =>
                           store.active.status = "paused" /\ store.active.offset = player.offset
                      /\ player.activity = "FINISHED" => store.active.status = "completed"
    BY DEF InStep
  <2>1. Follows BY <1>1, Quiet DEF OrderlyInv
  <2> QED BY <2>1 DEF Follows
<1>2. Init => OrderlyInv BY OrderlyInit
<1>3. TypeInv /\ OrderlyInv /\ [Next]_vars => OrderlyInv' BY OrderlyNext
<1>4. TypeInv /\ OrderlyInv => (disorder = {} => InStep) BY <1>1
<1> QED BY <1>2, <1>3, <1>4, TypeAlways, PTL DEF Spec

-----------------------------------------------------------------------------
(* The successor *)

\* A number of the set is met one after the other.
LEMMA CountStep ==
  ASSUME NEW numbers, IsFiniteSet(numbers), numbers \subseteq Nat, NEW n \in Nat
  PROVE  LET Upto(k) == {j \in numbers : j <= k}
         IN  /\ Cardinality(Upto(n)) \in Nat
             /\ Cardinality(Upto(n + 1)) =
                  Cardinality(Upto(n)) + (IF n + 1 \in numbers THEN 1 ELSE 0)
<1> DEFINE Upto(k) == {j \in numbers : j <= k}
<1>0. \A j \in numbers : j \in Nat OBVIOUS
<1>1. IsFiniteSet(Upto(n))
  <2>1. Upto(n) \subseteq numbers OBVIOUS
  <2> QED BY <2>1, FS_Subset
<1>2. Cardinality(Upto(n)) \in Nat BY <1>1, FS_CardinalityType
<1>3. CASE n + 1 \in numbers
  <2>0. \A j \in numbers : j <= n + 1 <=> (j <= n \/ j = n + 1) BY <1>0
  <2>1. n + 1 <= n + 1 /\ ~(n + 1 <= n) OBVIOUS
  <2>2. Upto(n + 1) = Upto(n) \union {n + 1} BY <1>3, <2>0, <2>1
  <2>3. n + 1 \notin Upto(n) BY <2>1
  <2> HIDE DEF Upto
  <2>4. Cardinality(Upto(n + 1)) = Cardinality(Upto(n)) + 1
    BY <1>1, <2>2, <2>3, FS_AddElement
  <2> QED BY <1>2, <1>3, <2>4 DEF Upto
<1>4. CASE n + 1 \notin numbers
  <2>0. \A j \in numbers : j <= n + 1 <=> j <= n
    <3> TAKE j \in numbers
    <3>1. j # n + 1 BY <1>4
    <3> QED BY <1>0, <3>1
  <2>1. Upto(n + 1) = Upto(n) BY <2>0
  <2> HIDE DEF Upto
  <2>2. Cardinality(Upto(n + 1)) = Cardinality(Upto(n)) BY <2>1
  <2> QED BY <1>2, <1>4, <2>2 DEF Upto
<1> QED BY <1>3, <1>4

\* The first place up to which n numbers of a set are met is the n-th of them.
LEMMA FirstMet ==
  ASSUME NEW len \in Nat, NEW numbers \in SUBSET (1 .. len),
         NEW n \in 1 .. Cardinality(numbers)
  PROVE  LET Upto(k) == {j \in numbers : j <= k}
             met == {k \in 1 .. len : Cardinality(Upto(k)) >= n}
         IN  Smallest(met) \in numbers /\ Cardinality(Upto(Smallest(met))) = n
<1> DEFINE Upto(k) == {j \in numbers : j <= k}
           C(k) == Cardinality(Upto(k))
           met == {k \in 1 .. len : C(k) >= n}
           s == Smallest(met)
<1>1. IsFiniteSet(numbers) /\ numbers \subseteq Nat /\ Cardinality(numbers) \in Nat
  <2>1. IsFiniteSet(1 .. len) BY FS_Interval
  <2>2. IsFiniteSet(numbers) BY <2>1, FS_Subset
  <2> QED BY <2>2, FS_CardinalityType
<1>2. \A k \in Nat : C(k) \in Nat /\ C(k + 1) = C(k) + (IF k + 1 \in numbers THEN 1 ELSE 0)
  BY <1>1, CountStep
<1>0. \A j \in numbers : j \in Nat /\ 1 <= j /\ j <= len
  <2> TAKE j \in numbers
  <2>1. j \in 1 .. len OBVIOUS
  <2> QED BY <2>1
<1>3. C(0) = 0
  <2>0. \A j \in numbers : ~(j <= 0) BY <1>0
  <2>1. Upto(0) = {} BY <2>0
  <2> QED BY <2>1, FS_EmptySet
<1>4. C(len) = Cardinality(numbers)
  <2>1. Upto(len) = numbers BY <1>0
  <2> QED BY <2>1
<1>5. n \in Nat /\ n >= 1 /\ n <= Cardinality(numbers) BY <1>1
<1> HIDE DEF C
<1>6. len >= 1
  <2> SUFFICES ASSUME len = 0 PROVE FALSE OBVIOUS
  <2> QED BY <1>3, <1>4, <1>5
<1>7. len \in met BY <1>4, <1>5, <1>6
<1>8. s \in met /\ \A k \in met : s <= k
  <2>1. met \in SUBSET Nat /\ met # {} BY <1>7
  <2> HIDE DEF met
  <2> QED BY <2>1, SmallestIsLeast
<1> HIDE DEF s
<1>9. s \in 1 .. len /\ C(s) >= n BY <1>8
<1> DEFINE t == s - 1
<1>10. t \in Nat /\ s = t + 1 BY <1>9
<1>11. C(t) < n
  <2>1. CASE t = 0 BY <1>3, <1>5, <2>1
  <2>2. CASE t # 0
    <3>1. t \in 1 .. len /\ ~(s <= t) BY <1>9, <1>10, <2>2
    <3>2. t \notin met BY <1>8, <3>1
    <3>3. ~(C(t) >= n) BY <3>1, <3>2
    <3> QED BY <1>2, <1>5, <1>10, <3>3
  <2> QED BY <2>1, <2>2
<1>12. C(t) \in Nat /\ C(s) = C(t) + (IF s \in numbers THEN 1 ELSE 0) BY <1>2, <1>10
<1> HIDE DEF t
<1>13. s \in numbers /\ C(s) = n BY <1>5, <1>9, <1>11, <1>12
<1> QED BY <1>13 DEF s, C

\* What a page adds to the queue is new, and different.
LEMMA UnseenNew ==
  ASSUME NEW q \in Queues, HasMorePages(q)
  PROVE  LET page == Pages[q.page + 1]
         IN  /\ Distinct(Unseen(q))
             /\ \A k \in DOMAIN Unseen(q) :
                  /\ ~InQueue(q, Unseen(q)[k])
                  /\ \E j \in DOMAIN page : page[j] = Unseen(q)[k]
             /\ (\E j \in DOMAIN page : ~InQueue(q, page[j])) => 1 \in DOMAIN Unseen(q)
<1> DEFINE page == Pages[q.page + 1]
           new == {k \in DOMAIN page : ~InQueue(q, page[k])}
           Upto(k) == {j \in new : j <= k}
           Met(n) == {k \in DOMAIN page : Cardinality(Upto(k)) >= n}
<1>1. q.page + 1 \in DOMAIN Pages
  BY PlaybackAssumption, LenProperties DEF HasMorePages, Queues
<1>2. page \in Seq(Items) /\ Distinct(page)
  BY <1>1, PlaybackAssumption, ElementOfSeq DEF Distinct
<1>3. DOMAIN page = 1 .. Len(page) /\ Len(page) \in Nat BY <1>2, LenProperties
<1>4. new \in SUBSET (1 .. Len(page)) BY <1>3
<1> DEFINE Place(n) == Smallest(Met(n))
<1>5. \A n \in 1 .. Cardinality(new) : Place(n) \in new /\ Cardinality(Upto(Place(n))) = n
  <2> DEFINE len == Len(page)
  <2>1. len \in Nat /\ new \in SUBSET (1 .. len) /\ DOMAIN page = 1 .. len BY <1>3, <1>4
  <2> HIDE DEF new, len
  <2>2. \A n \in 1 .. Cardinality(new) :
          LET met == {k \in 1 .. len : Cardinality(Upto(k)) >= n}
          IN  Smallest(met) \in new /\ Cardinality(Upto(Smallest(met))) = n
    BY <2>1, FirstMet
  <2>3. \A n : Met(n) = {k \in 1 .. len : Cardinality(Upto(k)) >= n} BY <2>1
  <2> HIDE DEF Upto, Met
  <2> QED BY <2>2, <2>3
<1> HIDE DEF Place
<1>6. Unseen(q) = [n \in 1 .. Cardinality(new) |-> page[Place(n)]] BY DEF Unseen, Place
<1>7. \A n \in 1 .. Cardinality(new) :
        Place(n) \in DOMAIN page /\ ~InQueue(q, page[Place(n)])
  BY <1>5
<1>10. ASSUME \E j \in DOMAIN page : ~InQueue(q, page[j]) PROVE 1 \in 1 .. Cardinality(new)
  <2>1. new # {} BY <1>10
  <2>2. IsFiniteSet(new)
    <3>1. IsFiniteSet(1 .. Len(page)) BY <1>3, FS_Interval
    <3> QED BY <1>4, <3>1, FS_Subset
  <2>3. Cardinality(new) \in Nat /\ Cardinality(new) # 0
    BY <2>1, <2>2, FS_CardinalityType, FS_EmptySet
  <2> HIDE DEF new
  <2> QED BY <2>3
<1> HIDE DEF new, page, Upto
<1>8. ASSUME NEW j \in DOMAIN Unseen(q), NEW k \in DOMAIN Unseen(q), Unseen(q)[j] = Unseen(q)[k]
      PROVE  j = k
  <2>1. Place(j) = Place(k) BY <1>2, <1>6, <1>7, <1>8 DEF Distinct
  <2> QED BY <1>5, <1>6, <2>1
<1>9. Distinct(Unseen(q)) BY <1>8 DEF Distinct
<1>11. \A k \in DOMAIN Unseen(q) : \E j \in DOMAIN page : page[j] = Unseen(q)[k]
  BY <1>6, <1>7
<1> QED BY <1>6, <1>7, <1>9, <1>10, <1>11 DEF page

\* The queue stays without repetitions when a page is added.
LEMMA NextPageDistinct ==
  ASSUME NEW s \in Documents, Distinct(s.queue.ids)
  PROVE  Distinct(WithNextPage(s).queue.ids)
<1>1. CASE ~HasMorePages(s.queue) BY <1>1 DEF WithNextPage
<1>2. CASE HasMorePages(s.queue)
  <2> DEFINE ids == s.queue.ids
             u == Unseen(s.queue)
  <2>0. s.queue \in Queues BY DEF Documents
  <2>1. ids \in Seq(Items) /\ u \in Seq(Items)
    BY <1>2, <2>0, UnseenTyped DEF Queues
  <2>2. Distinct(u) /\ \A k \in DOMAIN u : ~InQueue(s.queue, u[k])
    BY <1>2, <2>0, UnseenNew
  <2>3. WithNextPage(s).queue.ids = ids \o u
    BY <1>2 DEF WithNextPage, Documents, Queues
  <2>4. \A j \in DOMAIN ids : \A k \in DOMAIN u : u[k] # ids[j] BY <2>2 DEF InQueue
  <2>5. Distinct(ids) OBVIOUS
  <2> HIDE DEF u, ids
  <2>6. /\ DOMAIN ids = 1 .. Len(ids) /\ Len(ids) \in Nat
        /\ DOMAIN u = 1 .. Len(u) /\ Len(u) \in Nat
        /\ DOMAIN (ids \o u) = 1 .. Len(ids) + Len(u)
        /\ \A k \in 1 .. Len(ids) + Len(u) :
             (ids \o u)[k] = IF k <= Len(ids) THEN ids[k] ELSE u[k - Len(ids)]
    BY <2>1, ConcatProperties, LenProperties
  <2>7. ASSUME NEW j \in 1 .. Len(ids) + Len(u), NEW k \in 1 .. Len(ids) + Len(u),
               (ids \o u)[j] = (ids \o u)[k]
        PROVE  j = k
    <3>1. CASE j <= Len(ids) /\ k <= Len(ids)
      BY <2>5, <2>6, <2>7, <3>1 DEF Distinct
    <3>2. CASE j > Len(ids) /\ k > Len(ids)
      <4>1. j - Len(ids) \in DOMAIN u /\ k - Len(ids) \in DOMAIN u BY <2>6, <3>2
      <4>2. u[j - Len(ids)] = u[k - Len(ids)] BY <2>6, <2>7, <3>2
      <4>3. j - Len(ids) = k - Len(ids) BY <2>2, <4>1, <4>2 DEF Distinct
      <4> QED BY <2>6, <4>3
    <3>3. CASE j <= Len(ids) /\ k > Len(ids)
      <4>1. j \in DOMAIN ids /\ k - Len(ids) \in DOMAIN u BY <2>6, <3>3
      <4>2. ids[j] = u[k - Len(ids)] BY <2>6, <2>7, <3>3
      <4> QED BY <2>4, <4>1, <4>2
    <3>4. CASE j > Len(ids) /\ k <= Len(ids)
      <4>1. k \in DOMAIN ids /\ j - Len(ids) \in DOMAIN u BY <2>6, <3>4
      <4>2. ids[k] = u[j - Len(ids)] BY <2>6, <2>7, <3>4
      <4> QED BY <2>4, <4>1, <4>2
    <3> QED BY <2>6, <3>1, <3>2, <3>3, <3>4
  <2>8. Distinct(ids \o u) BY <2>6, <2>7 DEF Distinct
  <2> QED BY <2>3, <2>8
<1> QED BY <1>1, <1>2

\* The index is at the active item, which has one place in the queue.
Placed(s) ==
  /\ s.queue.index \in DOMAIN s.queue.ids /\ s.queue.ids[s.queue.index] = s.active.item
  /\ Distinct(s.queue.ids)

\* The places after the index that are not finished.
Open(s) == {k \in DOMAIN s.queue.ids : k > s.queue.index /\ s.queue.ids[k] \notin s.completed}

LEMMA NextPlaceOf ==
  ASSUME NEW s \in Documents, Placed(s)
  PROVE  /\ Open(s) \subseteq Nat /\ DOMAIN s.queue.ids \subseteq Nat /\ s.queue.index \in Nat
         /\ NextPlace(s) = IF Open(s) = {} THEN s.queue.index + 1 ELSE Smallest(Open(s))
<1>1. /\ s.queue.ids \in Seq(Items) /\ s.queue.index \in Nat
      /\ DOMAIN s.queue.ids \subseteq Nat
  BY LenProperties DEF Documents, Queues
<1> DEFINE ids == s.queue.ids
           open == {k \in DOMAIN ids : k >= s.queue.index + 1 /\ ids[k] \notin FinishedIds(s)}
<1>2. ASSUME NEW k \in DOMAIN ids
      PROVE  /\ k >= s.queue.index + 1 <=> k > s.queue.index
             /\ k > s.queue.index => (ids[k] \in FinishedIds(s) <=> ids[k] \in s.completed)
  <2>1. k \in Nat BY <1>1
  <2>2. k > s.queue.index => ids[k] # s.active.item BY <1>1, <2>1 DEF Placed, Distinct
  <2> QED BY <1>1, <2>1, <2>2 DEF FinishedIds
<1>3. open = Open(s) BY <1>2 DEF Open
<1>4. NextPlace(s) = IF open = {} THEN s.queue.index + 1 ELSE Smallest(open)
  BY DEF NextPlace, NextUnfinished
<1>5. Open(s) \subseteq Nat BY <1>1 DEF Open
<1> QED BY <1>1, <1>3, <1>4, <1>5

\* The next item lies ahead, with only finished ones before it.
LEMMA NextAhead ==
  ASSUME NEW s \in Documents, Placed(s), HasNext(s)
  PROVE  /\ NextPlace(s) > s.queue.index /\ NextItem(s) # s.active.item
         /\ \A passed : s.completed \subseteq passed => Ahead(s, NextItem(s), passed)
<1> DEFINE ids == s.queue.ids
           n == NextPlace(s)
<1>1. /\ Open(s) \subseteq Nat /\ DOMAIN ids \subseteq Nat /\ s.queue.index \in Nat
      /\ n = IF Open(s) = {} THEN s.queue.index + 1 ELSE Smallest(Open(s))
      /\ n \in DOMAIN ids
  BY NextPlaceOf DEF HasNext
<1>2. s.queue.ids \in Seq(Items) BY DEF Documents, Queues
<1>3. DOMAIN ids = 1 .. Len(ids) /\ Len(ids) \in Nat BY <1>2, LenProperties
<1>4. n > s.queue.index /\ \A k \in s.queue.index + 1 .. n - 1 : ids[k] \in s.completed
  <2>1. CASE Open(s) = {}
    <3>1. n = s.queue.index + 1 BY <1>1, <2>1
    <3> QED BY <1>1, <3>1
  <2>2. CASE Open(s) # {}
    <3>1. n \in Open(s) /\ \A k \in Open(s) : n <= k BY <1>1, <2>2, SmallestIsLeast
    <3> HIDE DEF n
    <3>a. n > s.queue.index BY <3>1 DEF Open
    <3>b. n \in 1 .. Len(ids) BY <1>1, <1>3
    <3>2. n > s.queue.index /\ n \in Nat /\ n <= Len(ids) BY <1>3, <3>a, <3>b
    <3>3. ASSUME NEW k \in s.queue.index + 1 .. n - 1 PROVE ids[k] \in s.completed
      <4>1. k \in Nat /\ k > s.queue.index /\ ~(n <= k) /\ k \in 1 .. Len(ids)
        <5>1. s.queue.index \in Nat /\ Len(ids) \in Nat BY <1>1, <1>3
        <5> DEFINE i == s.queue.index
                   l == Len(ids)
        <5> HIDE DEF i, l
        <5>2. i \in Nat /\ l \in Nat /\ n \in Nat /\ n <= l /\ k \in i + 1 .. n - 1
          BY <3>2, <5>1 DEF i, l
        <5>3. k \in Nat /\ k > i /\ ~(n <= k) /\ k \in 1 .. l BY <5>2
        <5> QED BY <5>3 DEF i, l
      <4>2. k \notin Open(s) BY <3>1, <4>1
      <4> QED BY <1>3, <4>1, <4>2 DEF Open
    <3> QED BY <3>2, <3>3
  <2> QED BY <2>1, <2>2
<1>5. NextItem(s) = ids[n] BY DEF NextItem
<1> HIDE DEF n
<1>6. n # s.queue.index BY <1>1, <1>4
<1>7. NextItem(s) # s.active.item BY <1>1, <1>5, <1>6 DEF Placed, Distinct
<1>8. ASSUME NEW passed, s.completed \subseteq passed PROVE Ahead(s, NextItem(s), passed)
  BY <1>1, <1>4, <1>5, <1>8 DEF Ahead
<1> QED BY <1>4, <1>7, <1>8 DEF n

\* Finishing the active item does not change what comes next.
LEMMA SameNext ==
  ASSUME NEW s \in Documents, NEW t \in Documents, Placed(s),
         t.queue.ids = s.queue.ids, t.queue.index = s.queue.index,
         t.active.item = s.active.item, s.completed \subseteq t.completed,
         t.completed \subseteq s.completed \union {s.active.item}
  PROVE  Placed(t) /\ NextPlace(t) = NextPlace(s)
<1>1. Placed(t) BY DEF Placed
<1>2. /\ s.queue.index \in Nat /\ DOMAIN s.queue.ids \subseteq Nat
      /\ NextPlace(s) = IF Open(s) = {} THEN s.queue.index + 1 ELSE Smallest(Open(s))
  BY NextPlaceOf
<1>3. NextPlace(t) = IF Open(t) = {} THEN t.queue.index + 1 ELSE Smallest(Open(t))
  BY <1>1, NextPlaceOf
<1>4. ASSUME NEW k \in DOMAIN s.queue.ids, k > s.queue.index
      PROVE  s.queue.ids[k] # s.active.item
  <2>1. k \in Nat /\ k # s.queue.index BY <1>2, <1>4
  <2> QED BY <1>4, <2>1 DEF Placed, Distinct
<1>5. Open(t) = Open(s) BY <1>4 DEF Open
<1> QED BY <1>1, <1>2, <1>3, <1>5

\* What comes next stays so.
NextKept == HasNext(store) => HasNext(store') /\ NextItem(store') = NextItem(store)

\* The session goes on with the item it has.
GoesOn ==
  /\ QueueKept(store'.queue) /\ Distinct(store'.queue.ids)
  /\ store'.queue.index = store.queue.index /\ store'.active.item = store.active.item
  /\ store.completed \subseteq store'.completed
  /\ NextKept

LEMMA SameGoesOn ==
  ASSUME store \in Documents, store' \in Documents, Placed(store),
         store'.queue.ids = store.queue.ids, store'.queue.index = store.queue.index,
         store'.active.item = store.active.item, store.completed \subseteq store'.completed,
         store'.completed \subseteq store.completed \union {store.active.item}
  PROVE  GoesOn
<1>1. NextPlace(store') = NextPlace(store) BY SameNext
<1>2. NextKept BY <1>1 DEF NextKept, HasNext, NextItem
<1> QED BY <1>2 DEF GoesOn, QueueKept, Placed

\* The session goes on, and the device is told nothing.
TurnsOn(rest) == GoesOn /\ store'.prepared \in {store.prepared, NoItem} /\ NoDirective(rest)

\* The prepared item is the session's from now on.
MovesOn(e, rest) ==
  /\ e.kind = "started" /\ e.token = store.prepared /\ e.token # store.active.item
  /\ store'.active.item = e.token /\ store'.prepared = NoItem
  /\ store'.queue = AtContent(store.queue, e.token) /\ store'.completed = store.completed
  /\ NoDirective(rest)

\* The item that comes next is prepared, and the device told of it.
Prefetches(e, rest) ==
  /\ GoesOn /\ store' \in Documents /\ Placed(store') /\ e.token = store.active.item
  /\ HasNext(store') /\ store'.prepared = NextItem(store')
  /\ EnqueueDirective(store'.prepared, e.token, rest)

LEMMA StartedTurns ==
  ASSUME TypeOK, NEW e \in Events, NEW rest, Placed(store), PlaybackStarted(e, rest)
  PROVE  TurnsOn(rest) \/ MovesOn(e, rest)
<1>0. /\ store.active \in Sessions /\ e.token \in Items /\ e.offset \in 0 .. Duration
      /\ "playing" \in Statuses /\ e.time \in 0 .. now /\ store \in Documents
  BY EventTyped
<1>1. NoDirective(rest) /\ e.kind = "started" BY DEF PlaybackStarted
<1>2. store' \in Documents BY StartedSeen DEF EventSeen
<1>3. CASE e.token = store.active.item
  <2> DEFINE o == Observed(store.active, e, "playing", e.offset)
  <2>1. o.item = store.active.item BY <1>0, ObservedTyped
  <2>2. store' = [store EXCEPT !.active = o] BY <1>3 DEF PlaybackStarted
  <2> HIDE DEF o
  <2>3. /\ store'.active = o /\ store'.queue = store.queue
        /\ store'.completed = store.completed /\ store'.prepared = store.prepared
    BY <1>0, <2>2 DEF Documents
  <2>4. GoesOn BY <1>0, <1>2, <2>1, <2>3, SameGoesOn
  <2> QED BY <1>1, <2>3, <2>4 DEF TurnsOn
<1>4. CASE e.token # store.active.item
  <2> DEFINE s == Started(e.token, e.offset, e.time)
             o == Observed(s, e, "playing", e.offset)
             q == AtContent(store.queue, e.token)
  <2>1. s \in Sessions /\ s.item = e.token BY <1>0, StartedTyped
  <2>2. /\ store' = [store EXCEPT !.active = o, !.queue = q, !.prepared = NoItem]
        /\ e.token = store.prepared
    BY <1>4 DEF PlaybackStarted
  <2> HIDE DEF s
  <2>3. o.item = e.token BY <1>0, <2>1, ObservedTyped
  <2> HIDE DEF o, q
  <2>4. /\ store'.active = o /\ store'.queue = q /\ store'.prepared = NoItem
        /\ store'.completed = store.completed
    BY <1>0, <2>2 DEF Documents
  <2> QED BY <1>1, <1>4, <2>2, <2>3, <2>4 DEF MovesOn, q
<1> QED BY <1>3, <1>4

\* A handler that observes, and at most forgets what is prepared.
LEMMA ObservationTurns ==
  ASSUME TypeOK, NEW e \in Events, NEW rest, Placed(store), NoDirective(rest),
         NEW status \in Statuses, NEW offset \in 0 .. Duration,
         NEW p \in {store.prepared, NoItem},
         store' = [store EXCEPT !.active = Observed(@, e, status, offset), !.prepared = p]
  PROVE  TurnsOn(rest)
<1> DEFINE o == Observed(store.active, e, status, offset)
<1>0. /\ store.active \in Sessions /\ store \in Documents
      /\ p \in Items \union {NoItem}
  BY EventTyped DEF Documents
<1>1. o \in Sessions /\ o.item = store.active.item BY <1>0, ObservedTyped
<1>2. store' = [store EXCEPT !.active = o, !.prepared = p] OBVIOUS
<1> HIDE DEF o
<1>3. /\ store'.active = o /\ store'.queue = store.queue /\ store' \in Documents
      /\ store'.completed = store.completed /\ store'.prepared = p
  BY <1>0, <1>1, <1>2 DEF Documents
<1>4. GoesOn BY <1>0, <1>1, <1>3, SameGoesOn
<1> QED BY <1>3, <1>4 DEF TurnsOn

LEMMA OtherTurns ==
  ASSUME TypeOK, NEW e \in Events, NEW rest, Placed(store),
         \/ PlaybackStopped(e, rest) \/ PlaybackFailed(e, rest) \/ PlaybackProgress(e, rest)
  PROVE  TurnsOn(rest)
<1>0. /\ store.active \in Sessions /\ e.offset \in 0 .. Duration /\ store \in Documents
      /\ store.active.offset \in 0 .. Duration
      /\ {"playing", "paused", "failed"} \subseteq Statuses
  BY EventTyped DEF Sessions, Statuses
<1>1. CASE PlaybackStopped(e, rest)
  <2>1. /\ store' = [store EXCEPT !.active = Observed(@, e, "paused", e.offset)]
        /\ NoDirective(rest)
    BY <1>1 DEF PlaybackStopped
  <2>2. store' = [store EXCEPT !.active = Observed(@, e, "paused", e.offset),
                               !.prepared = store.prepared]
    BY <1>0, <2>1 DEF Documents
  <2>3. store.prepared \in {store.prepared, NoItem} OBVIOUS
  <2>4. NoDirective(rest) BY <2>1
  <2> QED BY <1>0, <2>2, <2>3, <2>4, ObservationTurns
<1>2. CASE PlaybackFailed(e, rest)
  <2>1. /\ store' = [store EXCEPT !.active = Observed(@, e, "failed", @.offset),
                                  !.prepared = NoItem]
        /\ NoDirective(rest)
    BY <1>2 DEF PlaybackFailed
  <2>2. store' = [store EXCEPT !.active = Observed(@, e, "failed", store.active.offset),
                               !.prepared = NoItem]
    BY <1>0, <2>1 DEF Documents
  <2> QED BY <1>0, <2>1, <2>2, ObservationTurns
<1>3. CASE PlaybackProgress(e, rest)
  <2>1. /\ store' = [store EXCEPT !.active = Observed(@, e, "playing", e.offset)]
        /\ NoDirective(rest)
    BY <1>3 DEF PlaybackProgress
  <2>2. store' = [store EXCEPT !.active = Observed(@, e, "playing", e.offset),
                               !.prepared = store.prepared]
    BY <1>0, <2>1 DEF Documents
  <2>3. store.prepared \in {store.prepared, NoItem} OBVIOUS
  <2>4. NoDirective(rest) BY <2>1
  <2> QED BY <1>0, <2>2, <2>3, <2>4, ObservationTurns
<1> QED BY <1>1, <1>2, <1>3

LEMMA FinishedTurns ==
  ASSUME TypeOK, NEW e \in Events, NEW rest, Placed(store), PlaybackFinished(e, rest)
  PROVE  TurnsOn(rest)
<1> DEFINE o == Observed(store.active, e, "completed", e.offset)
           c == PlayedOut(o)
           q == AtContent(store.queue, e.token)
<1>0. /\ store.active \in Sessions /\ store \in Documents /\ e.offset \in 0 .. Duration
      /\ "completed" \in Statuses /\ e.token = store.active.item /\ NoDirective(rest)
      /\ store.queue \in Queues
  BY EventTyped DEF Statuses, PlaybackFinished
<1>1. o \in Sessions /\ o.item = e.token BY <1>0, ObservedTyped
<1>2. store' = [store EXCEPT !.active = c, !.queue = q, !.completed = @ \union {e.token}]
  BY DEF PlaybackFinished
<1>3. q.ids = store.queue.ids /\ q.index = store.queue.index
  <2>1. InQueue(store.queue, e.token) BY <1>0 DEF Placed, InQueue
  <2>2. q.ids = store.queue.ids /\ q.index \in DOMAIN q.ids /\ q.ids[q.index] = e.token
    BY <1>0, <2>1, AtContentKeeps
  <2> HIDE DEF q
  <2>3. q.index = store.queue.index BY <1>0, <2>2 DEF Placed, Distinct
  <2> QED BY <2>2, <2>3
<1> HIDE DEF o, q
<1>4. c.item = e.token BY <1>1 DEF Sessions, PlayedOut
<1> HIDE DEF c
<1>5. /\ store'.active = c /\ store'.queue = q /\ store'.prepared = store.prepared
      /\ store'.completed = store.completed \union {e.token}
  BY <1>0, <1>2 DEF Documents
<1>6. store' \in Documents BY FinishedSeen DEF EventSeen
<1>7. GoesOn BY <1>0, <1>3, <1>4, <1>5, <1>6, SameGoesOn
<1> QED BY <1>0, <1>5, <1>7 DEF TurnsOn

\* A queue that grows keeps every item in one place.
LEMMA GrownPlaced ==
  ASSUME NEW s \in Documents, NEW t \in Documents, Placed(s), t = WithNextPage(s)
  PROVE  Placed(t)
<1>1. /\ t.queue.index = s.queue.index /\ t.active = s.active
      /\ DOMAIN s.queue.ids \subseteq DOMAIN t.queue.ids
      /\ \A k \in DOMAIN s.queue.ids : t.queue.ids[k] = s.queue.ids[k]
  BY NextPageAppends
<1>2. Distinct(t.queue.ids) BY NextPageDistinct DEF Placed
<1> QED BY <1>1, <1>2 DEF Placed

LEMMA NearlyFinishedTurns ==
  ASSUME TypeOK, NEW e \in Events, NEW rest, NEW loads, NEW finds, Placed(store),
         PlaybackNearlyFinished(e, rest, loads, finds)
  PROVE  TurnsOn(rest) \/ Prefetches(e, rest)
<1> DEFINE offset == IF e.offset = 0 THEN store.active.offset ELSE e.offset
           o == Observed(store.active, e, "playing", offset)
           seen == [store EXCEPT !.active = o]
           atEnd == ~HasNext(seen)
           with == IF atEnd /\ loads THEN WithNextPage(seen) ELSE seen
           found == HasNext(with)
<1>0. /\ store.active \in Sessions /\ store.queue \in Queues /\ e.token \in Items
      /\ "playing" \in Statuses /\ offset \in 0 .. Duration
      /\ store \in Documents /\ store.active.item = e.token
  BY EventTyped DEF Sessions, PlaybackNearlyFinished
<1>1. o \in Sessions /\ o.item = store.active.item
  BY <1>0, ObservedTyped
<1>2. IF found /\ NextItem(with) # store.prepared /\ finds
        THEN /\ store' = [with EXCEPT !.prepared = NextItem(with)]
             /\ EnqueueDirective(NextItem(with), e.token, rest)
        ELSE store' = with /\ NoDirective(rest)
  BY DEF PlaybackNearlyFinished, HasNext, NextItem, NextPlace
<1>3. /\ seen \in Documents /\ seen.active = o /\ seen.queue = store.queue
      /\ seen.completed = store.completed /\ seen.prepared = store.prepared
  <2> HIDE DEF o
  <2>1. seen \in Documents BY <1>0, <1>1 DEF Documents
  <2> QED BY <1>0, <2>1 DEF Documents
<1> HIDE DEF o, seen, offset
<1>4. Placed(seen) /\ NextPlace(seen) = NextPlace(store)
  BY <1>0, <1>1, <1>3, SameNext
<1>5. /\ with \in Documents /\ Placed(with) /\ QueueKept(with.queue)
      /\ with.queue.index = store.queue.index /\ with.active.item = store.active.item
      /\ with.completed = store.completed /\ with.prepared = store.prepared
      /\ HasNext(store) => with = seen
  <2>1. CASE atEnd /\ loads
    <3>1. ~HasNext(store) BY <1>3, <1>4, <2>1 DEF HasNext
    <3>2. with = WithNextPage(seen) BY <2>1
    <3> HIDE DEF with
    <3>3. with \in Documents BY <1>3, <3>2, NextPageAppends
    <3>4. Placed(with) BY <1>3, <1>4, <3>2, <3>3, GrownPlaced
    <3>5. /\ with.queue.index = seen.queue.index /\ with.active = seen.active
          /\ with.completed = seen.completed /\ with.prepared = seen.prepared
          /\ DOMAIN seen.queue.ids \subseteq DOMAIN with.queue.ids
          /\ \A k \in DOMAIN seen.queue.ids : with.queue.ids[k] = seen.queue.ids[k]
      BY <1>3, <3>2, NextPageAppends
    <3> QED BY <1>1, <1>3, <3>1, <3>3, <3>4, <3>5 DEF QueueKept
  <2>2. CASE ~(atEnd /\ loads) BY <1>1, <1>3, <1>4, <2>2 DEF QueueKept
  <2> QED BY <2>1, <2>2
<1>6. HasNext(store) => HasNext(with) /\ NextItem(with) = NextItem(store)
  BY <1>3, <1>4, <1>5 DEF HasNext, NextItem
<1> HIDE DEF with
<1>7. CASE store' = with /\ NoDirective(rest)
  BY <1>5, <1>6, <1>7 DEF TurnsOn, GoesOn, NextKept, Placed
<1>8. CASE /\ found /\ store' = [with EXCEPT !.prepared = NextItem(with)]
           /\ EnqueueDirective(NextItem(with), e.token, rest)
  <2>1. /\ store'.active = with.active /\ store'.queue = with.queue
        /\ store'.completed = with.completed /\ store'.prepared = NextItem(with)
    BY <1>5, <1>8 DEF Documents
  <2>2. store' \in Documents BY NearlyFinishedSeen DEF EventSeen
  <2>3. Placed(store') /\ NextPlace(store') = NextPlace(with)
    BY <1>5, <2>1, <2>2, SameNext
  <2>4. HasNext(store') /\ NextItem(store') = NextItem(with)
    BY <1>8, <2>1, <2>3 DEF HasNext, NextItem
  <2>5. QueueKept(store'.queue) BY <1>5, <2>1
  <2>6. GoesOn BY <1>5, <1>6, <2>1, <2>3, <2>4, <2>5 DEF GoesOn, NextKept, Placed
  <2> QED BY <1>0, <1>8, <2>1, <2>2, <2>3, <2>4, <2>6 DEF Prefetches
<1> QED BY <1>2, <1>7, <1>8

\* What becomes of an event.
Turns(e, rest) ==
  \/ store' = store /\ NoDirective(rest)
  \/ /\ Applies(e) /\ EventSeen(e)
     /\ TurnsOn(rest) \/ MovesOn(e, rest) \/ Prefetches(e, rest)

LEMMA HandleTurns ==
  ASSUME TypeOK, NEW e \in Events, NEW rest, Placed(store), Handle(e, rest)
  PROVE  Turns(e, rest)
<1>1. CASE Applies(e) /\ Apply(e, rest)
  <2>1. CASE PlaybackNearlyFinished(e, rest, TRUE, TRUE)
    BY <1>1, <2>1, NearlyFinishedSeen, NearlyFinishedTurns DEF Turns
  <2>2. CASE PlaybackStarted(e, rest)
    BY <1>1, <2>2, StartedSeen, StartedTurns DEF Turns
  <2>3. CASE PlaybackFinished(e, rest)
    BY <1>1, <2>3, FinishedSeen, FinishedTurns DEF Turns
  <2>4. CASE PlaybackStopped(e, rest) \/ PlaybackFailed(e, rest) \/ PlaybackProgress(e, rest)
    <3>1. EventSeen(e) BY <2>4, StoppedSeen, FailedSeen, ProgressSeen
    <3>2. TurnsOn(rest) BY <2>4, OtherTurns
    <3> QED BY <1>1, <3>1, <3>2 DEF Turns
  <2> QED BY <1>1, <2>1, <2>2, <2>3, <2>4 DEF Apply
<1>2. CASE Reject(e, rest) BY <1>2 DEF Reject, Turns
<1> QED BY <1>1, <1>2 DEF Handle

\* A step of the network turns one event, and leaves others.
LEMMA NetworkTurns ==
  ASSUME TypeInv, Placed(store), Network
  PROVE  /\ now' = now /\ ended' = ended /\ disorder \subseteq disorder'
         /\ \E j \in DOMAIN mail : \E rest : Rest(rest) /\ Turns(mail[j], rest)
<1>1. /\ TypeOK /\ Rest(mail) /\ \A k \in DOMAIN mail : mail[k] \in Events
      /\ mail # <<>> => Rest(Tail(mail)) /\ Head(mail) = mail[1] /\ 1 \in DOMAIN mail
  BY MailRests DEF TypeInv
<1>2. now' = now /\ ended' = ended /\ disorder \subseteq disorder' /\ mail # <<>>
  BY NetworkStep DEF TypeInv, Quiescent
<1>3. CASE Deliver
  <2>1. Handle(mail[1], Tail(mail)) BY <1>1, <1>2, <1>3 DEF Deliver
  <2> QED BY <1>1, <1>2, <2>1, HandleTurns
<1>4. CASE DeliverEarly
  <2>1. PICK k \in DOMAIN mail : Handle(mail[k], Without(k)) BY <1>4 DEF DeliverEarly
  <2>2. Rest(Without(k)) BY <1>1, WithoutRests
  <2> QED BY <1>1, <1>2, <2>1, <2>2, HandleTurns
<1>5. CASE DeliverAndRepeat
  <2>1. Handle(mail[1], mail) BY <1>1, <1>2, <1>5 DEF DeliverAndRepeat
  <2> QED BY <1>1, <1>2, <2>1, HandleTurns
<1>6. CASE Lose
  <2>1. store' = store /\ NoDirective(Tail(mail)) BY <1>6 DEF Lose, NoDirective
  <2> QED BY <1>1, <1>2, <2>1 DEF Turns
<1>7. CASE DeliverInVain
  <2>1. PICK loads \in BOOLEAN, finds \in BOOLEAN :
          PlaybackNearlyFinished(mail[1], Tail(mail), loads, finds)
    BY <1>1, <1>2, <1>7 DEF DeliverInVain
  <2>2. Applies(mail[1]) BY <1>1, <1>2, <1>7 DEF DeliverInVain
  <2> QED BY <1>1, <1>2, <2>1, <2>2, NearlyFinishedSeen, NearlyFinishedTurns DEF Turns
<1> QED BY <1>3, <1>4, <1>5, <1>6, <1>7 DEF Network

\* What lies ahead stays ahead.
LEMMA AheadKept ==
  ASSUME TypeOK, QueueKept(store'.queue), store'.queue.index = store.queue.index,
         NEW i, NEW passed, NEW more, passed \subseteq more, Ahead(store, i, passed)
  PROVE  Ahead(store', i, more)
<1>1. /\ store.queue.index \in Nat /\ store.queue.ids \in Seq(Items)
  BY DEF TypeOK, Documents, Queues
<1>2. DOMAIN store.queue.ids = 1 .. Len(store.queue.ids) /\ Len(store.queue.ids) \in Nat
  BY <1>1, LenProperties
<1>3. PICK to \in DOMAIN store.queue.ids :
        /\ store.queue.index < to /\ store.queue.ids[to] = i
        /\ \A k \in store.queue.index + 1 .. to - 1 : store.queue.ids[k] \in passed
  BY DEF Ahead
<1>4. ASSUME NEW k \in store'.queue.index + 1 .. to - 1 PROVE store'.queue.ids[k] \in more
  <2>1. k \in DOMAIN store.queue.ids BY <1>1, <1>2, <1>3
  <2> QED BY <1>3, <2>1 DEF QueueKept
<1>5. to \in DOMAIN store'.queue.ids /\ store'.queue.ids[to] = i
  BY <1>3 DEF QueueKept
<1> QED BY <1>3, <1>4, <1>5 DEF Ahead

LEMMA SkipPrimes ==
  /\ HasNext(store)' <=> HasNext(store')
  /\ NextItem(store)' = NextItem(store')
  /\ Ahead(store, store.prepared, ended)' <=> Ahead(store', store'.prepared, ended')
  /\ Ahead(store, store.prepared, ended \union {player.token})'
       <=> Ahead(store', store'.prepared, ended' \union {player'.token})
  /\ Distinct(store.queue.ids)' <=> Distinct(store'.queue.ids)
BY DEF HasNext, NextItem, NextPlace, NextUnfinished, FinishedIds, IsFinished, Smallest,
       Ahead, Distinct

\* The session goes on, and nothing starts but its own item.
LEMMA SkipKept ==
  ASSUME TypeInv, TypeInv', SkipInv, GoesOn, store'.prepared \in {store.prepared, NoItem},
         store'.active.eventTime >= store.active.eventTime,
         ended \subseteq ended', disorder \subseteq disorder',
         \/ player'.upcoming = NoItem
         \/ player'.upcoming = player.upcoming /\ player'.token = player.token,
         \A k \in DOMAIN mail' :
           \/ Old(mail'[k]) \/ mail'[k].kind # "started"
           \/ mail'[k].token = store.active.item
  PROVE  SkipInv'
<1>0. /\ TypeOK /\ NoItem \notin Items /\ store.active.eventTime \in Nat
      /\ store'.active.eventTime \in Nat
  <2>1. TypeOK /\ TypeOK' /\ NoItem \notin Items BY PlaybackAssumption DEF TypeInv
  <2>2. store.active.eventTime \in Nat BY <2>1 DEF TypeOK, Documents, Sessions
  <2>3. store'.active \in Sessions' BY <2>1 DEF TypeOK, Documents
  <2>4. store'.active.eventTime \in Nat BY <2>3 DEF Sessions
  <2> QED BY <2>1, <2>2, <2>4
<1>1. \A k \in DOMAIN mail' : mail'[k].token \in Items /\ mail'[k].time \in Nat
  <2>1. mail' \in Seq(Events') BY DEF TypeInv, TypeOK
  <2>2. \A k \in DOMAIN mail' : mail'[k] \in Events'
    BY <2>1, LenProperties, ElementOfSeq
  <2> QED BY <2>2 DEF Events
<1>2. \A i, passed, more :
        passed \subseteq more /\ Ahead(store, i, passed) => Ahead(store', i, more)
  BY <1>0, AheadKept DEF GoesOn
<1>3. ASSUME store'.prepared # store'.active.item, NEW k \in DOMAIN mail',
             mail'[k].kind = "started", mail'[k].token = store'.prepared,
             mail'[k].time >= store'.active.eventTime
      PROVE  Ahead(store', store'.prepared, ended')
  <2>1. store'.prepared = store.prepared /\ store'.active.item = store.active.item
    BY <1>0, <1>1, <1>3 DEF GoesOn
  <2>2. Old(mail'[k]) BY <1>3, <2>1
  <2>3. PICK j \in DOMAIN mail : mail'[k] = mail[j] BY <2>2 DEF Old
  <2>4. mail[j].time >= store.active.eventTime BY <1>0, <1>1, <1>3, <2>3
  <2>5. Ahead(store, store.prepared, ended)
    BY <1>3, <2>1, <2>3, <2>4 DEF SkipInv, StartsAhead
  <2> QED BY <1>2, <2>1, <2>5
<1>4. ASSUME player'.upcoming = store'.prepared,
             store'.prepared \notin {NoItem, store'.active.item}
      PROVE  Ahead(store', store'.prepared, ended' \union {player'.token})
  <2>1. /\ store'.prepared = store.prepared /\ player'.upcoming = player.upcoming
        /\ player'.token = player.token /\ store'.active.item = store.active.item
    BY <1>4 DEF GoesOn
  <2>2. Ahead(store, store.prepared, ended \union {player.token})
    BY <1>4, <2>1 DEF SkipInv, StartsAhead
  <2> QED BY <1>2, <2>1, <2>2
<1>5. StartsAhead' BY <1>3, <1>4, SkipPrimes DEF StartsAhead
<1>6. ASSUME player'.upcoming # NoItem, "unanswered" \notin disorder'
      PROVE  \/ /\ store'.active.item = player'.token
                /\ HasNext(store') /\ NextItem(store') = player'.upcoming
                /\ store'.prepared \in {NoItem, player'.upcoming}
             \/ /\ store'.prepared # player'.upcoming
                /\ \E to \in DOMAIN store'.queue.ids :
                     to <= store'.queue.index /\ store'.queue.ids[to] = player'.upcoming
  <2>1. /\ player'.upcoming = player.upcoming /\ player'.token = player.token
        /\ "unanswered" \notin disorder
    BY <1>6
  <2>2. CASE /\ store.active.item = player.token
             /\ HasNext(store) /\ NextItem(store) = player.upcoming
             /\ store.prepared \in {NoItem, player.upcoming}
    BY <2>1, <2>2 DEF GoesOn, NextKept
  <2>3. CASE /\ store.prepared # player.upcoming
             /\ \E to \in DOMAIN store.queue.ids :
                  to <= store.queue.index /\ store.queue.ids[to] = player.upcoming
    <3>1. PICK to \in DOMAIN store.queue.ids :
            to <= store.queue.index /\ store.queue.ids[to] = player.upcoming
      BY <2>3
    <3>2. to \in DOMAIN store'.queue.ids /\ store'.queue.ids[to] = player.upcoming
          /\ to <= store'.queue.index
      BY <3>1 DEF GoesOn, QueueKept
    <3>3. store'.prepared # player'.upcoming BY <1>6, <2>1, <2>3
    <3> QED BY <2>1, <3>2, <3>3
  <2> QED BY <1>6, <2>1, <2>2, <2>3 DEF SkipInv, HandedNext
<1>7. HandedNext' BY <1>6, SkipPrimes DEF HandedNext
<1> QED BY <1>5, <1>7, SkipPrimes DEF SkipInv, GoesOn

LEMMA SameStoreGoesOn ==
  ASSUME SkipInv, store' = store PROVE GoesOn
BY DEF SkipInv, GoesOn, QueueKept, NextKept

\* The session goes on from what it was before the event.
LEMMA SkipTurnedOn ==
  ASSUME TypeInv, TypeInv', SkipInv, now' = now, ended' = ended, disorder \subseteq disorder',
         NEW rest, Rest(rest), NoDirective(rest), GoesOn,
         store'.prepared \in {store.prepared, NoItem},
         store'.active.eventTime >= store.active.eventTime
  PROVE  SkipInv'
<1>1. player' = player /\ \A k \in DOMAIN mail' : Old(mail'[k])
  BY NoDirectiveStep DEF TypeInv
<1> QED BY <1>1, SkipKept

\* The session moves on to the item it has prepared.
LEMMA SkipMovedOn ==
  ASSUME TypeInv, TypeInv', SkipInv, Placed(store), HasSession, now' = now,
         disorder \subseteq disorder', NEW j \in DOMAIN mail, NEW rest, Rest(rest),
         Applies(mail[j]), MovesOn(mail[j], rest)
  PROVE  SkipInv'
<1> DEFINE e == mail[j]
           q == AtContent(store.queue, e.token)
           ids == store.queue.ids
<1>1. /\ TypeOK /\ e \in Events /\ e.token \in Items /\ NoItem \notin Items
      /\ store.queue \in Queues /\ ids \in Seq(Items) /\ store.queue.index \in Nat
  <2>1. TypeOK /\ e \in Events BY MailRests DEF TypeInv
  <2> QED BY <2>1, PlaybackAssumption DEF Events, TypeOK, Documents, Queues
<1>2. /\ e.kind = "started" /\ e.token = store.prepared /\ e.token # store.active.item
      /\ store'.active.item = e.token /\ store'.prepared = NoItem
      /\ store'.queue = q /\ NoDirective(rest)
  BY DEF MovesOn
<1>3. e.time >= store.active.eventTime
  <2>1. AcceptsEvent(store.active, e) BY DEF Applies
  <2>2. e.time \in Nat /\ store.active.eventTime \in Nat
    <3>1. e.time \in 1 .. now /\ now \in Nat BY <1>1 DEF Events, TypeOK
    <3>2. store.active.eventTime \in Nat BY <1>1 DEF TypeOK, Documents, Sessions
    <3> QED BY <3>1, <3>2
  <2> HIDE DEF e
  <2> QED BY <2>1, <2>2 DEF AcceptsEvent, HasSession
<1>4. Ahead(store, e.token, ended) BY <1>2, <1>3 DEF SkipInv, StartsAhead
<1>5. PICK to \in DOMAIN ids : store.queue.index < to /\ ids[to] = e.token
  BY <1>4 DEF Ahead
<1>6. Distinct(ids) BY DEF SkipInv
<1>7. q.ids = ids /\ q.index = to /\ to \in Nat
  <2>1. InQueue(store.queue, e.token) BY <1>5 DEF InQueue
  <2>2. q.ids = ids /\ q.index \in DOMAIN ids /\ ids[q.index] = e.token
    BY <1>1, <2>1, AtContentKeeps
  <2>3. DOMAIN ids \subseteq Nat BY <1>1, LenProperties
  <2> HIDE DEF q, ids
  <2> QED BY <1>5, <1>6, <2>2, <2>3 DEF Distinct
<1> HIDE DEF q
<1>8. player' = player BY <1>2 DEF NoDirective
<1>9. StartsAhead'
  <2>1. mail' \in Seq(Events') BY DEF TypeInv, TypeOK
  <2>2. \A k \in DOMAIN mail' : mail'[k] \in Events'
    BY <2>1, LenProperties, ElementOfSeq
  <2>3. \A k \in DOMAIN mail' : mail'[k].token # NoItem BY <1>1, <2>2 DEF Events
  <2> QED BY <1>2, <2>3 DEF StartsAhead
<1>10. ASSUME player'.upcoming # NoItem, "unanswered" \notin disorder'
       PROVE  /\ store'.prepared # player'.upcoming
              /\ \E t \in DOMAIN store'.queue.ids :
                   t <= store'.queue.index /\ store'.queue.ids[t] = player'.upcoming
  <2>1. "unanswered" \notin disorder /\ player.upcoming # NoItem BY <1>8, <1>10
  <2>2. \E t \in DOMAIN ids : t <= to /\ ids[t] = player.upcoming
    <3>1. CASE store.prepared \in {NoItem, player.upcoming}
      <4>1. ids[to] = player.upcoming /\ to <= to BY <1>1, <1>2, <1>5, <1>7, <3>1
      <4> QED BY <4>1
    <3>2. CASE store.prepared \notin {NoItem, player.upcoming}
      <4>1. PICK t \in DOMAIN ids : t <= store.queue.index /\ ids[t] = player.upcoming
        BY <2>1, <3>2 DEF SkipInv, HandedNext
      <4>2. DOMAIN ids \subseteq Nat BY <1>1, LenProperties
      <4>3. t <= to BY <1>1, <1>5, <1>7, <4>1, <4>2
      <4> QED BY <4>1, <4>3
    <3> QED BY <3>1, <3>2
  <2> QED BY <1>2, <1>7, <1>8, <1>10, <2>2
<1>11. HandedNext' BY <1>10, SkipPrimes DEF HandedNext
<1>12. Distinct(store.queue.ids)' BY <1>2, <1>6, <1>7, SkipPrimes
<1> QED BY <1>9, <1>11, <1>12 DEF SkipInv

\* The next item is prepared and handed to the device.
LEMMA SkipPrefetched ==
  ASSUME TypeInv, TypeInv', EndWasHeard', SkipInv, now' = now, disorder \subseteq disorder',
         NEW e \in Events, NEW rest, Prefetches(e, rest)
  PROVE  SkipInv'
<1> DEFINE i == store'.prepared
           ids == store'.queue.ids
<1>1. /\ GoesOn /\ Placed(store') /\ e.token = store.active.item
      /\ HasNext(store') /\ i = NextItem(store') /\ EnqueueDirective(i, e.token, rest)
      /\ store'.active.item = store.active.item
  BY DEF Prefetches, GoesOn
<1>2. store' \in Documents BY DEF Prefetches
<1>3. ids \in Seq(Items) /\ store'.queue.index \in Nat /\ player \in Players
  BY <1>2 DEF Documents, Queues, TypeInv, TypeOK
<1>4. DOMAIN ids \subseteq Nat BY <1>3, LenProperties
<1>5. /\ NextPlace(store') > store'.queue.index /\ i # store'.active.item
      /\ \A passed : store'.completed \subseteq passed => Ahead(store', i, passed)
  BY <1>1, <1>2, NextAhead
<1>6. store'.completed \subseteq ended'
  BY DEF EndWasHeard, FinishedWasHeard, FinishedIds
<1>7. StartsAhead' BY <1>5, <1>6, SkipPrimes DEF StartsAhead
<1>8. HandedNext'
  <2>1. CASE player'.upcoming = NoItem BY <2>1 DEF HandedNext
  <2>2. CASE player' = player
    <3>1. ASSUME player.upcoming # NoItem, "unanswered" \notin disorder'
          PROVE  \/ /\ store'.active.item = player.token
                    /\ HasNext(store') /\ NextItem(store') = player.upcoming
                    /\ i \in {NoItem, player.upcoming}
                 \/ /\ i # player.upcoming
                    /\ \E to \in DOMAIN ids :
                         to <= store'.queue.index /\ ids[to] = player.upcoming
      <4>1. CASE /\ store.active.item = player.token
                 /\ HasNext(store) /\ NextItem(store) = player.upcoming
        BY <1>1, <4>1 DEF GoesOn, NextKept
      <4>2. CASE \E to \in DOMAIN store.queue.ids :
                   to <= store.queue.index /\ store.queue.ids[to] = player.upcoming
        <5>1. PICK to \in DOMAIN store.queue.ids :
                to <= store.queue.index /\ store.queue.ids[to] = player.upcoming
          BY <4>2
        <5>2. to \in DOMAIN ids /\ ids[to] = player.upcoming /\ to <= store'.queue.index
          BY <1>1, <5>1 DEF GoesOn, QueueKept
        <5>3. i = ids[NextPlace(store')] /\ NextPlace(store') \in DOMAIN ids
          BY <1>1 DEF NextItem, HasNext
        <5>4. NextPlace(store') # to BY <1>3, <1>4, <1>5, <5>2, <5>3
        <5>5. i # player.upcoming BY <1>1, <5>2, <5>3, <5>4 DEF Placed, Distinct
        <5> QED BY <5>2, <5>5
      <4> QED BY <3>1, <4>1, <4>2 DEF SkipInv, HandedNext
    <3> QED BY <2>2, <3>1, SkipPrimes DEF HandedNext
  <2>3. CASE player.token = e.token /\ player' = [player EXCEPT !.upcoming = i]
    <3>1. player'.token = player.token /\ player'.upcoming = i BY <1>3, <2>3 DEF Players
    <3> QED BY <1>1, <2>3, <3>1, SkipPrimes DEF HandedNext
  <2>4. CASE player' = Streaming(i, 0) BY <2>1, <2>4 DEF Streaming
  <2> QED BY <1>1, <2>2, <2>3, <2>4 DEF EnqueueDirective, NoDirective
<1>9. Distinct(store.queue.ids)' BY <1>1, SkipPrimes DEF GoesOn
<1> QED BY <1>7, <1>8, <1>9 DEF SkipInv

LEMMA SkipByNetwork ==
  ASSUME TypeInv, TypeInv', EndWasHeard', CursorInv, SkipInv, Network PROVE SkipInv'
<1>1. mail # <<>> BY NetworkStep DEF TypeInv
<1>2. HasSession BY <1>1 DEF CursorInv, SilentBeforeSearch
<1>3. Placed(store) BY <1>2 DEF CursorInv, CursorInQueue, SkipInv, Placed
<1>4. now' = now /\ ended' = ended /\ disorder \subseteq disorder' BY <1>3, NetworkTurns
<1>5. PICK j \in DOMAIN mail : \E rest : Rest(rest) /\ Turns(mail[j], rest)
  BY <1>3, NetworkTurns
<1>6. PICK rest : Rest(rest) /\ Turns(mail[j], rest) BY <1>5
<1>7. CASE store' = store /\ NoDirective(rest)
  <2>1. GoesOn BY <1>7, SameStoreGoesOn
  <2>2. store'.active.eventTime >= store.active.eventTime
    <3>1. store.active.eventTime \in Nat BY DEF TypeInv, TypeOK, Documents, Sessions
    <3> QED BY <1>7, <3>1
  <2> QED BY <1>4, <1>6, <1>7, <2>1, <2>2, SkipTurnedOn
<1>8. CASE Applies(mail[j]) /\ TurnsOn(rest) /\ EventSeen(mail[j])
  <2>1. mail[j] \in Events BY MailRests DEF TypeInv
  <2>2. AcceptsEvent(store.active, mail[j]) BY <1>8 DEF Applies
  <2>3. store'.active.eventTime >= store.active.eventTime
    <3> DEFINE e == mail[j]
    <3>1. e.time \in 1 .. now /\ now \in Nat BY <2>1 DEF Events, TypeInv, TypeOK
    <3>2. store.active.eventTime \in Nat BY DEF TypeInv, TypeOK, Documents, Sessions
    <3>3. store'.active.eventTime = e.time BY <1>8 DEF EventSeen
    <3> HIDE DEF e
    <3>4. e.time >= store.active.eventTime
      BY <1>2, <2>2, <3>1, <3>2 DEF AcceptsEvent, HasSession, e
    <3> QED BY <3>3, <3>4
  <2> QED BY <1>4, <1>6, <1>8, <2>3, SkipTurnedOn DEF TurnsOn
<1>9. CASE Applies(mail[j]) /\ MovesOn(mail[j], rest)
  BY <1>2, <1>3, <1>4, <1>6, <1>9, SkipMovedOn
<1>10. CASE Prefetches(mail[j], rest)
  <2>1. mail[j] \in Events BY MailRests DEF TypeInv
  <2> QED BY <1>4, <1>10, <2>1, SkipPrefetched
<1> QED BY <1>6, <1>7, <1>8, <1>9, <1>10 DEF Turns

LEMMA SkipByTick ==
  ASSUME TypeInv, TypeInv', SkipInv, Tick PROVE SkipInv'
<1>1. /\ store' = store /\ mail' = mail /\ disorder' = disorder /\ ended \subseteq ended'
      /\ player'.token = player.token /\ player'.upcoming = player.upcoming
  BY DEF Tick, TypeInv, TypeOK, Players
<1>2. GoesOn BY <1>1, SameStoreGoesOn
<1>3. store.active.eventTime \in Nat BY DEF TypeInv, TypeOK, Documents, Sessions
<1>4. \A k \in DOMAIN mail' : Old(mail'[k]) BY <1>1 DEF Old
<1> QED BY <1>1, <1>2, <1>3, <1>4, SkipKept

\* A stream that ends makes room for the one that the device was handed.
LEMMA SkipByDevice ==
  ASSUME TypeInv, TypeInv', EndWasHeard, SkipInv, NearlyFinish \/ Report \/ Finish \/ Fail
  PROVE  SkipInv'
<1>1. TypeOK /\ player \in Players BY DEF TypeInv, TypeOK
<1>2. Acted /\ disorder \subseteq disorder' BY <1>1, DeviceStep DEF TypeInv
<1>3. store' = store /\ ended' = ended BY <1>2 DEF Acted
<1>4. GoesOn BY <1>3, SameStoreGoesOn
<1>5. store.active.eventTime \in Nat BY DEF TypeInv, TypeOK, Documents, Sessions
<1>6. \A m : IsReport(m) => m.kind # "started" BY DEF IsReport
<1>7. CASE /\ player'.token = player.token /\ player'.upcoming = player.upcoming
           /\ \A k \in DOMAIN mail' : Old(mail'[k]) \/ IsReport(mail'[k])
  BY <1>2, <1>3, <1>4, <1>5, <1>6, <1>7, SkipKept
<1>8. CASE /\ player.upcoming \in Items /\ player' = Streaming(player.upcoming, 0)
           /\ \A k \in DOMAIN mail' :
                \/ Old(mail'[k]) \/ IsReport(mail'[k])
                \/ IsNew(mail'[k], <<"started", player.upcoming, 0>>)
  <2>1. player'.upcoming = NoItem /\ NoItem \notin Items
    BY <1>8, PlaybackAssumption DEF Streaming
  <2>2. Finish
    <3>1. NearlyFinish => player'.upcoming = player.upcoming
      BY <1>1 DEF NearlyFinish, Players
    <3>2. Report => player'.upcoming = player.upcoming BY DEF Report
    <3>3. Fail => player'.upcoming = player.upcoming BY <1>1 DEF Fail, Players
    <3> QED BY <1>8, <2>1, <3>1, <3>2, <3>3
  <2>3. player.token \in ended
    <3>1. player.activity = "PLAYING" /\ player.offset = Duration BY <2>2 DEF Finish
    <3>2. player.token \in Items BY <3>1 DEF TypeInv, PlaysSomething
    <3>3. Duration \in Nat BY PlaybackAssumption
    <3> QED BY <2>1, <3>1, <3>2, <3>3 DEF EndWasHeard
  <2>4. ASSUME store.prepared # store.active.item, NEW k \in DOMAIN mail',
               mail'[k].kind = "started", mail'[k].token = store.prepared,
               mail'[k].time >= store.active.eventTime
        PROVE  Ahead(store, store.prepared, ended)
    <3>1. CASE Old(mail'[k]) BY <2>4, <3>1 DEF Old, SkipInv, StartsAhead
    <3>2. CASE ~Old(mail'[k])
      <4>1. store.prepared = player.upcoming BY <1>6, <1>8, <2>4, <3>2 DEF IsNew
      <4>2. Ahead(store, store.prepared, ended \union {player.token})
        BY <1>8, <2>1, <2>4, <4>1 DEF SkipInv, StartsAhead
      <4>3. ended \union {player.token} = ended BY <2>3
      <4> QED BY <4>2, <4>3
    <3> QED BY <3>1, <3>2
  <2>5. StartsAhead' BY <1>3, <2>1, <2>4, SkipPrimes DEF StartsAhead
  <2>6. HandedNext' BY <2>1 DEF HandedNext
  <2> QED BY <1>3, <2>5, <2>6, SkipPrimes DEF SkipInv
<1> QED BY <1>2, <1>7, <1>8 DEF Acted

\* A command that stays with the session's item.
LEMMA SkipStayed ==
  ASSUME TypeInv, TypeInv', SkipInv, Spoken, Stayed, GoesOn,
         store'.prepared \in {store.prepared, NoItem}
  PROVE  SkipInv'
<1>1. /\ store'.active.eventTime = store.active.eventTime /\ store.active.eventTime \in Nat
      /\ ended' = ended /\ disorder \subseteq disorder'
  <2>1. store.active.eventTime \in Nat BY DEF TypeInv, TypeOK, Documents, Sessions
  <2> QED BY <2>1 DEF Stayed, Spoken
<1>2. \A m : IsStopped(m) => m.kind # "started" BY DEF IsStopped, IsNew
<1>3. CASE Undirected
  <2>1. /\ player'.upcoming = player.upcoming /\ player'.token = player.token
        /\ \A k \in DOMAIN mail' : Old(mail'[k]) \/ IsStopped(mail'[k])
    BY <1>3 DEF Undirected, TypeInv, TypeOK, Players
  <2> QED BY <1>1, <1>2, <2>1, SkipKept
<1>4. CASE Directed(store.active.item)
  <2>1. PICK offset \in 0 .. Duration :
          /\ IF Answered THEN player' = Streaming(store.active.item, offset)
                         ELSE player' = player
          /\ \A k \in DOMAIN mail' :
               \/ Old(mail'[k]) \/ IsStopped(mail'[k])
               \/ IsNew(mail'[k], <<"started", store.active.item, offset>>)
    BY <1>4 DEF Directed
  <2>2. \/ player'.upcoming = NoItem
        \/ player'.upcoming = player.upcoming /\ player'.token = player.token
    BY <2>1 DEF Streaming
  <2>3. \A k \in DOMAIN mail' :
          \/ Old(mail'[k]) \/ mail'[k].kind # "started" \/ mail'[k].token = store.active.item
    BY <1>2, <2>1 DEF IsNew
  <2> QED BY <1>1, <2>2, <2>3, SkipKept
<1> QED BY <1>3, <1>4 DEF Stayed

\* A command that starts the session of another item: what was started before is too
\* old for it, so only what the device still holds could be accepted.
LEMMA SkipRestarted ==
  ASSUME TypeInv, TypeInv', MailIsPast, Spoken, Distinct(store'.queue.ids),
         store'.active.eventTime = now, Directed(store'.active.item),
         player'.upcoming # NoItem =>
           /\ "unanswered" \in disorder'
           /\ player'.upcoming = store'.prepared /\ store'.prepared # store'.active.item
                => Ahead(store', store'.prepared, ended' \union {player'.token})
  PROVE  SkipInv'
<1>1. stamp \in Nat /\ now \in Nat /\ stamp < now BY DEF TypeInv, TypeOK, Spoken
<1>2. PICK offset \in 0 .. Duration :
        \A k \in DOMAIN mail' :
          \/ Old(mail'[k]) \/ IsStopped(mail'[k])
          \/ IsNew(mail'[k], <<"started", store'.active.item, offset>>)
  BY DEF Directed
<1>3. ASSUME store'.prepared # store'.active.item, NEW k \in DOMAIN mail',
             mail'[k].kind = "started", mail'[k].token = store'.prepared,
             mail'[k].time >= store'.active.eventTime
      PROVE  FALSE
  <2>1. CASE Old(mail'[k])
    <3>1. mail'[k].time <= stamp /\ mail'[k].time \in Nat BY <2>1, OldIsPast
    <3> QED BY <1>1, <1>3, <3>1
  <2>2. CASE ~Old(mail'[k]) BY <1>2, <1>3, <2>2 DEF IsStopped, IsNew
  <2> QED BY <2>1, <2>2
<1>4. StartsAhead' BY <1>3, SkipPrimes DEF StartsAhead
<1>5. HandedNext' BY DEF HandedNext
<1> QED BY <1>4, <1>5, SkipPrimes DEF SkipInv

LEMMA SkipByRestart ==
  ASSUME TypeInv, TypeInv', SkipInv, Placed(store), HasSession, Spoken,
         NEW offset \in 0 .. Duration, offset < Duration, Restart(offset)
  PROVE  SkipInv'
<1>1. TypeOK /\ now' = now BY DEF TypeInv, Spoken
<1>2. Stayed /\ Completed BY <1>1, RestartStep DEF TypeInv
<1>3. store \in Documents /\ store' \in Documents BY <1>1, <1>2 DEF TypeOK, Completed
<1>4. /\ store'.queue = store.queue /\ store'.completed = store.completed
      /\ store'.prepared = NoItem /\ store'.active.item = store.active.item
  <2>1. store' = [store EXCEPT !.prepared = NoItem, !.active.status = "starting",
                               !.active.offset = offset]
    BY DEF Restart
  <2> QED BY <1>3, <2>1 DEF Documents, Sessions
<1>5. GoesOn BY <1>3, <1>4, SameGoesOn
<1> QED BY <1>2, <1>4, <1>5, SkipStayed

LEMMA SkipByPause ==
  ASSUME TypeInv, TypeInv', SkipInv, HasSession => Placed(store), Spoken, Pause
  PROVE  SkipInv'
<1>1. TypeOK /\ now' = now BY DEF TypeInv, Spoken
<1>2. Stayed /\ Completed BY <1>1, PauseStep DEF TypeInv
<1>3. store \in Documents /\ store' \in Documents BY <1>1, <1>2 DEF TypeOK, Completed
<1>4. CASE store' = store
  <2>1. GoesOn BY <1>4, SameStoreGoesOn
  <2> QED BY <1>2, <1>4, <2>1, SkipStayed
<1>5. CASE store' # store
  <2>1. /\ HasSession
        /\ \/ store' = [store EXCEPT
                !.active = ObservedAt(@, "paused", "paused", player.offset, now)]
           \/ store' = [store EXCEPT !.active.status = "paused"]
    BY <1>5 DEF Pause
  <2>2. /\ store'.queue = store.queue /\ store'.completed = store.completed
        /\ store'.prepared = store.prepared /\ store'.active.item = store.active.item
    BY <1>2, <1>3, <2>1 DEF Documents, Stayed
  <2>3. GoesOn BY <1>3, <2>1, <2>2, SameGoesOn
  <2> QED BY <1>2, <2>2, <2>3, SkipStayed
<1> QED BY <1>4, <1>5

\* The answer to a search leaves the device nothing from the queue before.
LEMMA SkipByPlay ==
  ASSUME SearchesAnswered \/ Answered, TypeInv, TypeInv', CursorInv, SkipInv, Spoken, Play
  PROVE  SkipInv'
<1>1. TypeOK /\ PlaysSomething BY DEF TypeInv
<1>2. Searched /\ used.searches < MaxSearches BY <1>1, PlayStep
<1>3. /\ store'.queue.ids = Pages[1] /\ store'.active.eventTime = now
      /\ Directed(store'.active.item)
  BY <1>2 DEF Searched
<1>4. Distinct(Pages[1])
  <2>1. Pages \in Seq(Seq(Items)) /\ Pages # <<>> BY PlaybackAssumption
  <2>2. 1 \in DOMAIN Pages BY <2>1, EmptySeq, LenProperties
  <2> QED BY <2>2, PlaybackAssumption DEF Distinct
<1>5. player'.upcoming = NoItem
  <2>1. CASE Answered BY <1>3, <2>1 DEF Directed, Streaming
  <2>2. CASE ~Answered
    <3>1. used.searches \in Nat /\ MaxSearches \in Nat BY <1>1, InputsBound DEF TypeOK
    <3>2. used.searches = 0 BY <1>2, <2>2, <3>1 DEF SearchesAnswered, Spoken
    <3>3. player.upcoming = NoItem BY <3>2 DEF CursorInv, SilentBeforeSearch
    <3> QED BY <1>3, <2>2, <3>3 DEF Directed
  <2> QED BY <2>1, <2>2
<1> QED BY <1>3, <1>4, <1>5, SkipRestarted DEF CursorInv

\* "Next" and "previous" start a session at another place of the queue.  When the
\* device is not told, what it was handed is the item of "next", and for "previous"
\* the item that is left is one the device plays now.
LEMMA SkipByPlayDelta ==
  ASSUME TypeInv, TypeInv', CursorInv, SkipInv, Placed(store), HasSession, Spoken,
         NEW delta \in {1, -1}, PlayDelta(delta)
  PROVE  SkipInv'
<1> DEFINE Target(s) == IF delta > 0 THEN NextUnfinished(s, s.queue.index + delta)
                        ELSE s.queue.index + delta
           Has(s) == Target(s) \in DOMAIN s.queue.ids
           with == IF Has(store) \/ delta < 0 THEN store ELSE WithNextPage(store)
           Unavailable == "backend" \in disorder' \ disorder
           k == Target(with)
           i == with.queue.ids[k]
<1>1. \/ /\ Has(with)
         /\ store' = [with EXCEPT !.queue.index = k, !.active = Started(i, 0, now)]
         /\ PlayDirective(i, 0)
      \/ store' \in {store, with} /\ NoDirective(mail)
  <2> HIDE DEF Has, with, k
  <2> QED BY DEF PlayDelta, Has, with, k
<1>2. TypeOK /\ PlaysSomething /\ store \in Documents /\ now' = now
  BY DEF TypeInv, TypeOK, Spoken
<1>3. Target(store) = IF delta = 1 THEN NextPlace(store) ELSE store.queue.index + delta
  BY DEF NextPlace
<1>4. Has(store) /\ delta = 1 => with = store /\ HasNext(store)
  BY <1>3 DEF HasNext
<1>5. delta = -1 => with = store OBVIOUS
<1>6. /\ with \in Documents /\ Placed(with) /\ QueueKept(with.queue)
      /\ with.queue.index = store.queue.index /\ with.active = store.active
      /\ with.prepared = store.prepared /\ with.completed = store.completed
  <2>1. CASE with = store BY <1>2, <2>1 DEF QueueKept
  <2>2. CASE with = WithNextPage(store)
    <3> HIDE DEF with
    <3> QED BY <1>2, <2>2, NextPageAppends, GrownPlaced DEF QueueKept
  <2> QED BY <2>1, <2>2
<1>7. HasNext(store) => with = store
  BY <1>3, <1>4, <1>5 DEF HasNext
<1>8. CASE store' \in {store, with} /\ NoDirective(mail)
  <2> HIDE DEF with, Has, k
  <2>1. GoesOn
    <3>1. CASE store' = store BY <3>1, SameStoreGoesOn
    <3>2. CASE store' = with
      BY <1>6, <1>7, <3>2 DEF GoesOn, NextKept, Placed
    <3> QED BY <1>8, <3>1, <3>2
  <2>2. Undirected
    <3>1. Rest(mail) BY <1>2, MailRests
    <3> QED BY <1>2, <1>8, <3>1, NoDirectiveStep DEF Undirected
  <2>3. Stayed BY <1>6, <1>8, <2>1, <2>2 DEF Stayed, GoesOn
  <2> QED BY <1>6, <1>8, <2>1, <2>3, SkipStayed
<1>9. CASE /\ Has(with)
           /\ store' = [with EXCEPT !.queue.index = k, !.active = Started(i, 0, now)]
           /\ PlayDirective(i, 0)
  <2>1. /\ k \in DOMAIN with.queue.ids /\ DOMAIN with.queue.ids \subseteq Nat
        /\ with.queue.ids \in Seq(Items) /\ with.queue \in Queues /\ i \in Items
    <3>1. k \in DOMAIN with.queue.ids BY <1>9
    <3> HIDE DEF with, k
    <3>2. with.queue.ids \in Seq(Items) /\ with.queue \in Queues
      BY <1>6 DEF Documents, Queues
    <3> QED BY <3>1, <3>2, LenProperties
  <2>2. k = IF delta = 1 THEN NextPlace(with) ELSE store.queue.index + delta
    <3>1. delta = 1 => k = NextUnfinished(with, with.queue.index + 1) OBVIOUS
    <3>2. delta = -1 => k = with.queue.index + delta OBVIOUS
    <3> HIDE DEF with, k
    <3> QED BY <1>6, <3>1, <3>2 DEF NextPlace
  <2> HIDE DEF with, Has, k, i
  <2> DEFINE s == Started(i, 0, now)
  <2>3. s.item = i /\ s.eventTime = now BY DEF Started, NoSession
  <2> HIDE DEF s
  <2>4. store' = [with EXCEPT !.queue.index = k, !.active = s] BY <1>9 DEF s
  <2>5. /\ store'.queue.ids = with.queue.ids /\ store'.queue.index = k
        /\ store'.active.item = i /\ store'.active.eventTime = now
        /\ store'.prepared = store.prepared
    BY <1>6, <2>1, <2>3, <2>4 DEF Documents, Queues
  <2>6. Directed(i)
    <3>1. 0 \in 0 .. Duration /\ 0 < Duration BY PlaybackAssumption
    <3> QED BY <1>2, <1>9, <2>1, <3>1, DirectiveStep
  <2>7. ASSUME player'.upcoming # NoItem PROVE "unanswered" \in disorder' \ disorder
    <3>1. ~Answered BY <2>6, <2>7 DEF Directed, Streaming
    <3> QED BY <3>1 DEF Answered
  <2>8. ASSUME player'.upcoming # NoItem, player'.upcoming = store'.prepared,
               store'.prepared # store'.active.item
        PROVE  Ahead(store', store'.prepared, ended' \union {player'.token})
    <3>1. player' = player /\ ended' = ended
      BY <2>6, <2>7, <2>8 DEF Directed, Answered, Spoken
    <3>2. /\ store.active.item = player.token
          /\ HasNext(store) /\ NextItem(store) = store.prepared
      BY <2>5, <2>7, <2>8, <3>1 DEF SkipInv, HandedNext
    <3>3. with = store BY <1>7, <3>2
    <3>4. store.queue.index \in Nat /\ delta = -1 /\ k = store.queue.index - 1
      <4>1. delta # 1 BY <2>2, <2>5, <2>8, <3>2, <3>3 DEF NextItem, i
      <4>2. store.queue.index \in Nat BY <1>2 DEF Documents, Queues
      <4> QED BY <2>2, <4>1, <4>2
    <3>5. Ahead(store, store.prepared, ended \union {player.token})
      <4>1. store.prepared # store.active.item BY <1>2, <3>2, NextAhead
      <4> QED BY <2>5, <2>8, <3>1, <4>1 DEF SkipInv, StartsAhead
    <3>6. PICK to \in DOMAIN store.queue.ids :
            /\ store.queue.index < to /\ store.queue.ids[to] = store.prepared
            /\ \A n \in store.queue.index + 1 .. to - 1 :
                 store.queue.ids[n] \in ended \union {player.token}
      BY <3>5 DEF Ahead
    <3>7. /\ store.queue.index \in Nat /\ to \in Nat
          /\ store.queue.ids[store.queue.index] = player.token
      BY <2>1, <3>2, <3>3, <3>6 DEF Placed
    <3>8. k < to /\ \A n \in k + 1 .. to - 1 :
            store.queue.ids[n] \in ended \union {player.token}
      BY <3>4, <3>6, <3>7
    <3> QED BY <2>5, <3>1, <3>3, <3>6, <3>8 DEF Ahead
  <2>9. Distinct(store'.queue.ids) BY <1>6, <2>5 DEF Placed
  <2> QED BY <2>5, <2>6, <2>7, <2>8, <2>9, SkipRestarted DEF CursorInv
<1> QED BY <1>1, <1>8, <1>9

LEMMA SkipByCommand ==
  ASSUME SearchesAnswered \/ Answered, TypeInv, TypeInv', CursorInv, SkipInv, Listener
  PROVE  SkipInv'
<1>1. Spoken BY CommandStep DEF TypeInv
<1>2. HasSession => Placed(store) BY DEF CursorInv, CursorInQueue, SkipInv, Placed
<1>3. /\ store.active.offset \in 0 .. Duration /\ 0 \in 0 .. Duration
      /\ Duration \in Nat \ {0} /\ player.offset \in 0 .. Duration
  BY PlaybackAssumption DEF TypeInv, TypeOK, Documents, Sessions, Players
<1>4. ~IsFinished(store.active) => store.active.offset < Duration
  BY <1>3 DEF IsFinished
<1>5. CASE Play BY <1>1, <1>5, SkipByPlay
<1>6. CASE Pause BY <1>1, <1>2, <1>6, SkipByPause
<1>7. CASE Resume
  BY <1>1, <1>2, <1>3, <1>4, <1>7, SkipByPlayDelta, SkipByRestart DEF Resume
<1>8. CASE Repeat BY <1>1, <1>2, <1>3, <1>8, SkipByRestart DEF Repeat
<1>9. CASE ChangeSpeed
  BY <1>1, <1>2, <1>3, <1>4, <1>9, SkipByRestart DEF ChangeSpeed
<1>10. ASSUME NEW direction \in {1, -1}, Seek(direction) PROVE SkipInv'
  <2> DEFINE current == IF player.activity = "PLAYING" THEN player.offset
                        ELSE store.active.offset
  <2>1. /\ HasSession /\ current + direction \in SeekRange(direction)
        /\ Restart(current + direction)
    BY <1>10 DEF Seek
  <2>2. current \in 0 .. Duration BY <1>3
  <2> HIDE DEF current
  <2>3. current + direction \in 0 .. Duration /\ current + direction < Duration
    BY <1>3, <1>10, <2>1, <2>2 DEF SeekRange
  <2> QED BY <1>1, <1>2, <2>1, <2>3, SkipByRestart
<1>11. CASE Skip BY <1>1, <1>2, <1>11, SkipByPlayDelta DEF Skip
<1>12. CASE Previous BY <1>1, <1>2, <1>12, SkipByPlayDelta DEF Previous
<1> QED BY <1>5, <1>6, <1>7, <1>8, <1>9, <1>10, <1>11, <1>12 DEF Listener

LEMMA SkipNext ==
  ASSUME SearchesAnswered \/ Answered, TypeInv, TypeInv', EndWasHeard, EndWasHeard', CursorInv, SkipInv,
         [Next]_vars
  PROVE  SkipInv'
<1>1. CASE Tick BY <1>1, SkipByTick
<1>2. CASE NearlyFinish \/ Report \/ Finish \/ Fail BY <1>2, SkipByDevice
<1>3. CASE Network BY <1>3, SkipByNetwork
<1>4. CASE Listener BY <1>4, SkipByCommand
<1>5. CASE UNCHANGED vars
  BY <1>5, SkipPrimes DEF vars, SkipInv, StartsAhead, HandedNext
<1> QED BY <1>1, <1>2, <1>3, <1>4, <1>5 DEF Next, Device

LEMMA SkipInit == Init => SkipInv
<1> SUFFICES ASSUME Init PROVE SkipInv OBVIOUS
<1>1. /\ store.queue.ids = <<>> /\ store.prepared = NoItem /\ mail = <<>>
      /\ player.upcoming = NoItem
  BY DEF Init, Streaming
<1>2. DOMAIN store.queue.ids = {} /\ DOMAIN mail = {} BY <1>1
<1> QED BY <1>1, <1>2 DEF SkipInv, Distinct, StartsAhead, HandedNext

\* Only a start moves the session without a command, and it moves it ahead.
LEMMA MovesAhead ==
  ASSUME TypeInv, CursorInv, SkipInv, [Next]_vars, used' = used,
         store'.active.item # store.active.item
  PROVE  HasSession /\ Ahead(store, store'.active.item, ended)
<1>1. TypeOK BY DEF TypeInv
<1>2. Network
  <2>1. store' # store OBVIOUS
  <2>2. ~Tick BY <2>1 DEF Tick
  <2>3. ~(NearlyFinish \/ Report \/ Finish \/ Fail)
    BY <2>1 DEF NearlyFinish, Report, Finish, Fail
  <2>4. ~Listener
    <3>1. used \in [searches : 0 .. MaxSearches, commands : 0 .. MaxInputs,
                    reports : 0 .. MaxInputs, idle : 0 .. MaxIdle]
      BY <1>1 DEF TypeOK
    <3>2. used.searches \in Nat /\ used.commands \in Nat BY <1>1, <3>1, InputsBound
    <3>3. ~Play
      <4>1. [used EXCEPT !.searches = @ + 1].searches = used.searches + 1 BY <3>1
      <4>2. Play => used' = [used EXCEPT !.searches = @ + 1] BY DEF Play
      <4>3. used.searches + 1 # used.searches BY <3>2
      <4> QED BY <4>1, <4>2, <4>3
    <3>4. \A command, faults : ~Gives(command, faults)
      <4>1. [used EXCEPT !.commands = @ + 1].commands = used.commands + 1 BY <3>1
      <4>2. \A command, faults :
              Gives(command, faults) => used' = [used EXCEPT !.commands = @ + 1]
        BY DEF Gives
      <4>3. used.commands + 1 # used.commands BY <3>2
      <4> QED BY <4>1, <4>2, <4>3
    <3> QED
      BY <3>3, <3>4
      DEF Listener, Pause, Resume, Repeat, ChangeSpeed, Seek, Skip, Previous
  <2> QED BY <2>1, <2>2, <2>3, <2>4 DEF Next, Device, vars
<1>3. mail # <<>> BY <1>1, <1>2, NetworkStep DEF TypeInv
<1>4. HasSession BY <1>3 DEF CursorInv, SilentBeforeSearch
<1>5. Placed(store) BY <1>4 DEF CursorInv, CursorInQueue, SkipInv, Placed
<1>6. PICK j \in DOMAIN mail : \E rest : Turns(mail[j], rest)
  BY <1>2, <1>5, NetworkTurns
<1>7. PICK rest : Turns(mail[j], rest) BY <1>6
<1>8. Applies(mail[j]) /\ MovesOn(mail[j], rest)
  BY <1>7 DEF Turns, TurnsOn, Prefetches, GoesOn
<1> DEFINE e == mail[j]
<1>9. /\ e.kind = "started" /\ e.token = store.prepared /\ e.token # store.active.item
      /\ store'.active.item = e.token
  BY <1>8 DEF MovesOn
<1>10. e.time >= store.active.eventTime
  <2>1. e \in Events BY MailRests DEF TypeInv
  <2>2. e.time \in 1 .. now /\ now \in Nat BY <1>1, <2>1 DEF Events, TypeOK
  <2>3. store.active.eventTime \in Nat BY <1>1 DEF TypeOK, Documents, Sessions
  <2>4. AcceptsEvent(store.active, e) BY <1>8 DEF Applies
  <2> HIDE DEF e
  <2> QED BY <1>4, <2>2, <2>3, <2>4 DEF AcceptsEvent, HasSession
<1> QED BY <1>4, <1>9, <1>10 DEF SkipInv, StartsAhead

\* When the device moves on by itself, the session goes forward to the item that it
\* has prepared and passes over nothing the listener has not heard, even if events
\* come late, twice or never, or a directive does not reach the device.  As for the
\* cursor, it takes that the answer to a search, unless it is the first, replaces
\* the device's stream.
THEOREM NothingIsSkipped ==
  ASSUME MaxSearches <= 1 \/ "unanswered" \notin Faults
  PROVE  Spec => NothingSkipped
<1> DEFINE Forward ==
      used' = used /\ store'.active.item # store.active.item =>
        LET ids == store.queue.ids
            from == IndexOf(ids, store.active.item)
            to == IndexOf(ids, store'.active.item)
        IN  from < to /\ \A k \in from + 1 .. to - 1 : ids[k] \in ended
<1>0. SearchesAnswered BY DEF SearchesAnswered
<1>1. ASSUME TypeInv, CursorInv, SkipInv, [Next]_vars PROVE [Forward]_vars
  <2> SUFFICES ASSUME used' = used, store'.active.item # store.active.item
               PROVE  LET ids == store.queue.ids
                          from == IndexOf(ids, store.active.item)
                          to == IndexOf(ids, store'.active.item)
                      IN  from < to /\ \A k \in from + 1 .. to - 1 : ids[k] \in ended
    OBVIOUS
  <2> DEFINE ids == store.queue.ids
  <2>1. PICK to \in DOMAIN ids :
          /\ store.queue.index < to /\ ids[to] = store'.active.item
          /\ \A k \in store.queue.index + 1 .. to - 1 : ids[k] \in ended
    BY <1>1, MovesAhead DEF Ahead
  <2>2. store.queue \in Queues BY <1>1 DEF TypeInv, TypeOK, Documents
  <2>3. IndexOf(ids, store'.active.item) = to
    <3>1. InQueue(store.queue, store'.active.item) BY <2>1 DEF InQueue
    <3> QED BY <1>1, <2>1, <2>2, <3>1, IndexFound DEF SkipInv, Distinct
  <2>4. IndexOf(ids, store.active.item) = store.queue.index
    <3>1. HasSession BY <1>1, MovesAhead
    <3> QED BY <1>1, <2>2, <3>1, IndexFound
            DEF CursorInv, CursorInQueue, InQueue, SkipInv, Distinct
  <2> QED BY <2>1, <2>3, <2>4
<1>2. Init => EndWasHeard /\ CursorInv /\ SkipInv BY EndInit, CursorInit, SkipInit
<1>3. TypeInv /\ TypeInv' /\ EndWasHeard /\ CursorInv /\ SkipInv /\ [Next]_vars
        => EndWasHeard' /\ CursorInv' /\ SkipInv'
  BY <1>0, EndNext, CursorNext, SkipNext
<1> QED BY <1>1, <1>2, <1>3, TypeAlways, PTL DEF Spec, NothingSkipped

-----------------------------------------------------------------------------
(* The listening time *)

\* An observation adds no more than what was played since the one before.
LEMMA DeltaPlayed ==
  ASSUME NEW a, a.obsOffset \in Nat, a.obsTime \in Nat, NEW kind, NEW offset \in Nat,
         NEW time \in Nat,
         kind = "started" \/ Lasts(a.obsOffset, a.obsTime, offset, time)
  PROVE  /\ kind = "started" => ListeningDelta(a, kind, offset, time) = 0
         /\ kind # "started" => /\ ListeningDelta(a, kind, offset, time) \in Nat
                                /\ ListeningDelta(a, kind, offset, time) <= offset - a.obsOffset
BY DEF ListeningDelta, Lasts

\* The numbers that the listening time is made of.
LEMMA TimesTyped ==
  ASSUME TypeOK
  PROVE  /\ now \in Nat /\ player.offset \in Nat /\ heard \in [Items -> Nat]
         /\ \A k \in DOMAIN mail : /\ mail[k].offset \in Nat /\ mail[k].time \in Nat
                                   /\ mail[k].time <= now /\ mail[k].token \in Items
         /\ store.active.spent \in Nat /\ store.active.obsOffset \in Nat
         /\ store.active.obsTime \in Nat /\ store.active.offset \in Nat
         /\ store.active.item \in Items \union {NoItem} /\ DOMAIN mail \subseteq Nat
<1>1. now \in Nat /\ Duration \in Nat /\ store.active \in Sessions /\ player \in Players
  BY PlaybackAssumption DEF TypeOK, Documents
<1>2. \A k \in DOMAIN mail : mail[k] \in Events BY MailRests
<1>3. DOMAIN mail \subseteq Nat BY MailTail
<1>4. player.offset \in Nat BY <1>1 DEF Players
<1>5. /\ store.active.spent \in Nat /\ store.active.obsOffset \in Nat
      /\ store.active.obsTime \in Nat /\ store.active.offset \in Nat
      /\ store.active.item \in Items \union {NoItem}
  BY <1>1 DEF Sessions
<1>6. \A k \in DOMAIN mail : /\ mail[k].offset \in Nat /\ mail[k].time \in Nat
                             /\ mail[k].time <= now /\ mail[k].token \in Items
  BY <1>1, <1>2 DEF Events
<1> QED BY <1>1, <1>3, <1>4, <1>5, <1>6 DEF TypeOK

LEMMA ObservedAtCounts ==
  ASSUME NEW a \in Sessions, NEW kind, NEW status, NEW offset, NEW time
  PROVE  LET o == ObservedAt(a, kind, status, offset, time)
         IN  /\ o.spent = a.spent + ListeningDelta(a, kind, offset, time)
             /\ o.obsOffset = offset /\ o.obsTime = time
BY DEF ObservedAt, Sessions

LEMMA ObservedCounts ==
  ASSUME TypeOK, NEW a \in Sessions, NEW e \in Events, NEW status \in Statuses,
         NEW offset \in 0 .. Duration
  PROVE  LET o == Observed(a, e, status, offset)
         IN  /\ o.spent = a.spent + ListeningDelta(a, e.kind, offset, e.time)
             /\ o.obsOffset = offset /\ o.obsTime = e.time
<1> DEFINE o == ObservedAt(a, e.kind, status, offset, e.time)
<1>1. /\ e.time \in 0 .. now /\ e.id \in 0 .. sent /\ e.kind \in Kinds
  BY DEF Events, TypeOK
<1>2. o \in Sessions BY <1>1, ObservedAtTyped
<1>3. /\ o.spent = a.spent + ListeningDelta(a, e.kind, offset, e.time)
      /\ o.obsOffset = offset /\ o.obsTime = e.time
  BY ObservedAtCounts
<1>4. Observed(a, e, status, offset) =
        [o EXCEPT !.eventTime = e.time, !.lastId = e.id, !.lastKind = e.kind]
  BY DEF Observed
<1> HIDE DEF o
<1> QED BY <1>2, <1>3, <1>4 DEF Sessions

\* A new session starts with nothing counted.
LEMMA StartedCounts ==
  ASSUME NEW i, NEW offset, NEW time
  PROVE  /\ Started(i, offset, time).spent = 0 /\ Started(i, offset, time).obsOffset = offset
         /\ Started(i, offset, time).obsTime = time /\ Started(i, offset, time).item = i
         /\ Started(i, offset, time).status = "starting"
BY DEF Started, NoSession

\* A tick of a stream that plays is heard.
LEMMA TimeByTick ==
  ASSUME TypeInv, InStepInv, SilentBeforeSearch, TimeInv, Tick PROVE TimeInv'
<1>1. TypeOK /\ UNCHANGED <<store, mail>> /\ now' = now + 1 BY DEF Tick, TypeInv
<1>2. /\ now \in Nat /\ player.offset \in Nat /\ heard \in [Items -> Nat]
      /\ \A k \in DOMAIN mail : /\ mail[k].offset \in Nat /\ mail[k].time \in Nat
                                /\ mail[k].time <= now /\ mail[k].token \in Items
      /\ store.active.spent \in Nat /\ store.active.obsOffset \in Nat
      /\ store.active.obsTime \in Nat /\ store.active.offset \in Nat
      /\ store.active.item \in Items \union {NoItem} /\ DOMAIN mail \subseteq Nat
  BY <1>1, TimesTyped
<1>3. (\A k \in DOMAIN mail : mail[k].kind # "started") /\ player.token # NoItem
        => store.active.item = player.token
  BY DEF InStepInv, Follows, Awaits
<1>4. mail # <<>> \/ player.activity = "PLAYING" => store.active.item \in Items
  BY <1>2 DEF SilentBeforeSearch, HasSession
<1>5. CASE player.activity # "PLAYING"
  <2>1. player' = player /\ heard' = heard BY <1>5 DEF Tick
  <2> QED BY <1>1, <1>5, <2>1 DEF TimeInv, HeardSo, HeardSince, Counted, HasSession
<1>6. CASE player.activity = "PLAYING"
  <2>1. /\ player' = [player EXCEPT !.offset = @ + 1]
        /\ heard' = [heard EXCEPT ![player.token] = @ + 1]
        /\ player.token \in Items /\ player \in Players /\ NoItem \notin Items
    BY <1>6, PlaybackAssumption DEF Tick, TypeInv, TypeOK, PlaysSomething
  <2>2. /\ player'.offset = player.offset + 1 /\ player'.token = player.token
        /\ player'.activity = "PLAYING"
    BY <1>6, <2>1 DEF Players
  <2>3. /\ heard' \in [Items -> Nat] /\ heard'[player.token] = heard[player.token] + 1
        /\ \A i \in Items : i # player.token => heard'[i] = heard[i]
    BY <1>2, <2>1
  <2>4. store.active.item \in Items BY <1>4, <1>6
  <2>5. ASSUME \A k \in DOMAIN mail : mail[k].kind # "started" PROVE HeardSo'
    <3>1. HeardSo BY <2>4, <2>5, PlaybackAssumption DEF TimeInv, HasSession
    <3>2. store.active.item = player.token BY <1>3, <2>1, <2>5
    <3>3. heard'[store.active.item] = heard[store.active.item] + 1
          /\ heard[store.active.item] \in Nat
      BY <1>2, <2>3, <2>4, <3>2
    <3>4. store'.active.spent <= heard'[store'.active.item]
      BY <1>1, <1>2, <3>1, <3>3 DEF HeardSo
    <3>5. ASSUME NEW k \in DOMAIN mail' PROVE Counted(mail[k].offset, mail[k].time, 0)'
      BY <1>1, <1>2, <3>1, <3>3, <3>5 DEF HeardSo, Counted
    <3>6. Counted(player.offset, now, 0)'
      BY <1>1, <1>2, <1>6, <2>2, <3>1, <3>3 DEF HeardSo, Counted, Lasts
    <3> QED BY <3>4, <3>5, <3>6 DEF HeardSo
  <2>6. ASSUME NEW k \in DOMAIN mail, mail[k].kind = "started" PROVE HeardSince(k)'
    <3> DEFINE after == player.offset - mail[k].offset
               more == IF store.active.item = player.token THEN after ELSE 0
               more2 == IF store.active.item = player.token THEN after + 1 ELSE 0
    <3>1. HeardSince(k) BY <2>6 DEF TimeInv
    <3>2. k \in Nat /\ mail[k].offset \in Nat /\ mail[k].offset <= player.offset
          /\ mail[k].time \in Nat
      BY <1>2, <3>1 DEF HeardSince
    <3>3. after \in Nat /\ more \in Nat /\ more2 \in Nat BY <1>2, <3>2
    <3>4. player'.offset - mail'[k].offset = after + 1 BY <1>1, <1>2, <2>2, <3>2
    <3>5. more2 - more = heard'[store.active.item] - heard[store.active.item]
          /\ heard[store.active.item] \in Nat /\ heard'[store.active.item] \in Nat
          /\ heard[player.token] \in Nat
      BY <1>2, <2>1, <2>3, <2>4, <3>3
    <3>6. /\ store.active.spent + more <= heard[store.active.item]
          /\ after <= heard[player.token]
          /\ \A j \in DOMAIN mail :
               IF j < k
               THEN mail[j].token = store.active.item
                      => Counted(mail[j].offset, mail[j].time, more)
               ELSE /\ Lasts(mail[k].offset, mail[k].time, mail[j].offset, mail[j].time)
                    /\ mail[j].offset <= player.offset
          /\ Lasts(mail[k].offset, mail[k].time, player.offset, now)
      BY <1>6, <3>1 DEF HeardSince
    <3> HIDE DEF after, more, more2
    <3>7. store.active.spent + more2 <= heard'[store.active.item]
      BY <1>2, <3>3, <3>5, <3>6
    <3>8. after + 1 <= heard'[player.token] BY <2>3, <3>3, <3>5, <3>6
    <3>9. ASSUME NEW j \in DOMAIN mail, j < k, mail[j].token = store.active.item
          PROVE  /\ Lasts(store.active.obsOffset, store.active.obsTime,
                          mail[j].offset, mail[j].time)
                 /\ store.active.spent + (mail[j].offset - store.active.obsOffset) + more2
                      <= heard'[store.active.item]
      <4>1. Counted(mail[j].offset, mail[j].time, more) BY <3>6, <3>9
      <4> QED BY <1>2, <3>3, <3>5, <4>1 DEF Counted
    <3>10. ASSUME NEW j \in DOMAIN mail, ~(j < k)
           PROVE  /\ Lasts(mail[k].offset, mail[k].time, mail[j].offset, mail[j].time)
                  /\ mail[j].offset <= player.offset + 1
      BY <1>2, <3>6, <3>10
    <3>11. Lasts(mail[k].offset, mail[k].time, player.offset + 1, now + 1)
      BY <1>2, <3>2, <3>6 DEF Lasts
    <3>12. more2 = IF store.active.item = player.token THEN after + 1 ELSE 0 BY DEF more2
    <3> QED
      BY <1>1, <2>2, <3>4, <3>7, <3>8, <3>9, <3>10, <3>11, <3>12 DEF HeardSince, Counted
  <2> QED BY <1>1, <2>5, <2>6 DEF TimeInv, HasSession
<1> QED BY <1>5, <1>6

\* The device reports of its stream, or its stream ends, at the device's position.
LEMMA TimeByReport ==
  ASSUME TypeInv, InStepInv, SilentBeforeSearch, TimeInv, UNCHANGED <<store, now, heard>>,
         player.activity = "PLAYING", player'.token = player.token,
         player'.offset = player.offset, NEW call \in Calls, call[1] # "started",
         call[3] = player.offset, Sends(mail, <<call>>)
  PROVE  TimeInv'
<1> DEFINE new == Len(mail) + 1
<1>1. /\ TypeOK /\ mail \in Seq(Events) /\ Len(mail) \in Nat /\ DOMAIN mail = 1 .. Len(mail)
      /\ new \in Nat
  BY MailTail DEF TypeInv
<1>2. /\ now \in Nat /\ player.offset \in Nat /\ heard \in [Items -> Nat]
      /\ \A k \in DOMAIN mail : /\ mail[k].offset \in Nat /\ mail[k].time \in Nat
                                /\ mail[k].time <= now /\ mail[k].token \in Items
      /\ store.active.item \in Items \union {NoItem} /\ DOMAIN mail \subseteq Nat
  BY <1>1, TimesTyped
<1>3. /\ DOMAIN mail' = 1 .. Len(mail) + 1 /\ \A k \in 1 .. Len(mail) : mail'[k] = mail[k]
      /\ Letter(mail'[Len(mail) + 1], 1, call)
  BY <1>1, SentOne
<1>4. /\ mail'[new].kind # "started" /\ mail'[new].offset = player.offset
      /\ mail'[new].time = now
  BY <1>3 DEF Letter
<1>5. \A j \in DOMAIN mail' : \/ j \in DOMAIN mail /\ mail'[j] = mail[j]
                              \/ j = new
  BY <1>1, <1>3
<1>6. \A k \in DOMAIN mail : k \in DOMAIN mail' /\ mail'[k] = mail[k] /\ ~(new < k)
  BY <1>1, <1>3
<1> HIDE DEF new
<1>7. ASSUME HasSession, \A k \in DOMAIN mail' : mail'[k].kind # "started" PROVE HeardSo'
  <2>1. HeardSo BY <1>6, <1>7 DEF TimeInv
  <2>2. Counted(player.offset, now, 0) BY <2>1 DEF HeardSo
  <2>3. ASSUME NEW k \in DOMAIN mail' PROVE Counted(mail[k].offset, mail[k].time, 0)'
    BY <1>4, <1>5, <2>1, <2>2 DEF HeardSo, Counted
  <2> QED BY <2>1, <2>2, <2>3 DEF HeardSo, Counted
<1>8. ASSUME NEW k \in DOMAIN mail', mail'[k].kind = "started" PROVE HeardSince(k)'
  <2>1. k \in DOMAIN mail /\ mail'[k] = mail[k] /\ HeardSince(k)
    BY <1>4, <1>5, <1>8 DEF TimeInv
  <2>2. ~(new < k) BY <1>6, <2>1
  <2> QED BY <1>2, <1>4, <1>5, <2>1, <2>2 DEF HeardSince, Counted
<1> QED BY <1>7, <1>8 DEF TimeInv, HasSession

LEMMA AddsUp ==
  ASSUME NEW spent \in Nat, NEW obs \in Nat, NEW offset \in Nat, NEW more \in Nat,
         NEW all \in Nat, NEW next \in Nat,
         spent + (offset - obs) + more <= all, next <= spent + (offset - obs)
  PROVE  next + more <= all
OBVIOUS

\* A start is sent last, and what is told before it of the session's item was heard.
LEMMA StartHeard ==
  ASSUME player'.offset \in Nat, DOMAIN mail' \subseteq Nat,
         heard' \in [Items -> Nat], NEW n \in DOMAIN mail',
         \A j \in DOMAIN mail' : j = n \/ (j < n /\ mail'[j].kind # "started"),
         mail'[n].offset = player'.offset, mail'[n].time = now', now' \in Nat,
         store'.active.item \in Items, player'.token \in Items,
         store'.active.spent \in Nat, store'.active.spent <= heard'[store'.active.item],
         store'.active.status = "playing" => store'.active.offset = store'.active.obsOffset,
         mail'[n].kind = "started",
         \A j \in DOMAIN mail' : j < n /\ mail'[j].token = store'.active.item =>
           /\ Lasts(store'.active.obsOffset, store'.active.obsTime, mail'[j].offset, mail'[j].time)
           /\ store'.active.spent + (mail'[j].offset - store'.active.obsOffset)
                <= heard'[store'.active.item],
         store'.active.obsOffset \in Nat, \A j \in DOMAIN mail' : mail'[j].offset \in Nat
  PROVE  TimeInv'
<1>1. \A k \in DOMAIN mail' : mail'[k].kind = "started" => k = n OBVIOUS
<1>2. player'.offset - mail'[n].offset = 0 OBVIOUS
<1>3. heard'[player'.token] \in Nat /\ heard'[store'.active.item] \in Nat OBVIOUS
<1>4. ASSUME NEW j \in DOMAIN mail', j < n, mail'[j].token = store'.active.item
      PROVE  Counted(mail[j].offset, mail[j].time, 0)'
  <2>1. store'.active.spent + (mail'[j].offset - store'.active.obsOffset) + 0
          = store'.active.spent + (mail'[j].offset - store'.active.obsOffset)
    OBVIOUS
  <2> QED BY <1>4, <2>1 DEF Counted
<1>5. Lasts(mail'[n].offset, mail'[n].time, mail'[n].offset, mail'[n].time) BY DEF Lasts
<1>6. \A j \in DOMAIN mail' : ~(j < n) => j = n OBVIOUS
<1>7. (IF store'.active.item = player'.token THEN player'.offset - mail'[n].offset ELSE 0) = 0
  BY <1>2
<1>8. store'.active.spent + 0 <= heard'[store'.active.item] OBVIOUS
<1>9. HeardSince(n)'
  BY <1>2, <1>3, <1>4, <1>5, <1>6, <1>7, <1>8 DEF HeardSince
<1> QED BY <1>1, <1>9 DEF TimeInv

\* A stream ends, and the enqueued one starts.
LEMMA TimeByNextStream ==
  ASSUME TypeInv, TypeInv', InStepInv, SilentBeforeSearch, TimeInv, Finish,
         player.upcoming # NoItem
  PROVE  TimeInv'
<1> DEFINE done == <<"finished", player.token, Duration>>
           start == <<"started", player.upcoming, 0>>
           last == Len(mail) + 2
<1>1. /\ TypeOK /\ TypeOK' /\ mail \in Seq(Events) /\ Len(mail) \in Nat
      /\ DOMAIN mail = 1 .. Len(mail) /\ player.token \in Items /\ player.upcoming \in Items
      /\ Duration \in Nat /\ 0 \in 0 .. Duration /\ Duration \in 0 .. Duration
  <2>1. TypeOK /\ TypeOK' /\ player \in Players /\ player.token \in Items
    BY DEF TypeInv, TypeOK, PlaysSomething, Finish
  <2>2. player.upcoming \in Items BY <2>1 DEF Players
  <2>3. Duration \in Nat BY PlaybackAssumption
  <2> QED BY <2>1, <2>2, <2>3, MailTail
<1>2. /\ UNCHANGED <<store, now, heard>> /\ player.activity = "PLAYING"
      /\ player.offset = Duration /\ player' = Streaming(player.upcoming, 0)
      /\ Sends(mail, <<done, start>>)
  BY DEF Finish
<1>3. done \in Calls /\ start \in Calls BY <1>1 DEF Calls, Kinds
<1> HIDE DEF done, start
<1>4. /\ DOMAIN mail' = 1 .. Len(mail) + 2 /\ \A k \in 1 .. Len(mail) : mail'[k] = mail[k]
      /\ Letter(mail'[Len(mail) + 1], 1, done) /\ Letter(mail'[Len(mail) + 2], 2, start)
  BY <1>1, <1>2, <1>3, SentTwo
<1>5. /\ mail'[Len(mail) + 1].kind = "finished" /\ mail'[Len(mail) + 1].time = now
      /\ mail'[Len(mail) + 1].offset = player.offset
      /\ mail'[last].kind = "started" /\ mail'[last].time = now /\ mail'[last].offset = 0
  BY <1>2, <1>4 DEF Letter, done, start
<1>6. player'.token \in Items /\ player'.offset = 0 BY <1>1, <1>2 DEF Streaming
<1>7. \A k \in DOMAIN mail : mail[k].kind # "started"
  BY <1>2 DEF InStepInv, PrefetchInStep
<1>8. store.active.item \in Items
  BY <1>1, <1>2, TimesTyped DEF SilentBeforeSearch, HasSession
<1>9. HeardSo BY <1>7, <1>8, PlaybackAssumption DEF TimeInv, HasSession
<1>10. Counted(player.offset, now, 0) BY <1>2, <1>9 DEF HeardSo
<1>11. \A j \in DOMAIN mail' :
         \/ j = last
         \/ j \in DOMAIN mail /\ mail'[j] = mail[j] /\ j < last
         \/ j = Len(mail) + 1 /\ j < last
  BY <1>1, <1>4
<1>12. last \in DOMAIN mail' BY <1>1, <1>4
<1>13. /\ \A j \in DOMAIN mail' : mail'[j].offset \in Nat
       /\ DOMAIN mail' \subseteq Nat /\ heard' \in [Items -> Nat] /\ now' \in Nat
       /\ store.active.spent \in Nat /\ store.active.obsOffset \in Nat /\ player'.offset \in Nat
       /\ now \in Nat /\ heard[store.active.item] \in Nat
       /\ \A j \in DOMAIN mail : mail[j].offset \in Nat
  <2>1. \A j \in DOMAIN mail' : mail'[j].offset \in Nat
    <3>1. \A j \in DOMAIN mail : mail[j].offset \in Nat BY <1>1, TimesTyped
    <3>2. player.offset \in Nat BY <1>1, TimesTyped
    <3> QED BY <1>5, <1>11, <3>1, <3>2
  <2> QED BY <1>1, <1>2, <1>4, <1>6, <1>8, <2>1, TimesTyped
<1> HIDE DEF last
<1>14. ASSUME NEW j \in DOMAIN mail', j < last
       PROVE  /\ Lasts(store.active.obsOffset, store.active.obsTime,
                       mail'[j].offset, mail'[j].time)
              /\ store.active.spent + (mail'[j].offset - store.active.obsOffset)
                   <= heard[store.active.item]
  <2>1. Counted(mail'[j].offset, mail'[j].time, 0)
    <3>1. j # last BY <1>13, <1>14
    <3> QED BY <1>5, <1>9, <1>10, <1>11, <3>1 DEF HeardSo
  <2> QED BY <1>13, <2>1 DEF Counted
<1>15. \A j \in DOMAIN mail' : j = last \/ (j < last /\ mail'[j].kind # "started")
  BY <1>5, <1>7, <1>11
<1>16. store.active.spent <= heard[store.active.item] BY <1>9 DEF HeardSo
<1> QED
  BY <1>2, <1>5, <1>6, <1>8, <1>12, <1>13, <1>14, <1>15, <1>16, StartHeard DEF TimeInv, last

\* The session has counted the time up to an event of its item, ...
Adds(e) ==
  /\ store'.active.item = store.active.item
  /\ store'.active.obsOffset = e.offset /\ store'.active.obsTime = e.time
  /\ store'.active.spent \in Nat
  /\ store'.active.spent <= store.active.spent + (e.offset - store.active.obsOffset)
  /\ store'.active.status = "playing" => store'.active.offset = e.offset

\* ... or counts on from the start of a stream.
Begins(e) ==
  /\ store'.active.item = e.token
  /\ store'.active.obsOffset = e.offset /\ store'.active.obsTime = e.time
  /\ store'.active.spent = IF e.token = store.active.item THEN store.active.spent ELSE 0
  /\ store'.active.offset = e.offset

LEMMA StartedBegins ==
  ASSUME TypeOK, NEW e \in Events, NEW rest, PlaybackStarted(e, rest)
  PROVE  Begins(e)
<1>0. /\ store.active \in Sessions /\ e.token \in Items /\ e.offset \in 0 .. Duration
      /\ "playing" \in Statuses /\ e.time \in 0 .. now /\ store \in Documents
      /\ e.kind = "started" /\ e.offset \in Nat /\ e.time \in Nat
  <2>1. e.kind = "started" /\ Duration \in Nat /\ now \in Nat
    BY PlaybackAssumption DEF PlaybackStarted, TypeOK
  <2> QED BY <2>1, EventTyped
<1>1. CASE e.token = store.active.item
  <2> DEFINE o == Observed(store.active, e, "playing", e.offset)
             delta == ListeningDelta(store.active, e.kind, e.offset, e.time)
  <2>1. /\ o.item = e.token /\ o.offset = e.offset /\ o.spent = store.active.spent + delta
        /\ o.obsOffset = e.offset /\ o.obsTime = e.time
    BY <1>0, <1>1, ObservedTyped, ObservedCounts
  <2>2. delta = 0
    <3>1. store.active.obsOffset \in Nat /\ store.active.obsTime \in Nat BY TimesTyped
    <3> QED BY <1>0, <3>1, DeltaPlayed
  <2>3. store' = [store EXCEPT !.active = o] BY <1>1 DEF PlaybackStarted
  <2> HIDE DEF o, delta
  <2>4. store'.active = o BY <1>0, <2>3 DEF Documents
  <2>5. o.spent = store.active.spent
    <3>1. store.active.spent \in Nat BY TimesTyped
    <3> QED BY <2>1, <2>2, <3>1
  <2> QED BY <1>1, <2>1, <2>4, <2>5 DEF Begins
<1>2. CASE e.token # store.active.item
  <2> DEFINE s == Started(e.token, e.offset, e.time)
             o == Observed(s, e, "playing", e.offset)
             q == AtContent(store.queue, e.token)
             delta == ListeningDelta(s, e.kind, e.offset, e.time)
  <2>1. /\ s \in Sessions /\ s.item = e.token /\ s.spent = 0 /\ s.obsOffset = e.offset
        /\ s.obsTime = e.time
    BY <1>0, StartedTyped, StartedCounts
  <2>2. store' = [store EXCEPT !.active = o, !.queue = q, !.prepared = NoItem]
    BY <1>2 DEF PlaybackStarted
  <2> HIDE DEF s
  <2>3. /\ o.item = e.token /\ o.offset = e.offset /\ o.spent = s.spent + delta
        /\ o.obsOffset = e.offset /\ o.obsTime = e.time
    BY <1>0, <2>1, ObservedTyped, ObservedCounts
  <2>4. delta = 0 BY <1>0, <2>1, DeltaPlayed
  <2> HIDE DEF o, q, delta
  <2>5. store'.active = o BY <1>0, <2>2 DEF Documents
  <2> QED BY <1>2, <2>1, <2>3, <2>4, <2>5 DEF Begins
<1> QED BY <1>1, <1>2

\* A handler that writes one observation of an event.
LEMMA ObservationAdds ==
  ASSUME TypeOK, NEW e \in Events, NEW status \in Statuses, NEW offset \in 0 .. Duration,
         offset = e.offset, NEW o, o = Observed(store.active, e, status, offset),
         Lasts(store.active.obsOffset, store.active.obsTime, e.offset, e.time)
  PROVE  /\ o \in Sessions /\ o.item = store.active.item /\ o.offset = e.offset
         /\ o.obsOffset = e.offset /\ o.obsTime = e.time /\ o.spent \in Nat /\ o.status = status
         /\ o.spent <= store.active.spent + (e.offset - store.active.obsOffset)
<1> DEFINE delta == ListeningDelta(store.active, e.kind, e.offset, e.time)
<1>1. /\ store.active \in Sessions /\ e.offset \in Nat /\ e.time \in Nat
      /\ store.active.obsOffset \in Nat /\ store.active.obsTime \in Nat
      /\ store.active.spent \in Nat
  <2>1. Duration \in Nat /\ now \in Nat BY PlaybackAssumption DEF TypeOK
  <2> QED BY <2>1, EventTyped, TimesTyped
<1>2. /\ o \in Sessions /\ o.item = store.active.item /\ o.offset = e.offset
      /\ o.obsOffset = e.offset /\ o.obsTime = e.time /\ o.status = status
      /\ o.spent = store.active.spent + delta
  BY <1>1, ObservedTyped, ObservedCounts
<1>3. /\ e.kind = "started" => delta = 0
      /\ e.kind # "started" => delta \in Nat /\ delta <= e.offset - store.active.obsOffset
  BY <1>1, DeltaPlayed
<1>4. store.active.obsOffset <= e.offset BY DEF Lasts
<1> HIDE DEF delta
<1> QED BY <1>1, <1>2, <1>3, <1>4

LEMMA HandlerAdds ==
  ASSUME TypeOK, NEW e \in Events, NEW rest, Apply(e, rest),
         e.kind \notin {"started", "failed"},
         e.token = store.active.item =>
           Lasts(store.active.obsOffset, store.active.obsTime, e.offset, e.time),
         store.active.status = "playing" => store.active.offset = store.active.obsOffset,
         e.kind = "nearly_finished" => store.active.status = "playing"
  PROVE  Adds(e)
<1>0. /\ store.active \in Sessions /\ e.offset \in 0 .. Duration /\ store \in Documents
      /\ {"playing", "paused", "completed"} \subseteq Statuses
  BY EventTyped DEF Statuses
<1>1. CASE PlaybackNearlyFinished(e, rest, TRUE, TRUE)
  <2> DEFINE offset == IF e.offset = 0 THEN store.active.offset ELSE e.offset
             o == Observed(store.active, e, "playing", offset)
             seen == [store EXCEPT !.active = o]
             atEnd == NextUnfinished(seen, seen.queue.index + 1) \notin DOMAIN seen.queue.ids
             with == IF atEnd THEN WithNextPage(seen) ELSE seen
             next == NextUnfinished(with, with.queue.index + 1)
             found == next \in DOMAIN with.queue.ids
  <2>1. e.kind = "nearly_finished" /\ e.token = store.active.item
    BY <1>1 DEF PlaybackNearlyFinished
  <2>2. offset = e.offset
    <3>1. /\ Lasts(store.active.obsOffset, store.active.obsTime, e.offset, e.time)
          /\ store.active.offset = store.active.obsOffset /\ store.active.obsOffset \in Nat
      BY <2>1, TimesTyped
    <3> QED BY <1>0, <3>1 DEF Lasts
  <2>3. /\ o \in Sessions /\ o.item = store.active.item /\ o.offset = e.offset
        /\ o.obsOffset = e.offset /\ o.obsTime = e.time /\ o.spent \in Nat
        /\ o.spent <= store.active.spent + (e.offset - store.active.obsOffset)
    <3> HIDE DEF offset
    <3>1. offset \in 0 .. Duration BY <1>0, <2>2
    <3> QED BY <1>0, <2>1, <2>2, <3>1, ObservationAdds
  <2>4. store' \in {with, [with EXCEPT !.prepared = with.queue.ids[next]]}
    BY <1>1 DEF PlaybackNearlyFinished
  <2>5. seen \in Documents /\ seen.active = o
    <3> HIDE DEF o
    <3> QED BY <1>0, <2>3 DEF Documents
  <2> HIDE DEF o, seen
  <2>6. with \in Documents /\ with.active = o
    <3>1. CASE atEnd BY <2>5, <3>1, NextPageAppends
    <3>2. CASE ~atEnd BY <2>5, <3>2
    <3> QED BY <3>1, <3>2
  <2> HIDE DEF with, next
  <2>7. store'.active = o BY <2>4, <2>6 DEF Documents
  <2> QED BY <2>3, <2>7 DEF Adds
<1>2. CASE PlaybackFinished(e, rest)
  <2> DEFINE o == Observed(store.active, e, "completed", e.offset)
             c == PlayedOut(o)
             q == AtContent(store.queue, e.token)
  <2>1. e.token = store.active.item BY <1>2 DEF PlaybackFinished
  <2>2. /\ o \in Sessions /\ o.item = store.active.item /\ o.status = "completed"
        /\ o.obsOffset = e.offset /\ o.obsTime = e.time /\ o.spent \in Nat
        /\ o.spent <= store.active.spent + (e.offset - store.active.obsOffset)
    BY <1>0, <2>1, ObservationAdds
  <2>3. store' = [store EXCEPT !.active = c, !.queue = q, !.completed = @ \union {e.token}]
    BY <1>2 DEF PlaybackFinished
  <2> HIDE DEF o, q
  <2>4. /\ c.item = o.item /\ c.status = "completed" /\ c.obsOffset = o.obsOffset
        /\ c.obsTime = o.obsTime /\ c.spent = o.spent
    BY <2>2 DEF Sessions, PlayedOut
  <2> HIDE DEF c
  <2>5. store'.active = c BY <1>0, <2>3 DEF Documents
  <2> QED BY <2>2, <2>4, <2>5 DEF Adds
<1>3. ASSUME NEW status \in {"paused", "playing"}, e.token = store.active.item,
             store' = [store EXCEPT !.active = Observed(store.active, e, status, e.offset)]
      PROVE  Adds(e)
  <2> DEFINE o == Observed(store.active, e, status, e.offset)
  <2>1. /\ o \in Sessions /\ o.item = store.active.item /\ o.offset = e.offset
        /\ o.obsOffset = e.offset /\ o.obsTime = e.time /\ o.spent \in Nat
        /\ o.spent <= store.active.spent + (e.offset - store.active.obsOffset)
    BY <1>0, <1>3, ObservationAdds
  <2>2. store' = [store EXCEPT !.active = o] BY <1>3
  <2> HIDE DEF o
  <2>3. store'.active = o BY <1>0, <2>2 DEF Documents
  <2> QED BY <2>1, <2>3 DEF Adds
<1>4. CASE PlaybackStopped(e, rest) BY <1>3, <1>4 DEF PlaybackStopped
<1>5. CASE PlaybackProgress(e, rest) BY <1>3, <1>5 DEF PlaybackProgress
<1> QED BY <1>1, <1>2, <1>4, <1>5 DEF Apply, PlaybackStarted, PlaybackFailed

\* What was to be counted still is when the session has seen an earlier event.
LEMMA CountedOn ==
  ASSUME TypeOK, NEW e, e.offset \in Nat, e.time \in Nat, NEW offset \in Nat, NEW time \in Nat,
         NEW more \in Nat, e.time <= time, store.active.item \in Items, heard' = heard,
         \/ store' = store
         \/ Adds(e) /\ Lasts(store.active.obsOffset, store.active.obsTime, e.offset, e.time),
         Counted(offset, time, more)
  PROVE  /\ Lasts(store'.active.obsOffset, store'.active.obsTime, offset, time)
         /\ store'.active.spent + (offset - store'.active.obsOffset) + more
              <= heard'[store'.active.item]
<1>1. /\ store.active.spent \in Nat /\ store.active.obsOffset \in Nat
      /\ store.active.obsTime \in Nat /\ heard[store.active.item] \in Nat
  BY TimesTyped
<1>2. CASE store' = store BY <1>2 DEF Counted
<1>3. CASE Adds(e) /\ Lasts(store.active.obsOffset, store.active.obsTime, e.offset, e.time)
  <2>1. Lasts(e.offset, e.time, offset, time) BY <1>1, <1>3 DEF Counted, Lasts
  <2> QED BY <1>1, <1>3, <2>1 DEF Counted, Adds
<1> QED BY <1>2, <1>3

\* An event of the stream that the session follows is taken.
LEMMA TimeTaken ==
  ASSUME TypeInv, TypeInv', MailInOrder, TimeInv, mail # <<>>, HasSession,
         UNCHANGED <<now, heard>>, player'.offset = player.offset,
         player'.activity = player.activity,
         \A k \in DOMAIN mail : mail[k].kind # "started",
         DOMAIN mail' = 1 .. Len(mail) - 1,
         \A k \in DOMAIN mail' : k + 1 \in DOMAIN mail /\ mail'[k] = mail[k + 1],
         store' = store \/ Adds(mail[1])
  PROVE  TimeInv'
<1>1. /\ TypeOK /\ Len(mail) \in Nat /\ DOMAIN mail = 1 .. Len(mail) /\ 1 \in DOMAIN mail
      /\ store.active.item \in Items
  <2>1. TypeOK BY DEF TypeInv
  <2>2. Len(mail) \in Nat /\ DOMAIN mail = 1 .. Len(mail) /\ Len(mail) > 0 BY <2>1, MailTail
  <2> QED BY <2>1, <2>2, TimesTyped DEF HasSession
<1>2. /\ now \in Nat /\ player.offset \in Nat
      /\ \A k \in DOMAIN mail : /\ mail[k].offset \in Nat /\ mail[k].time \in Nat
                                /\ mail[k].time <= now
      /\ store.active.spent \in Nat /\ store.active.obsOffset \in Nat
      /\ heard[store.active.item] \in Nat
  BY <1>1, TimesTyped
<1>3. HeardSo BY DEF TimeInv
<1>4. Counted(mail[1].offset, mail[1].time, 0) BY <1>1, <1>3 DEF HeardSo
<1>5. Lasts(store.active.obsOffset, store.active.obsTime, mail[1].offset, mail[1].time)
  BY <1>4 DEF Counted
<1>6. ASSUME NEW offset \in Nat, NEW time \in Nat, mail[1].time <= time,
             Counted(offset, time, 0)
      PROVE  /\ Lasts(store'.active.obsOffset, store'.active.obsTime, offset, time)
             /\ store'.active.spent + (offset - store'.active.obsOffset) + 0
                  <= heard'[store'.active.item]
  BY <1>1, <1>2, <1>5, <1>6, CountedOn
<1>7. ASSUME NEW k \in DOMAIN mail' PROVE Counted(mail[k].offset, mail[k].time, 0)'
  <2>1. k + 1 \in DOMAIN mail /\ mail'[k] = mail[k + 1] /\ 1 < k + 1 BY <1>1
  <2>2. Counted(mail[k + 1].offset, mail[k + 1].time, 0) BY <1>3, <2>1 DEF HeardSo
  <2>3. mail[1].time <= mail[k + 1].time BY <1>1, <2>1 DEF MailInOrder
  <2> QED BY <1>2, <1>6, <2>1, <2>2, <2>3 DEF Counted
<1>8. player.activity = "PLAYING" => Counted(player.offset, now, 0)'
  <2> SUFFICES ASSUME player.activity = "PLAYING" PROVE Counted(player.offset, now, 0)'
    OBVIOUS
  <2>1. Counted(player.offset, now, 0) BY <1>3 DEF HeardSo
  <2>2. mail[1].time <= now BY <1>1, <1>2
  <2> QED BY <1>2, <1>6, <2>1, <2>2 DEF Counted
<1>9. store'.active.spent <= heard'[store'.active.item]
  <2>1. CASE store' = store BY <1>3, <2>1 DEF HeardSo
  <2>2. CASE Adds(mail[1])
    <3>1. store.active.spent + (mail[1].offset - store.active.obsOffset) + 0
            <= heard[store.active.item]
      BY <1>4 DEF Counted
    <3>2. /\ store'.active.item = store.active.item /\ store'.active.spent \in Nat
          /\ store'.active.spent
               <= store.active.spent + (mail[1].offset - store.active.obsOffset)
      BY <2>2 DEF Adds
    <3>3. mail[1].offset \in Nat BY <1>1, <1>2
    <3>4. store'.active.spent + 0 <= heard[store.active.item]
      BY <1>2, <3>1, <3>2, <3>3, AddsUp
    <3> QED BY <3>2, <3>4
  <2> QED BY <2>1, <2>2
<1>10. HeardSo' BY <1>7, <1>8, <1>9 DEF HeardSo
<1>11. store'.active.status = "playing" => store'.active.offset = store'.active.obsOffset
  BY DEF TimeInv, Adds
<1>12. \A k \in DOMAIN mail' : mail'[k].kind # "started" OBVIOUS
<1> QED BY <1>10, <1>11, <1>12 DEF TimeInv

\* The event is answered with the next stream, which starts at once.
LEMMA TimeByEnqueue ==
  ASSUME TypeInv, TypeInv', MailInOrder, TimeInv, mail # <<>>, HasSession,
         UNCHANGED <<now, heard>>, \A k \in DOMAIN mail : mail[k].kind # "started",
         Adds(mail[1]), NEW i \in Items, player' = Streaming(i, 0),
         Sends(Tail(mail), << <<"started", i, 0>> >>)
  PROVE  TimeInv'
<1> DEFINE start == <<"started", i, 0>>
           rest == Tail(mail)
           n == Len(mail)
<1>1. /\ TypeOK /\ TypeOK' /\ n \in Nat /\ DOMAIN mail = 1 .. n /\ n > 0
      /\ store.active.item \in Items /\ 1 \in DOMAIN mail
      /\ rest \in Seq(Events) /\ Len(rest) = n - 1
      /\ \A k \in 1 .. n - 1 : rest[k] = mail[k + 1]
  <2>1. TypeOK /\ TypeOK' BY DEF TypeInv
  <2>2. Len(mail) > 0 /\ DOMAIN mail = 1 .. Len(mail) /\ Len(mail) \in Nat
    BY <2>1, MailTail
  <2> QED BY <2>1, <2>2, MailTail, TimesTyped DEF HasSession
<1>2. start \in Calls
  <2>1. 0 \in 0 .. Duration BY PlaybackAssumption
  <2> QED BY <2>1 DEF Calls, Kinds
<1> HIDE DEF start, rest
<1>3. Sends(rest, <<start>>) BY DEF start, rest
<1> HIDE DEF n
<1>4. /\ DOMAIN mail' = 1 .. n /\ \A k \in 1 .. n - 1 : mail'[k] = rest[k]
      /\ Letter(mail'[n], 1, start)
  <2>1. /\ DOMAIN mail' = 1 .. Len(rest) + 1 /\ \A k \in 1 .. Len(rest) : mail'[k] = rest[k]
        /\ Letter(mail'[Len(rest) + 1], 1, start)
    BY <1>1, <1>2, <1>3, SentOne
  <2>2. Len(rest) + 1 = n BY <1>1
  <2> QED BY <1>1, <2>1, <2>2
<1>5. mail'[n].kind = "started" /\ mail'[n].time = now /\ mail'[n].offset = 0
  BY <1>4 DEF Letter, start
<1>6. \A j \in DOMAIN mail' :
        \/ j = n
        \/ /\ j < n /\ j + 1 \in DOMAIN mail /\ mail'[j] = mail[j + 1] /\ 1 < j + 1
  BY <1>1, <1>4
<1>7. player'.token = i /\ player'.offset = 0 BY DEF Streaming
<1>8. /\ now \in Nat /\ now' = now /\ heard' = heard /\ heard \in [Items -> Nat]
      /\ \A k \in DOMAIN mail : mail[k].offset \in Nat /\ mail[k].time \in Nat
      /\ store.active.spent \in Nat /\ store.active.obsOffset \in Nat
      /\ heard[store.active.item] \in Nat
  BY <1>1, TimesTyped
<1>9. /\ store'.active.spent \in Nat /\ store'.active.obsOffset \in Nat
      /\ store'.active.item = store.active.item
      /\ store'.active.status = "playing" => store'.active.offset = store'.active.obsOffset
  BY <1>1, <1>8 DEF Adds
<1>10. HeardSo BY DEF TimeInv
<1>11. Counted(mail[1].offset, mail[1].time, 0) BY <1>1, <1>10 DEF HeardSo
<1>12. store'.active.spent <= heard'[store'.active.item]
  <2>1. store.active.spent + (mail[1].offset - store.active.obsOffset) + 0
          <= heard[store.active.item]
    BY <1>11 DEF Counted
  <2>2. store'.active.spent
          <= store.active.spent + (mail[1].offset - store.active.obsOffset)
    BY DEF Adds
  <2>3. mail[1].offset \in Nat BY <1>1, <1>8
  <2>4. store'.active.spent + 0 <= heard[store.active.item]
    BY <1>8, <1>9, <2>1, <2>2, <2>3, AddsUp
  <2> QED BY <1>8, <1>9, <2>4
<1>13. ASSUME NEW j \in DOMAIN mail', j < n
       PROVE  /\ Lasts(store'.active.obsOffset, store'.active.obsTime,
                       mail'[j].offset, mail'[j].time)
              /\ store'.active.spent + (mail'[j].offset - store'.active.obsOffset)
                   <= heard'[store'.active.item]
  <2>1. j + 1 \in DOMAIN mail /\ mail'[j] = mail[j + 1] /\ 1 < j + 1
    <3>1. j # n BY <1>1, <1>13
    <3> QED BY <1>6, <3>1
  <2>2. Counted(mail[j + 1].offset, mail[j + 1].time, 0) BY <1>10, <2>1 DEF HeardSo
  <2>3. mail[1].time <= mail[j + 1].time BY <1>1, <2>1 DEF MailInOrder
  <2>4. /\ Lasts(store'.active.obsOffset, store'.active.obsTime,
                 mail[j + 1].offset, mail[j + 1].time)
        /\ store'.active.spent + (mail[j + 1].offset - store'.active.obsOffset) + 0
             <= heard'[store'.active.item]
    BY <1>1, <1>8, <1>11, <2>1, <2>2, <2>3, CountedOn DEF Counted
  <2> QED BY <1>8, <1>9, <2>1, <2>4
<1>14. /\ DOMAIN mail' \subseteq Nat /\ n \in DOMAIN mail'
       /\ \A j \in DOMAIN mail' : mail'[j].offset \in Nat
       /\ \A j \in DOMAIN mail' : j = n \/ (j < n /\ mail'[j].kind # "started")
  <2>1. DOMAIN mail' \subseteq Nat /\ n \in DOMAIN mail' BY <1>1, <1>4
  <2>2. \A j \in DOMAIN mail' : mail'[j].offset \in Nat BY <1>5, <1>6, <1>8
  <2>3. \A j \in DOMAIN mail' : j = n \/ (j < n /\ mail'[j].kind # "started") BY <1>6
  <2> QED BY <2>1, <2>2, <2>3
<1>15. /\ player'.offset \in Nat /\ player'.token \in Items /\ store'.active.item \in Items
       /\ mail'[n].offset = player'.offset /\ mail'[n].time = now' /\ now' \in Nat
       /\ heard' \in [Items -> Nat]
  BY <1>1, <1>5, <1>7, <1>8, <1>9
<1> QED BY <1>5, <1>9, <1>12, <1>13, <1>14, <1>15, StartHeard

\* The mail without its first event.
LEMMA TailLeft ==
  ASSUME TypeOK, mail # <<>>, Sends(Tail(mail), <<>>)
  PROVE  /\ Len(mail) \in Nat /\ Len(mail) > 0 /\ DOMAIN mail = 1 .. Len(mail)
         /\ Head(mail) = mail[1] /\ 1 \in DOMAIN mail /\ mail[1] \in Events
         /\ DOMAIN mail' = 1 .. Len(mail) - 1
         /\ \A k \in DOMAIN mail' : k + 1 \in DOMAIN mail /\ mail'[k] = mail[k + 1]
<1>1. /\ mail \in Seq(Events) /\ Len(mail) \in Nat /\ Len(mail) > 0
      /\ DOMAIN mail = 1 .. Len(mail) /\ Tail(mail) \in Seq(Events)
      /\ Len(Tail(mail)) = Len(mail) - 1 /\ Head(mail) = mail[1]
      /\ \A k \in 1 .. Len(mail) - 1 : Tail(mail)[k] = mail[k + 1]
  BY MailTail
<1>2. <<>> \in Seq(Calls) /\ Len(<<>>) = 0 OBVIOUS
<1>3. /\ Len(mail') = Len(Tail(mail)) + 0 /\ DOMAIN mail' = 1 .. Len(mail')
      /\ \A k \in 1 .. Len(Tail(mail)) : mail'[k] = Tail(mail)[k]
  BY <1>1, <1>2, SentMail
<1>4. DOMAIN mail' = 1 .. Len(mail) - 1 /\ \A k \in 1 .. Len(mail) - 1 : mail'[k] = mail[k + 1]
  BY <1>1, <1>3
<1>5. mail[1] \in Events /\ 1 \in DOMAIN mail BY <1>1, MailRests
<1> QED BY <1>1, <1>4, <1>5

\* An event of the stream that the session follows is delivered.
LEMMA TimeByFollowed ==
  ASSUME TypeInv, TypeInv', InStepInv, SilentBeforeSearch, TimeInv, mail # <<>>,
         UNCHANGED <<now, heard, disorder>>, Follows, Handle(Head(mail), Tail(mail))
  PROVE  TimeInv'
<1>1. /\ TypeOK /\ Head(mail) = mail[1] /\ mail[1] \in Events /\ 1 \in DOMAIN mail
      /\ HasSession /\ MailInOrder
  <2>1. TypeOK BY DEF TypeInv
  <2> QED BY <2>1, MailTail, MailRests DEF SilentBeforeSearch, InStepInv
<1>2. \A k \in DOMAIN mail : mail[k].kind # "started" BY DEF Follows, ToldOfStream
<1>3. HeardSo BY <1>1, <1>2 DEF TimeInv
<1>4. Lasts(store.active.obsOffset, store.active.obsTime, mail[1].offset, mail[1].time)
  BY <1>1, <1>3 DEF HeardSo, Counted
<1>5. /\ mail[1].kind \notin {"started", "failed"}
      /\ mail[1].kind = "nearly_finished" => store.active.status = "playing"
  <2>1. player.activity \in {"PLAYING", "STOPPED", "FINISHED"}
    BY <1>1 DEF TypeOK, Players
  <2> QED BY <1>1, <2>1 DEF Follows, ToldOfStream, Runs
<1>6. ASSUME Sends(Tail(mail), <<>>), player'.offset = player.offset,
             player'.activity = player.activity, store' = store \/ Adds(mail[1])
      PROVE  TimeInv'
  BY <1>1, <1>2, <1>6, TailLeft, TimeTaken
<1>7. CASE Reject(Head(mail), Tail(mail))
  BY <1>6, <1>7 DEF Reject, NoDirective
<1>8. CASE Apply(Head(mail), Tail(mail))
  <2>1. Adds(mail[1])
    BY <1>1, <1>4, <1>5, <1>8, HandlerAdds DEF TimeInv
  <2>2. CASE NoDirective(Tail(mail)) BY <1>6, <2>1, <2>2 DEF NoDirective
  <2>3. ASSUME NEW i \in Items, EnqueueDirective(i, mail[1].token, Tail(mail)) PROVE TimeInv'
    <3>1. CASE NoDirective(Tail(mail)) BY <2>2, <3>1
    <3>2. CASE player' = Streaming(i, 0) /\ Sends(Tail(mail), << <<"started", i, 0>> >>)
      BY <1>1, <1>2, <2>1, <3>2, TimeByEnqueue
    <3>3. CASE player' = [player EXCEPT !.upcoming = i] /\ Sends(Tail(mail), <<>>)
      <4>1. player'.offset = player.offset /\ player'.activity = player.activity
        BY <1>1, <3>3 DEF TypeOK, Players
      <4> QED BY <1>6, <2>1, <3>3, <4>1
    <3> QED BY <2>3, <3>1, <3>2, <3>3 DEF EnqueueDirective
  <2>4. \/ NoDirective(Tail(mail))
        \/ \E i \in Items : EnqueueDirective(i, mail[1].token, Tail(mail))
    <3>1. CASE PlaybackNearlyFinished(mail[1], Tail(mail), TRUE, TRUE)
      BY <1>1, <3>1, NearlyFinishedSees
    <3> QED BY <1>1, <1>8, <3>1
            DEF Apply, PlaybackStarted, PlaybackFinished, PlaybackStopped, PlaybackFailed,
                PlaybackProgress
  <2> QED BY <2>2, <2>3, <2>4
<1> QED BY <1>7, <1>8 DEF Handle

\* The start that the session awaits is accepted when it comes.
LEMMA AwaitedStarts ==
  ASSUME TypeInv, InStepInv, mail # <<>>, Awaits(1), Handle(Head(mail), Tail(mail))
  PROVE  PlaybackStarted(mail[1], Tail(mail))
<1>1. TypeOK /\ Head(mail) = mail[1]
  <2>1. TypeOK BY DEF TypeInv
  <2> QED BY <2>1, MailTail
<1>2. /\ mail[1].kind = "started" /\ mail[1].token = player.token
      /\ store.active.item = player.token \/ store.prepared = player.token
      /\ store.active.lastKind = "started" => store.active.eventTime < mail[1].time
  BY DEF Awaits
<1>3. AcceptsEvent(store.active, mail[1])
  <2>1. store.active.eventTime \in Nat BY <1>1 DEF TypeOK, Documents, Sessions
  <2>2. mail[1].time = store.active.eventTime => mail[1].kind # store.active.lastKind
    BY <1>2, <2>1
  <2> QED BY <2>2, HeadAccepted
<1>4. Applies(mail[1]) BY <1>2, <1>3 DEF Applies
<1>5. Apply(mail[1], Tail(mail)) BY <1>1, <1>4 DEF Handle, Reject
<1> QED BY <1>2, <1>5 DEF Apply, PlaybackNearlyFinished, PlaybackFinished, PlaybackStopped,
                          PlaybackFailed, PlaybackProgress

\* The awaited start is delivered: what is on its way is of its stream.
LEMMA TimeByStart ==
  ASSUME TypeInv, TypeInv', InStepInv, TimeInv, mail # <<>>, UNCHANGED <<now, heard>>,
         Awaits(1), Handle(Head(mail), Tail(mail))
  PROVE  TimeInv'
<1>1. PlaybackStarted(mail[1], Tail(mail)) BY AwaitedStarts
<1>2. player' = player /\ Sends(Tail(mail), <<>>) BY <1>1 DEF PlaybackStarted, NoDirective
<1>3. /\ TypeOK /\ Len(mail) \in Nat /\ DOMAIN mail = 1 .. Len(mail) /\ 1 \in DOMAIN mail
      /\ mail[1] \in Events /\ DOMAIN mail' = 1 .. Len(mail) - 1
      /\ \A k \in DOMAIN mail' : k + 1 \in DOMAIN mail /\ mail'[k] = mail[k + 1]
  BY <1>2, TailLeft DEF TypeInv
<1>4. Begins(mail[1]) BY <1>1, <1>3, StartedBegins
<1>5. /\ mail[1].token = player.token /\ mail[1].kind = "started"
      /\ \A j \in DOMAIN mail : j > 1 => mail[j].kind # "started"
  BY DEF Awaits, Runs
<1>6. /\ now \in Nat /\ player.offset \in Nat /\ heard \in [Items -> Nat]
      /\ \A k \in DOMAIN mail : /\ mail[k].offset \in Nat /\ mail[k].time \in Nat
                                /\ mail[k].token \in Items
      /\ store.active.spent \in Nat
  BY <1>3, TimesTyped
<1> DEFINE after == player.offset - mail[1].offset
           more == IF store.active.item = player.token THEN after ELSE 0
<1>7. HeardSince(1) BY <1>3, <1>5 DEF TimeInv
<1>8. /\ store.active.spent + more <= heard[store.active.item] /\ after <= heard[player.token]
      /\ \A j \in DOMAIN mail : ~(j < 1) =>
           /\ Lasts(mail[1].offset, mail[1].time, mail[j].offset, mail[j].time)
           /\ mail[j].offset <= player.offset
      /\ player.activity = "PLAYING" => Lasts(mail[1].offset, mail[1].time, player.offset, now)
  BY <1>7 DEF HeardSince
<1>9. /\ store'.active.spent \in Nat /\ store'.active.item = player.token
      /\ store'.active.spent + after <= heard[player.token]
      /\ store'.active.obsOffset = mail[1].offset /\ store'.active.obsTime = mail[1].time
  <2>1. after \in Int BY <1>3, <1>6
  <2> HIDE DEF after
  <2> QED BY <1>4, <1>5, <1>6, <1>8, <2>1 DEF Begins
<1>10. ASSUME NEW offset \in Nat, NEW time,
              Lasts(mail[1].offset, mail[1].time, offset, time), offset <= player.offset
       PROVE  Lasts(store'.active.obsOffset, store'.active.obsTime, offset, time)
              /\ store'.active.spent + (offset - store'.active.obsOffset) + 0
                   <= heard'[store'.active.item]
  <2>1. heard[player.token] \in Nat /\ mail[1].offset \in Nat BY <1>3, <1>5, <1>6
  <2>2. offset - mail[1].offset <= after BY <1>6, <1>10, <2>1
  <2>3. offset - mail[1].offset \in Int /\ after \in Int BY <1>6, <1>10, <2>1
  <2> HIDE DEF after
  <2> QED BY <1>9, <1>10, <2>1, <2>2, <2>3
<1>11. ASSUME NEW k \in DOMAIN mail' PROVE Counted(mail[k].offset, mail[k].time, 0)'
  <2>1. k + 1 \in DOMAIN mail /\ mail'[k] = mail[k + 1] /\ ~(k + 1 < 1) BY <1>3
  <2> QED BY <1>6, <1>8, <1>10, <2>1 DEF Counted
<1>12. player'.activity = "PLAYING" => Counted(player.offset, now, 0)'
  BY <1>2, <1>6, <1>8, <1>10 DEF Counted
<1>13. store'.active.spent <= heard'[store'.active.item]
  <2>1. after >= 0
    <3>1. mail[1].offset <= player.offset BY <1>3, <1>8
    <3> QED BY <1>3, <1>6, <3>1
  <2>2. after \in Int /\ heard[player.token] \in Nat BY <1>3, <1>5, <1>6
  <2> HIDE DEF after
  <2> QED BY <1>9, <2>1, <2>2
<1>14. \A k \in DOMAIN mail' : mail'[k].kind # "started"
  <2>1. \A k \in DOMAIN mail' : k + 1 > 1 BY <1>3
  <2> QED BY <1>3, <1>5, <2>1
<1> QED BY <1>4, <1>11, <1>12, <1>13, <1>14 DEF TimeInv, HeardSo, Begins

\* What comes before the awaited start is delivered.
LEMMA TimeBeforeStart ==
  ASSUME TypeInv, TypeInv', InStepInv, SilentBeforeSearch, TimeInv, mail # <<>>,
         UNCHANGED <<now, heard>>, NEW k \in DOMAIN mail, k # 1, Awaits(k),
         Handle(Head(mail), Tail(mail))
  PROVE  TimeInv'
<1>1. /\ TypeOK /\ mail[1] \in Events /\ Head(mail) = mail[1] /\ 1 \in DOMAIN mail
      /\ Len(mail) \in Nat /\ DOMAIN mail = 1 .. Len(mail) /\ HasSession /\ MailInOrder
  <2>1. TypeOK BY DEF TypeInv
  <2> QED BY <2>1, MailTail, MailRests DEF SilentBeforeSearch, InStepInv
<1>2. /\ 1 < k /\ k \in Nat /\ mail[1].kind \in {"stopped", "progress", "finished"}
      /\ mail[k].kind = "started"
      /\ \A j \in DOMAIN mail : mail[j].kind = "started" => j = k
  <2>1. 1 < k /\ k \in Nat BY <1>1
  <2>2. \A j \in DOMAIN mail : j # k => j < k \/ j > k BY <1>1
  <2> QED BY <1>1, <2>1, <2>2 DEF Awaits, Runs
<1>3. HeardSince(k) BY <1>2 DEF TimeInv
<1>4. /\ now \in Nat /\ player.offset \in Nat /\ heard \in [Items -> Nat]
      /\ \A j \in DOMAIN mail : /\ mail[j].offset \in Nat /\ mail[j].time \in Nat
                                /\ mail[j].token \in Items
      /\ store.active.spent \in Nat /\ store.active.obsOffset \in Nat
      /\ store.active.item \in Items
  BY <1>1, TimesTyped DEF HasSession
<1> DEFINE after == player.offset - mail[k].offset
           more == IF store.active.item = player.token THEN after ELSE 0
<1>5. /\ store.active.spent + more <= heard[store.active.item] /\ after <= heard[player.token]
      /\ \A j \in DOMAIN mail :
           IF j < k
           THEN mail[j].token = store.active.item => Counted(mail[j].offset, mail[j].time, more)
           ELSE /\ Lasts(mail[k].offset, mail[k].time, mail[j].offset, mail[j].time)
                /\ mail[j].offset <= player.offset
      /\ player.activity = "PLAYING" =>
           Lasts(mail[k].offset, mail[k].time, player.offset, now)
  BY <1>3 DEF HeardSince
<1>6. more \in Nat
  <2>1. mail[k].offset <= player.offset BY <1>2, <1>5
  <2> QED BY <1>4, <2>1
<1>7. mail[1].token = store.active.item => Counted(mail[1].offset, mail[1].time, more)
  BY <1>1, <1>2, <1>5
<1>8. /\ player' = player /\ Sends(Tail(mail), <<>>)
      /\ \/ store' = store
         \/ Adds(mail[1]) /\ mail[1].token = store.active.item
  <2>1. CASE Reject(mail[1], Tail(mail)) BY <2>1 DEF Reject, NoDirective
  <2>2. CASE Apply(mail[1], Tail(mail))
    <3>1. NoDirective(Tail(mail)) /\ mail[1].token = store.active.item
      BY <1>2, <2>2 DEF Apply, PlaybackStarted, PlaybackNearlyFinished, PlaybackFinished,
                        PlaybackStopped, PlaybackFailed, PlaybackProgress
    <3>2. Lasts(store.active.obsOffset, store.active.obsTime, mail[1].offset, mail[1].time)
      BY <1>7, <3>1 DEF Counted
    <3>3. Adds(mail[1]) BY <1>1, <1>2, <2>2, <3>2, HandlerAdds DEF TimeInv
    <3> QED BY <3>1, <3>3 DEF NoDirective
  <2> QED BY <1>1, <2>1, <2>2 DEF Handle
<1>9. /\ DOMAIN mail' = 1 .. Len(mail) - 1
      /\ \A j \in DOMAIN mail' : j + 1 \in DOMAIN mail /\ mail'[j] = mail[j + 1]
  BY <1>1, <1>8, TailLeft
<1>10. \A j \in DOMAIN mail' : mail'[j].kind = "started" => j + 1 = k BY <1>2, <1>9
<1>11. /\ store'.active.item = store.active.item
       /\ store'.active.spent + more <= heard'[store'.active.item]
       /\ store'.active.status = "playing" => store'.active.offset = store'.active.obsOffset
  <2>0. /\ store.active.spent + more <= heard[store.active.item] /\ heard' = heard
        /\ store.active.status = "playing" => store.active.offset = store.active.obsOffset
    BY <1>5 DEF TimeInv
  <2> HIDE DEF more
  <2>1. CASE store' = store BY <2>0, <2>1
  <2>2. CASE Adds(mail[1]) /\ mail[1].token = store.active.item
    <3>1. Counted(mail[1].offset, mail[1].time, more) BY <1>7, <2>2
    <3>2. heard[store.active.item] \in Nat /\ mail[1].offset \in Nat BY <1>1, <1>4
    <3>3. /\ store'.active.item = store.active.item /\ store'.active.spent \in Nat
          /\ store'.active.spent
               <= store.active.spent + (mail[1].offset - store.active.obsOffset)
          /\ store'.active.status = "playing" => store'.active.offset = store'.active.obsOffset
      BY <2>2 DEF Adds
    <3>4. store.active.spent + (mail[1].offset - store.active.obsOffset) + more
            <= heard[store.active.item]
      BY <3>1 DEF Counted
    <3>5. store'.active.spent + more <= heard[store.active.item]
      BY <1>4, <1>6, <3>2, <3>3, <3>4, AddsUp
    <3> QED BY <2>0, <3>3, <3>5
  <2> QED BY <1>8, <2>1, <2>2
<1>12. ASSUME NEW j \in DOMAIN mail', j + 1 < k, mail'[j].token = store.active.item
       PROVE  /\ Lasts(store'.active.obsOffset, store'.active.obsTime,
                       mail'[j].offset, mail'[j].time)
              /\ store'.active.spent + (mail'[j].offset - store'.active.obsOffset) + more
                   <= heard'[store'.active.item]
  <2>1. j + 1 \in DOMAIN mail /\ mail'[j] = mail[j + 1] /\ 1 < j + 1 BY <1>1, <1>9
  <2>2. Counted(mail[j + 1].offset, mail[j + 1].time, more) BY <1>5, <1>12, <2>1
  <2>3. mail[1].time <= mail[j + 1].time BY <1>1, <2>1 DEF MailInOrder
  <2> HIDE DEF more
  <2>4. \/ store' = store
        \/ /\ Adds(mail[1])
           /\ Lasts(store.active.obsOffset, store.active.obsTime, mail[1].offset, mail[1].time)
    BY <1>7, <1>8 DEF Counted
  <2>5. /\ mail[1].offset \in Nat /\ mail[1].time \in Nat
        /\ mail[j + 1].offset \in Nat /\ mail[j + 1].time \in Nat
    BY <1>1, <1>4, <2>1
  <2> QED BY <1>1, <1>4, <1>6, <2>1, <2>2, <2>3, <2>4, <2>5, CountedOn
<1>13. ASSUME NEW n \in DOMAIN mail', n + 1 = k PROVE HeardSince(n)'
  <2>1. mail'[n] = mail[k] /\ \A j \in DOMAIN mail' : j < n <=> j + 1 < k BY <1>1, <1>9, <1>13
  <2>2. player'.offset - mail'[n].offset = after BY <1>8, <2>1
  <2>3. more = IF store'.active.item = player'.token THEN after ELSE 0 BY <1>8, <1>11
  <2> HIDE DEF after, more
  <2>4. ASSUME NEW j \in DOMAIN mail', j < n, mail'[j].token = store'.active.item
        PROVE  /\ Lasts(store'.active.obsOffset, store'.active.obsTime,
                        mail'[j].offset, mail'[j].time)
               /\ store'.active.spent + (mail'[j].offset - store'.active.obsOffset) + more
                    <= heard'[store'.active.item]
    BY <1>11, <1>12, <2>1, <2>4
  <2>5. ASSUME NEW j \in DOMAIN mail', ~(j < n)
        PROVE  /\ Lasts(mail'[n].offset, mail'[n].time, mail'[j].offset, mail'[j].time)
               /\ mail'[j].offset <= player'.offset
    BY <1>5, <1>8, <1>9, <2>1, <2>5
  <2> QED BY <1>5, <1>8, <1>11, <2>1, <2>2, <2>3, <2>4, <2>5 DEF HeardSince, Counted
<1>14. \E n \in DOMAIN mail' : n + 1 = k /\ mail'[n].kind = "started"
  <2>1. k - 1 \in DOMAIN mail' /\ (k - 1) + 1 = k BY <1>1, <1>2, <1>9
  <2> QED BY <1>2, <1>9, <2>1
<1> QED BY <1>10, <1>11, <1>13, <1>14 DEF TimeInv

LEMMA TimeByDelivery ==
  ASSUME TypeInv, TypeInv', InStepInv, SilentBeforeSearch, TimeInv, Deliver
  PROVE  TimeInv'
<1>1. /\ mail # <<>> /\ UNCHANGED <<now, heard, disorder>> /\ Handle(Head(mail), Tail(mail))
  BY DEF Deliver, Quiescent
<1>2. Follows \/ \E k \in DOMAIN mail : Awaits(k) BY <1>1 DEF InStepInv
<1>3. CASE Follows BY <1>1, <1>3, TimeByFollowed
<1>4. ASSUME NEW k \in DOMAIN mail, Awaits(k) PROVE TimeInv'
  <2>1. CASE k = 1 BY <1>1, <1>4, <2>1, TimeByStart
  <2>2. CASE k # 1 BY <1>1, <1>4, <2>2, TimeBeforeStart
  <2> QED BY <2>1, <2>2
<1> QED BY <1>2, <1>3, <1>4

\* A command replaces the device's stream.  What it cuts off is counted if the
\* session is still about that item.
LEMMA TimeByPlayDirective ==
  ASSUME TypeInv, TypeInv', mail = <<>>, UNCHANGED <<now, heard>>, Answered,
         NEW i \in Items, NEW offset \in 0 .. Duration, PlayDirective(i, offset),
         store'.active.item = i, store'.active.status # "playing",
         store'.active.spent <= heard[i],
         player.activity = "PLAYING" /\ player.token = i =>
           /\ Lasts(store'.active.obsOffset, store'.active.obsTime, player.offset, now)
           /\ store'.active.spent + (player.offset - store'.active.obsOffset) <= heard[i]
  PROVE  TimeInv'
<1> DEFINE stop == <<"stopped", player.token, player.offset>>
           start == <<"started", i, offset>>
<1>1. /\ TypeOK /\ player \in Players /\ Duration \in Nat /\ offset \in Nat
      /\ mail \in Seq(Events) /\ Len(mail) = 0 /\ DOMAIN mail = {}
      /\ now \in Nat /\ heard \in [Items -> Nat] /\ player.offset \in Nat
  <2>1. TypeOK /\ Duration \in Nat BY PlaybackAssumption DEF TypeInv
  <2>2. player \in Players BY <2>1 DEF TypeOK
  <2> QED BY <2>1, <2>2, MailTail, TimesTyped
<1>2. player' = Streaming(i, offset) /\ Sends(mail, StoppedEvents \o <<start>>)
  BY DEF PlayDirective
<1>3. player'.token = i /\ player'.offset = offset BY <1>2 DEF Streaming
<1>4. start \in Calls BY DEF Calls, Kinds
<1>5. store'.active.spent \in Nat /\ store'.active.obsOffset \in Nat
  <2> HIDE DEF stop, start
  <2>1. TypeOK' BY DEF TypeInv
  <2>2. store' \in Documents' BY <2>1 DEF TypeOK
  <2>3. store'.active \in Sessions' BY <2>2 DEF Documents
  <2>4. store'.active.spent \in Nat /\ store'.active.obsOffset \in 0 .. Duration
    BY <2>3 DEF Sessions
  <2> QED BY <1>1, <2>4
<1>6. CASE player.activity # "PLAYING"
  <2>1. Sends(mail, <<start>>)
    <3>1. StoppedEvents \o <<start>> = <<start>>
      <4> HIDE DEF start
      <4> QED BY <1>6 DEF StoppedEvents
    <3> QED BY <1>2, <3>1
  <2> HIDE DEF start
  <2>2. DOMAIN mail' = {1} /\ Letter(mail'[1], 1, start)
    <3>1. /\ Len(mail') = 0 + 1 /\ DOMAIN mail' = 1 .. 0 + 1
          /\ Letter(mail'[0 + 1], 1, start)
      BY <1>1, <1>4, <2>1, SentOne
    <3>2. 0 + 1 = 1 /\ 1 .. 1 = {1} OBVIOUS
    <3> QED BY <3>1, <3>2
  <2>3. mail'[1].kind = "started" /\ mail'[1].time = now /\ mail'[1].offset = offset
    BY <2>2 DEF Letter, start
  <2>4. \A j \in DOMAIN mail' : j = 1 /\ mail'[j].offset \in Nat /\ ~(j < 1) BY <1>1, <2>2, <2>3
  <2>5. 1 \in DOMAIN mail' /\ DOMAIN mail' \subseteq Nat BY <2>2
  <2> QED BY <1>1, <1>3, <1>5, <2>3, <2>4, <2>5, StartHeard
<1>7. CASE player.activity = "PLAYING"
  <2>1. stop \in Calls BY <1>1, <1>7 DEF TypeInv, PlaysSomething, Players, Calls, Kinds
  <2>2. Sends(mail, <<stop, start>>)
    <3>1. StoppedEvents = <<stop>> BY <1>7 DEF StoppedEvents
    <3> HIDE DEF start, stop
    <3> QED BY <1>2, <1>4, <2>1, <3>1, TwoCallsInOne
  <2> HIDE DEF start, stop
  <2>3. DOMAIN mail' = {1, 2} /\ Letter(mail'[1], 1, stop) /\ Letter(mail'[2], 2, start)
    <3>1. /\ Len(mail') = 0 + 2 /\ DOMAIN mail' = 1 .. 0 + 2
          /\ Letter(mail'[0 + 1], 1, stop) /\ Letter(mail'[0 + 2], 2, start)
      BY <1>1, <1>4, <2>1, <2>2, SentTwo
    <3>2. 0 + 1 = 1 /\ 0 + 2 = 2 /\ 1 .. 2 = {1, 2} OBVIOUS
    <3> QED BY <3>1, <3>2
  <2>4. /\ mail'[1].kind = "stopped" /\ mail'[1].token = player.token
        /\ mail'[1].offset = player.offset /\ mail'[1].time = now
        /\ mail'[2].kind = "started" /\ mail'[2].offset = offset /\ mail'[2].time = now
    BY <2>3 DEF Letter, start, stop
  <2>5. \A j \in DOMAIN mail' :
          /\ j = 2 \/ (j = 1 /\ j < 2)
          /\ j < 2 => j = 1
          /\ mail'[j].offset \in Nat
    BY <1>1, <2>3, <2>4
  <2>6. 2 \in DOMAIN mail' /\ DOMAIN mail' \subseteq Nat BY <2>3
  <2>7. \A j \in DOMAIN mail' : j = 2 \/ (j < 2 /\ mail'[j].kind # "started")
    BY <2>4, <2>5
  <2>8. ASSUME NEW j \in DOMAIN mail', j < 2, mail'[j].token = store'.active.item
        PROVE  /\ Lasts(store'.active.obsOffset, store'.active.obsTime,
                        mail'[j].offset, mail'[j].time)
               /\ store'.active.spent + (mail'[j].offset - store'.active.obsOffset)
                    <= heard'[store'.active.item]
    BY <1>7, <2>4, <2>5, <2>8
  <2> QED BY <1>1, <1>3, <1>5, <2>4, <2>5, <2>6, <2>7, <2>8, StartHeard
<1> QED BY <1>6, <1>7

\* The session and the device stay as they are.
LEMMA TimeStays ==
  ASSUME TypeInv, TimeInv, mail = <<>>, NoDirective(mail), UNCHANGED <<now, heard>>,
         store'.active = store.active
  PROVE  TimeInv'
<1>1. TypeOK /\ mail \in Seq(Events) /\ Len(mail) = 0 /\ DOMAIN mail = {}
  BY MailTail DEF TypeInv
<1>2. player' = player /\ DOMAIN mail' = {} BY <1>1, SentNone
<1> QED BY <1>1, <1>2 DEF TimeInv, HeardSo, Counted, HasSession

LEMMA TimeByRestart ==
  ASSUME TypeInv, TypeInv', TimeInv, mail = <<>>, UNCHANGED <<now, heard>>, Answered,
         HasSession, NEW offset \in 0 .. Duration, Restart(offset)
  PROVE  TimeInv'
<1>1. /\ TypeOK /\ store \in Documents /\ DOMAIN mail = {} /\ store.active \in Sessions
  <2>1. TypeOK BY DEF TypeInv
  <2> QED BY <2>1, MailTail DEF TypeOK, Documents
<1>2. store.active.item \in Items BY <1>1 DEF HasSession, Sessions
<1>3. /\ store'.active.item = store.active.item /\ store'.active.status = "starting"
      /\ store'.active.spent = store.active.spent
      /\ store'.active.obsOffset = store.active.obsOffset
      /\ store'.active.obsTime = store.active.obsTime
  <2>1. store' = [store EXCEPT !.prepared = NoItem, !.active.status = "starting",
                               !.active.offset = offset]
    BY DEF Restart
  <2> QED BY <1>1, <2>1 DEF Documents, Sessions
<1>4. HeardSo BY <1>1 DEF TimeInv
<1>5. PlayDirective(store.active.item, offset) BY DEF Restart
<1>6. player.activity = "PLAYING" =>
        /\ Lasts(store.active.obsOffset, store.active.obsTime, player.offset, now)
        /\ store.active.spent + (player.offset - store.active.obsOffset)
             <= heard[store.active.item]
  <2>1. player.activity = "PLAYING" => Counted(player.offset, now, 0) BY <1>4 DEF HeardSo
  <2>2. /\ store.active.spent \in Nat /\ store.active.obsOffset \in Nat
        /\ player.offset \in Nat
    BY <1>1, TimesTyped
  <2> QED BY <2>1, <2>2 DEF Counted
<1>7. store.active.spent <= heard[store.active.item] BY <1>4 DEF HeardSo
<1> QED BY <1>2, <1>3, <1>5, <1>6, <1>7, TimeByPlayDirective

\* "Next" and "previous" go to another item than the one the device plays.
LEMMA TimeByPlayDelta ==
  ASSUME TypeInv, TypeInv', InStepInv, TimeInv, mail = <<>>, UNCHANGED <<now, heard, disorder>>,
         HasSession, Placed(store), NEW delta \in {1, -1}, PlayDelta(delta)
  PROVE  TimeInv'
<1> DEFINE Target(s) == IF delta > 0 THEN NextUnfinished(s, s.queue.index + delta)
                        ELSE s.queue.index + delta
           Has(s) == Target(s) \in DOMAIN s.queue.ids
           with == IF Has(store) \/ delta < 0 THEN store ELSE WithNextPage(store)
           k == Target(with)
           i == with.queue.ids[k]
<1>1. \/ /\ Has(with)
         /\ store' = [with EXCEPT !.queue.index = k, !.active = Started(i, 0, now)]
         /\ PlayDirective(i, 0)
      \/ store' = with /\ NoDirective(mail)
  <2>1. "backend" \notin disorder' \ disorder OBVIOUS
  <2> QED BY <2>1 DEF PlayDelta
<1>2. TypeOK /\ store \in Documents /\ Answered BY DEF TypeInv, TypeOK, Answered
<1>3. with \in Documents /\ Placed(with) /\ with.active = store.active
  <2> HIDE DEF Has
  <2>1. CASE Has(store) \/ delta < 0 BY <1>2, <2>1
  <2>2. CASE ~(Has(store) \/ delta < 0) BY <1>2, <2>2, NextPageAppends, GrownPlaced
  <2> QED BY <2>1, <2>2
<1>4. Has(with) <=> k \in DOMAIN with.queue.ids OBVIOUS
<1>5. k = IF delta = 1 THEN NextPlace(with) ELSE with.queue.index - 1
  <2>1. with.queue.index \in Nat
    <3> HIDE DEF with
    <3> QED BY <1>3 DEF Documents, Queues
  <2>2. delta = 1 => k = NextUnfinished(with, with.queue.index + 1) OBVIOUS
  <2>3. delta = -1 => k = with.queue.index + delta OBVIOUS
  <2> HIDE DEF with, k
  <2> QED BY <2>1, <2>2, <2>3 DEF NextPlace
<1> HIDE DEF with, Has, k
<1>6. CASE store' = with /\ NoDirective(mail) BY <1>3, <1>6, TimeStays
<1>7. CASE /\ Has(with)
           /\ store' = [with EXCEPT !.queue.index = k, !.active = Started(i, 0, now)]
           /\ PlayDirective(i, 0)
  <2>1. /\ k \in DOMAIN with.queue.ids /\ i \in Items /\ with.queue \in Queues
        /\ with.queue.index \in Nat /\ DOMAIN with.queue.ids \subseteq Nat
    <3>1. with.queue \in Queues /\ with.queue.ids \in Seq(Items) /\ with.queue.index \in Nat
      BY <1>3 DEF Documents, Queues
    <3> QED BY <1>4, <1>7, <3>1, LenProperties
  <2>2. k # with.queue.index
    <3>1. CASE delta = 1
      <4>1. HasNext(with) /\ k = NextPlace(with) BY <1>5, <2>1, <3>1 DEF HasNext
      <4>2. NextPlace(with) > with.queue.index BY <1>3, <4>1, NextAhead
      <4> QED BY <2>1, <4>1, <4>2
    <3>2. CASE delta # 1 BY <1>5, <2>1, <3>2
    <3> QED BY <3>1, <3>2
  <2>3. i # store.active.item BY <1>3, <2>1, <2>2 DEF Placed, Distinct
  <2>4. player.token # i BY <2>3, Quiet
  <2> HIDE DEF i
  <2> DEFINE s == Started(i, 0, now)
  <2>5. s.item = i /\ s.spent = 0 /\ s.status = "starting" BY StartedCounts
  <2> HIDE DEF s
  <2>6. store' = [with EXCEPT !.queue.index = k, !.active = s] BY <1>7 DEF s
  <2>7. store'.active = s BY <1>3, <2>6 DEF Documents
  <2>8. 0 \in 0 .. Duration /\ heard[i] \in Nat
    BY <1>2, <2>1, TimesTyped, PlaybackAssumption
  <2> QED BY <1>2, <1>7, <2>1, <2>4, <2>5, <2>7, <2>8, TimeByPlayDirective
<1> QED BY <1>1, <1>6, <1>7

\* The first search finds the device silent.
LEMMA TimeBySearch ==
  ASSUME MaxSearches <= 1, TypeInv, TypeInv', SilentBeforeSearch, TimeInv, mail = <<>>,
         UNCHANGED <<now, heard, disorder>>, Play
  PROVE  TimeInv'
<1> DEFINE first == Pages[1][1]
           s == Started(first, 0, now)
           q == [ids |-> Pages[1], index |-> 1, page |-> 1]
<1>1. TypeOK /\ PlaysSomething /\ store \in Documents BY DEF TypeInv, TypeOK
<1>2. Searched /\ used.searches < MaxSearches BY <1>1, PlayStep
<1>3. store' = [store EXCEPT !.queue = q, !.active = s] /\ PlayDirective(first, 0)
  BY DEF Play
<1>4. s.item = first /\ s.spent = 0 /\ s.status = "starting" BY StartedCounts
<1>5. first \in Items
  <2>1. Pages \in Seq(Seq(Items)) /\ Pages # <<>> /\ Pages[1] # <<>>
    BY PlaybackAssumption
  <2>2. Pages[1] \in Seq(Items) BY <2>1, EmptySeq, LenProperties, ElementOfSeq
  <2>3. 1 \in DOMAIN Pages[1] BY <2>1, <2>2, EmptySeq, LenProperties
  <2> QED BY <2>2, <2>3, ElementOfSeq, LenProperties
<1> HIDE DEF first, s, q
<1>6. store'.active = s BY <1>1, <1>3 DEF Documents
<1>7. player.activity = "STOPPED"
  <2>1. used.searches \in Nat /\ MaxSearches \in Nat BY <1>1, InputsBound DEF TypeOK
  <2>2. used.searches = 0 BY <1>2, <2>1
  <2> QED BY <2>2 DEF SilentBeforeSearch
<1>8. 0 \in 0 .. Duration /\ heard[first] \in Nat /\ Answered
  BY <1>1, <1>5, TimesTyped, PlaybackAssumption DEF Answered
<1> QED BY <1>3, <1>4, <1>5, <1>6, <1>7, <1>8, TimeByPlayDirective

\* "Pause" counts up to the device's position, as the device's report will.
LEMMA TimeByPause ==
  ASSUME TypeInv, TypeInv', InStepInv, TimeInv, mail = <<>>, UNCHANGED <<now, heard, disorder>>,
         Pause
  PROVE  TimeInv'
<1>1. /\ TypeOK /\ store \in Documents /\ player \in Players /\ store.active \in Sessions
      /\ mail \in Seq(Events) /\ Len(mail) = 0 /\ DOMAIN mail = {} /\ NoItem \notin Items
  <2>1. TypeOK BY DEF TypeInv
  <2> QED BY <2>1, MailTail, PlaybackAssumption DEF TypeOK, Documents
<1>2. Answered BY DEF Answered
<1>3. CASE player.activity # "PLAYING"
  <2>1. NoDirective(mail) BY <1>3 DEF Pause, StopDirective
  <2>2. store'.active = store.active
    <3>1. CASE ~HasSession \/ store.active.status = "completed"
      BY <3>1 DEF Pause
    <3>2. CASE HasSession /\ store.active.status # "completed"
      <4>1. store' = [store EXCEPT !.active.status = "paused"] BY <1>3, <3>2 DEF Pause
      <4>2. Follows BY <3>2, Quiet
      <4>3. player.activity = "STOPPED"
        BY <1>1, <1>3, <3>2, <4>2 DEF Follows, Players
      <4>4. store.active.status = "paused" BY <4>2, <4>3 DEF Follows
      <4> QED BY <1>1, <4>1, <4>4 DEF Documents, Sessions
    <3> QED BY <3>1, <3>2
  <2> QED BY <2>1, <2>2, TimeStays
<1>4. CASE player.activity = "PLAYING"
  <2> DEFINE stop == <<"stopped", player.token, player.offset>>
             delta == ListeningDelta(store.active, "paused", player.offset, now)
             o == ObservedAt(store.active, "paused", "paused", player.offset, now)
  <2>1. player.token \in Items /\ player.token # NoItem /\ player.offset \in 0 .. Duration
    BY <1>1, <1>4 DEF TypeInv, PlaysSomething, Players
  <2>2. Follows /\ store.active.item = player.token BY <2>1, Quiet
  <2>3. HasSession /\ store.active.item \in Items BY <2>1, <2>2 DEF HasSession
  <2>4. HeardSo BY <1>1, <2>3 DEF TimeInv
  <2>5. Counted(player.offset, now, 0) BY <1>4, <2>4 DEF HeardSo
  <2>6. /\ now \in Nat /\ player.offset \in Nat /\ heard[store.active.item] \in Nat
        /\ store.active.spent \in Nat /\ store.active.obsOffset \in Nat
        /\ store.active.obsTime \in Nat
    BY <1>1, <2>3, TimesTyped
  <2>7. delta \in Nat /\ delta <= player.offset - store.active.obsOffset
    BY <2>5, <2>6, DeltaPlayed DEF Counted
  <2>8. /\ o.item = store.active.item /\ o.status = "paused"
        /\ o.spent = store.active.spent + delta
        /\ o.obsOffset = player.offset /\ o.obsTime = now
    <3>1. now \in 0 .. now /\ "paused" \in Statuses BY <2>6 DEF Statuses
    <3>2. o.item = store.active.item /\ o.status = "paused"
      BY <1>1, <2>1, <3>1, ObservedAtTyped
    <3> QED BY <1>1, <3>2, ObservedAtCounts
  <2>9. store' = [store EXCEPT !.active = o]
    BY <1>4, <2>1, <2>2 DEF Pause, Follows, HasSession
  <2> HIDE DEF o, delta
  <2>10. store'.active = o BY <1>1, <2>9 DEF Documents
  <2>11. /\ player' = [player EXCEPT !.activity = "STOPPED"] /\ Sends(mail, <<stop>>)
    BY <1>2, <1>4 DEF Pause, StopDirective, StoppedEvents
  <2>12. player'.activity = "STOPPED" BY <1>1, <2>11 DEF Players
  <2>13. stop \in Calls BY <2>1 DEF Calls, Kinds
  <2> HIDE DEF stop
  <2>14. DOMAIN mail' = {1} /\ Letter(mail'[1], 1, stop)
    <3>1. /\ Len(mail') = 0 + 1 /\ DOMAIN mail' = 1 .. 0 + 1
          /\ Letter(mail'[0 + 1], 1, stop)
      BY <1>1, <2>11, <2>13, SentOne
    <3>2. 0 + 1 = 1 /\ 1 .. 1 = {1} OBVIOUS
    <3> QED BY <3>1, <3>2
  <2>15. mail'[1].kind = "stopped" /\ mail'[1].offset = player.offset /\ mail'[1].time = now
    BY <2>14 DEF Letter, stop
  <2>16. store'.active.spent <= heard'[store'.active.item]
    BY <2>5, <2>6, <2>7, <2>8, <2>10 DEF Counted
  <2>17. Counted(mail[1].offset, mail[1].time, 0)'
    <3>1. o.spent \in Nat BY <2>6, <2>7, <2>8
    <3>2. Lasts(player.offset, now, player.offset, now) BY <2>6 DEF Lasts
    <3>3. o.spent + (player.offset - player.offset) + 0 = o.spent BY <2>6, <3>1
    <3> QED BY <2>8, <2>10, <2>15, <2>16, <3>2, <3>3 DEF Counted
  <2>18. HeardSo' BY <2>12, <2>14, <2>16, <2>17 DEF HeardSo
  <2> QED BY <2>8, <2>10, <2>14, <2>15, <2>18 DEF TimeInv
<1> QED BY <1>3, <1>4

LEMMA TimeByCommand ==
  ASSUME MaxSearches <= 1, TypeInv, TypeInv', InStepInv, CursorInv, SkipInv, TimeInv,
         disorder' = {}, Listener
  PROVE  TimeInv'
<1>1. mail = <<>> /\ UNCHANGED <<now, heard, disorder>>
  <2>1. \E faults : Speaks(faults)
    BY DEF Listener, Play, Pause, Resume, Repeat, ChangeSpeed, Seek, Skip, Previous, Gives
  <2>2. mail = <<>> /\ disorder' = disorder /\ now' = now BY <2>1, SpeaksInOrder
  <2>3. heard' = heard BY <2>1 DEF Speaks
  <2> QED BY <2>2, <2>3
<1>2. Answered /\ SilentBeforeSearch BY <1>1 DEF Answered, CursorInv
<1>3. /\ store.active.offset \in 0 .. Duration /\ 0 \in 0 .. Duration
      /\ Duration \in Nat \ {0} /\ player.offset \in 0 .. Duration
  BY PlaybackAssumption DEF TypeInv, TypeOK, Documents, Sessions, Players
<1>4. HasSession => Placed(store) BY DEF CursorInv, CursorInQueue, SkipInv, Placed
<1>5. CASE Play BY <1>1, <1>2, <1>5, TimeBySearch
<1>6. CASE Pause BY <1>1, <1>6, TimeByPause
<1>7. CASE Resume
  BY <1>1, <1>2, <1>3, <1>4, <1>7, TimeByPlayDelta, TimeByRestart DEF Resume
<1>8. CASE Repeat BY <1>1, <1>2, <1>3, <1>8, TimeByRestart DEF Repeat
<1>9. CASE ChangeSpeed BY <1>1, <1>2, <1>3, <1>9, TimeByRestart DEF ChangeSpeed
<1>10. ASSUME NEW direction \in {1, -1}, Seek(direction) PROVE TimeInv'
  <2> DEFINE current == IF player.activity = "PLAYING" THEN player.offset
                        ELSE store.active.offset
  <2>1. /\ HasSession /\ current + direction \in SeekRange(direction)
        /\ Restart(current + direction)
    BY <1>10 DEF Seek
  <2>2. current \in 0 .. Duration BY <1>3
  <2> HIDE DEF current
  <2>3. current + direction \in 0 .. Duration BY <1>3, <1>10, <2>1, <2>2 DEF SeekRange
  <2> QED BY <1>1, <1>2, <2>1, <2>3, TimeByRestart
<1>11. CASE Skip BY <1>1, <1>4, <1>11, TimeByPlayDelta DEF Skip
<1>12. CASE Previous BY <1>1, <1>4, <1>12, TimeByPlayDelta DEF Previous
<1> QED BY <1>5, <1>6, <1>7, <1>8, <1>9, <1>10, <1>11, <1>12 DEF Listener

LEMMA TimeNext ==
  ASSUME MaxSearches <= 1, TypeInv, TypeInv', CursorInv, SkipInv, OrderlyInv,
         disorder = {} => TimeInv, [Next]_vars
  PROVE  disorder' = {} => TimeInv'
<1>0. TypeOK BY DEF TypeInv
<1>1. disorder' = {} => disorder = {} BY <1>0, StillInOrder DEF TypeInv
<1>2. SUFFICES ASSUME disorder' = {}, InStepInv, TimeInv PROVE TimeInv'
  BY <1>1 DEF OrderlyInv
<1>3. SilentBeforeSearch BY DEF CursorInv
<1>4. CASE Tick BY <1>2, <1>3, <1>4, TimeByTick
<1>5. ASSUME NEW kind \in {"nearly_finished", "progress", "finished"},
             NEW offset, offset = player.offset, player.activity = "PLAYING",
             player'.token = player.token, player'.offset = player.offset,
             UNCHANGED <<store, now, heard>>, Sends(mail, << <<kind, player.token, offset>> >>)
      PROVE  TimeInv'
  <2> DEFINE call == <<kind, player.token, offset>>
  <2>1. player.token \in Items /\ player.offset \in 0 .. Duration
    BY <1>0, <1>5 DEF TypeInv, PlaysSomething, TypeOK, Players
  <2>2. call \in Calls /\ call[1] # "started" /\ call[3] = player.offset
    BY <1>5, <2>1 DEF Calls, Kinds
  <2>3. Sends(mail, <<call>>) BY <1>5
  <2> HIDE DEF call
  <2> QED BY <1>2, <1>3, <1>5, <2>2, <2>3, TimeByReport
<1>6. player \in Players BY <1>0 DEF TypeOK
<1>7. CASE NearlyFinish
  <2>1. /\ player.activity = "PLAYING" /\ UNCHANGED <<store, now, heard>>
        /\ player' = [player EXCEPT !.announced = TRUE]
        /\ Sends(mail, << <<"nearly_finished", player.token, player.offset>> >>)
    BY <1>7 DEF NearlyFinish
  <2>2. player'.token = player.token /\ player'.offset = player.offset
    BY <1>6, <2>1 DEF Players
  <2> QED BY <1>5, <2>1, <2>2
<1>8. CASE Report
  <2>1. /\ player.activity = "PLAYING" /\ UNCHANGED <<store, player, now, heard>>
        /\ Sends(mail, << <<"progress", player.token, player.offset>> >>)
    BY <1>8 DEF Report
  <2> QED BY <1>5, <2>1
<1>9. CASE Finish
  <2>1. CASE player.upcoming # NoItem BY <1>2, <1>3, <1>9, <2>1, TimeByNextStream
  <2>2. CASE player.upcoming = NoItem
    <3>1. /\ player.activity = "PLAYING" /\ UNCHANGED <<store, now, heard>>
          /\ player.offset = Duration
          /\ player' = [player EXCEPT !.activity = "FINISHED"]
          /\ Sends(mail, << <<"finished", player.token, Duration>> >>)
      BY <1>9, <2>2 DEF Finish
    <3>2. player'.token = player.token /\ player'.offset = player.offset
      BY <1>6, <3>1 DEF Players
    <3> QED BY <1>5, <3>1, <3>2
  <2> QED BY <2>1, <2>2
<1>10. CASE Fail BY <1>2, <1>10 DEF Fail, Irregular
<1>11. CASE Deliver BY <1>2, <1>3, <1>11, TimeByDelivery
<1>12. CASE DeliverEarly \/ DeliverAndRepeat \/ Lose \/ DeliverInVain
  BY <1>2, <1>12 DEF DeliverEarly, DeliverAndRepeat, Lose, DeliverInVain, Irregular
<1>13. CASE Listener BY <1>2, <1>13, TimeByCommand
<1>14. CASE UNCHANGED vars
  BY <1>2, <1>14 DEF vars, TimeInv, HeardSo, HeardSince, Counted, HasSession
<1> QED
  BY <1>4, <1>7, <1>8, <1>9, <1>10, <1>11, <1>12, <1>13, <1>14 DEF Next, Device, Network

LEMMA TimeInit == Init => TimeInv
<1> SUFFICES ASSUME Init PROVE TimeInv OBVIOUS
<1>1. mail = <<>> /\ DOMAIN mail = {} /\ store.active = NoSession BY DEF Init
<1>2. store.active.item = NoItem /\ store.active.status = "none" BY <1>1 DEF NoSession
<1> QED BY <1>1, <1>2 DEF TimeInv, HasSession

\* Within one search, while the device's events arrive in order, each once, and every
\* command finds them handled: the listening time that a session has added up, over
\* pauses, seeks, repetitions and changes of speed, was heard of its item.
THEOREM OnlyHeardIsCounted == ASSUME MaxSearches <= 1 PROVE Spec => []TimeWasHeard
<1>0. SearchesAnswered BY DEF SearchesAnswered
<1>1. ASSUME TypeInv, disorder = {} => TimeInv PROVE TimeWasHeard
  <2> SUFFICES ASSUME HasSession, TimeInv
               PROVE  store.active.spent <= heard[store.active.item]
    BY <1>1 DEF TimeWasHeard
  <2>1. CASE \A k \in DOMAIN mail : mail[k].kind # "started"
    BY <2>1 DEF TimeInv, HeardSo
  <2>2. ASSUME NEW k \in DOMAIN mail, mail[k].kind = "started"
        PROVE  store.active.spent <= heard[store.active.item]
    <3> DEFINE after == player.offset - mail[k].offset
    <3>1. HeardSince(k) BY <2>2 DEF TimeInv
    <3>2. mail[k].offset <= player.offset
      <4>1. ~(k < k) BY <1>1, <2>2, MailTail DEF TypeInv
      <4> QED BY <2>2, <3>1, <4>1 DEF HeardSince
    <3>3. /\ player.offset \in Nat /\ mail[k].offset \in Nat /\ heard \in [Items -> Nat]
          /\ store.active.spent \in Nat /\ store.active.item \in Items
      BY <1>1, <2>2, TimesTyped DEF TypeInv, TypeOK, Documents, Sessions, HasSession
    <3>4. heard[store.active.item] \in Nat BY <3>3
    <3>5. store.active.spent + (IF store.active.item = player.token THEN after ELSE 0)
            <= heard[store.active.item]
      BY <3>1 DEF HeardSince
    <3> QED BY <3>2, <3>3, <3>4, <3>5
  <2> QED BY <2>1, <2>2
<1>2. Init => EndWasHeard /\ CursorInv /\ SkipInv /\ OrderlyInv /\ (disorder = {} => TimeInv)
  BY EndInit, CursorInit, SkipInit, OrderlyInit, TimeInit
<1>3. /\ TypeInv /\ TypeInv' /\ EndWasHeard /\ CursorInv /\ SkipInv /\ OrderlyInv
      /\ (disorder = {} => TimeInv) /\ [Next]_vars
      => EndWasHeard' /\ CursorInv' /\ SkipInv' /\ OrderlyInv' /\ (disorder = {} => TimeInv)'
  <2> SUFFICES ASSUME TypeInv, TypeInv', EndWasHeard, CursorInv, SkipInv, OrderlyInv,
                      disorder = {} => TimeInv, [Next]_vars
               PROVE  /\ EndWasHeard' /\ CursorInv' /\ SkipInv' /\ OrderlyInv'
                      /\ disorder' = {} => TimeInv'
    OBVIOUS
  <2>1. EndWasHeard' BY EndNext
  <2>2. CursorInv' BY <1>0, <2>1, CursorNext
  <2>3. SkipInv' BY <1>0, <2>1, SkipNext
  <2>4. OrderlyInv' BY OrderlyNext
  <2>5. disorder' = {} => TimeInv' BY TimeNext
  <2> QED BY <2>1, <2>2, <2>3, <2>4, <2>5
<1>4. TypeInv /\ (disorder = {} => TimeInv) => TimeWasHeard BY <1>1
<1> QED BY <1>2, <1>3, <1>4, TypeAlways, PTL DEF Spec

-----------------------------------------------------------------------------
(* The end of the results *)

\* The next page is loaded, or nothing is.
Loads(q, r) == HasMorePages(q) /\ r.ids = q.ids \o Unseen(q) /\ r.page = q.page + 1
SamePages(q, r) == r.ids = q.ids /\ r.page = q.page

LEMMA NextPageLoads ==
  ASSUME NEW s \in Documents
  PROVE  /\ HasMorePages(s.queue) => Loads(s.queue, WithNextPage(s).queue)
         /\ ~HasMorePages(s.queue) => WithNextPage(s) = s
BY DEF WithNextPage, Loads, Documents, Queues

LEMMA PageStays ==
  ASSUME NEW q \in Queues, NEW i PROVE SamePages(q, AtContent(q, i))
BY DEF SamePages, AtContent, Queues

\* The handler that looks for the successor loads one page at most, ...
LEMMA SuccessorLoads ==
  ASSUME TypeOK, NEW e \in Events, NEW rest, NEW loads, NEW finds,
         PlaybackNearlyFinished(e, rest, loads, finds)
  PROVE  SamePages(store.queue, store'.queue) \/ Loads(store.queue, store'.queue)
<1>0. /\ store \in Documents /\ store.queue \in Queues /\ store.active \in Sessions
      /\ store.active.offset \in 0 .. Duration /\ e.offset \in 0 .. Duration
      /\ "playing" \in Statuses
  BY EventTyped DEF Sessions
<1> DEFINE offset == IF e.offset = 0 THEN store.active.offset ELSE e.offset
           o == Observed(store.active, e, "playing", offset)
           seen == [store EXCEPT !.active = o]
           atEnd == NextUnfinished(seen, seen.queue.index + 1) \notin DOMAIN seen.queue.ids
           with == IF atEnd /\ loads THEN WithNextPage(seen) ELSE seen
           next == NextUnfinished(with, with.queue.index + 1)
<1>1. \/ store' = [with EXCEPT !.prepared = with.queue.ids[next]]
      \/ store' = with
  BY DEF PlaybackNearlyFinished
<1>2. offset \in 0 .. Duration BY <1>0
<1>3. o \in Sessions BY <1>0, <1>2, ObservedTyped
<1> HIDE DEF o
<1>4. seen \in Documents /\ seen.queue = store.queue BY <1>0, <1>3 DEF Documents
<1> HIDE DEF seen, atEnd
<1>5. /\ with \in Documents
      /\ SamePages(store.queue, with.queue) \/ Loads(store.queue, with.queue)
  <2>1. CASE with = seen BY <1>4, <2>1 DEF SamePages
  <2>2. CASE with = WithNextPage(seen)
    <3> HIDE DEF with
    <3>1. with \in Documents BY <1>4, <2>2, NextPageAppends
    <3>2. WithNextPage(seen) = seen \/ Loads(store.queue, with.queue)
      BY <1>4, <2>2, NextPageLoads
    <3> QED BY <1>4, <2>2, <3>1, <3>2 DEF SamePages
  <2> QED BY <2>1, <2>2
<1> HIDE DEF with, next
<1>6. store'.queue = with.queue BY <1>1, <1>5 DEF Documents
<1> QED BY <1>5, <1>6

\* ... and the others load none.
LEMMA OthersLoad ==
  ASSUME TypeOK, NEW e \in Events, NEW rest,
         \/ PlaybackStarted(e, rest) \/ PlaybackFinished(e, rest)
         \/ PlaybackStopped(e, rest) \/ PlaybackFailed(e, rest) \/ PlaybackProgress(e, rest)
  PROVE  SamePages(store.queue, store'.queue)
<1>0. store \in Documents /\ store.queue \in Queues BY DEF TypeOK, Documents
<1>1. CASE PlaybackStarted(e, rest)
  <2>1. store'.queue = store.queue \/ store'.queue = AtContent(store.queue, e.token)
    BY <1>0, <1>1 DEF PlaybackStarted, Documents
  <2> QED BY <1>0, <2>1, PageStays DEF SamePages
<1>2. CASE PlaybackFinished(e, rest)
  <2>1. store'.queue = AtContent(store.queue, e.token)
    BY <1>0, <1>2 DEF PlaybackFinished, Documents
  <2> QED BY <1>0, <2>1, PageStays
<1>3. CASE PlaybackStopped(e, rest) \/ PlaybackFailed(e, rest) \/ PlaybackProgress(e, rest)
  <2>1. store'.queue = store.queue
    BY <1>0, <1>3 DEF PlaybackStopped, PlaybackFailed, PlaybackProgress, Documents
  <2> QED BY <2>1 DEF SamePages
<1> QED BY <1>1, <1>2, <1>3

LEMMA NetworkLoads ==
  ASSUME TypeOK, Network
  PROVE  SamePages(store.queue, store'.queue) \/ Loads(store.queue, store'.queue)
<1>1. /\ \A k \in DOMAIN mail : mail[k] \in Events
      /\ mail # <<>> => Head(mail) = mail[1] /\ 1 \in DOMAIN mail
  BY MailRests
<1>2. ASSUME NEW e \in Events, NEW rest, Handle(e, rest)
      PROVE  SamePages(store.queue, store'.queue) \/ Loads(store.queue, store'.queue)
  <2>1. CASE Apply(e, rest) BY <2>1, SuccessorLoads, OthersLoad DEF Apply
  <2>2. CASE Reject(e, rest) BY <2>2 DEF Reject, SamePages
  <2> QED BY <1>2, <2>1, <2>2 DEF Handle
<1>3. CASE Deliver \/ DeliverAndRepeat
  BY <1>1, <1>2, <1>3 DEF Deliver, DeliverAndRepeat
<1>4. CASE DeliverEarly BY <1>1, <1>2, <1>4 DEF DeliverEarly
<1>5. CASE Lose BY <1>5 DEF Lose, SamePages
<1>6. CASE DeliverInVain
  <2>1. \E loads, finds \in BOOLEAN : PlaybackNearlyFinished(mail[1], Tail(mail), loads, finds)
    BY <1>1, <1>6 DEF DeliverInVain
  <2> QED BY <1>1, <1>6, <2>1, SuccessorLoads DEF DeliverInVain
<1> QED BY <1>3, <1>4, <1>5, <1>6 DEF Network

\* A command loads one page at most, or the first page of a search.
LEMMA CommandLoads ==
  ASSUME TypeOK, Listener
  PROVE  \/ SamePages(store.queue, store'.queue) \/ Loads(store.queue, store'.queue)
         \/ store'.queue.ids = Pages[1] /\ store'.queue.page = 1
<1>0. store \in Documents /\ store.queue \in Queues BY DEF TypeOK, Documents
<1>1. CASE Play
  <2>1. store' = [store EXCEPT
          !.queue = [ids |-> Pages[1], index |-> 1, page |-> 1],
          !.active = Started(Pages[1][1], 0, now)]
    BY <1>1 DEF Play
  <2> QED BY <1>0, <2>1 DEF Documents
<1>2. ASSUME NEW offset, Restart(offset) PROVE SamePages(store.queue, store'.queue)
  BY <1>0, <1>2 DEF Restart, Documents, SamePages
<1>3. CASE Pause BY <1>0, <1>3 DEF Pause, Documents, SamePages
<1>4. ASSUME NEW delta \in {1, -1}, PlayDelta(delta)
      PROVE  SamePages(store.queue, store'.queue) \/ Loads(store.queue, store'.queue)
  <2> DEFINE Target(s) == IF delta > 0 THEN NextUnfinished(s, s.queue.index + delta)
                          ELSE s.queue.index + delta
             Has(s) == Target(s) \in DOMAIN s.queue.ids
             with == IF Has(store) \/ delta < 0 THEN store ELSE WithNextPage(store)
  <2>1. \/ store' = [with EXCEPT !.queue.index = Target(with),
                        !.active = Started(with.queue.ids[Target(with)], 0, now)]
        \/ store' \in {store, with}
    BY <1>4 DEF PlayDelta
  <2> HIDE DEF Target, Has
  <2>2. /\ with \in Documents
        /\ SamePages(store.queue, with.queue) \/ Loads(store.queue, with.queue)
    <3>1. CASE with = store BY <1>0, <3>1 DEF SamePages
    <3>2. CASE with = WithNextPage(store)
      <4> HIDE DEF with
      <4>1. with \in Documents BY <1>0, <3>2, NextPageAppends
      <4>2. WithNextPage(store) = store \/ Loads(store.queue, with.queue)
        BY <1>0, <3>2, NextPageLoads
      <4> QED BY <1>0, <3>2, <4>1, <4>2 DEF SamePages
    <3> QED BY <3>1, <3>2
  <2> HIDE DEF with
  <2>3. CASE store' = store BY <2>3 DEF SamePages
  <2>4. CASE store' = with BY <2>2, <2>4
  <2>5. CASE store' = [with EXCEPT !.queue.index = Target(with),
                         !.active = Started(with.queue.ids[Target(with)], 0, now)]
    <3>1. store'.queue.ids = with.queue.ids /\ store'.queue.page = with.queue.page
      BY <2>2, <2>5 DEF Documents, Queues
    <3> QED BY <2>2, <3>1 DEF SamePages, Loads
  <2> QED BY <2>1, <2>3, <2>4, <2>5
<1>5. CASE Resume BY <1>2, <1>4, <1>5 DEF Resume
<1>6. CASE Repeat \/ ChangeSpeed \/ Seek(1) \/ Seek(-1)
  BY <1>2, <1>6 DEF Repeat, ChangeSpeed, Seek
<1>7. CASE Skip \/ Previous BY <1>4, <1>7 DEF Skip, Previous
<1> QED BY <1>1, <1>3, <1>5, <1>6, <1>7 DEF Listener

LEMMA LoadsFromPages ==
  ASSUME NEW q \in Queues, NEW r, FromPages(q), SamePages(q, r) \/ Loads(q, r)
  PROVE  FromPages(r)
<1>1. CASE SamePages(q, r) BY <1>1 DEF SamePages, FromPages
<1>2. CASE Loads(q, r)
  <2> DEFINE u == Unseen(q)
             ids == q.ids
  <2>1. /\ HasMorePages(q) /\ r.ids = ids \o u /\ r.page = q.page + 1
        /\ ids \in Seq(Items) /\ u \in Seq(Items)
    BY <1>2, UnseenTyped DEF Loads, Queues
  <2>2. /\ q.page \in Nat /\ Len(Pages) \in Nat /\ DOMAIN Pages = 1 .. Len(Pages)
        /\ q.page + 1 \in DOMAIN Pages
    <3>1. q.page \in Nat /\ Len(Pages) \in Nat /\ DOMAIN Pages = 1 .. Len(Pages)
      BY PlaybackAssumption, LenProperties DEF Queues
    <3> QED BY <2>1, <3>1 DEF HasMorePages
  <2>3. \A k \in DOMAIN u : \E j \in DOMAIN Pages[q.page + 1] : Pages[q.page + 1][j] = u[k]
    BY <2>1, UnseenNew
  <2>4. \A k \in DOMAIN ids : \E p \in 1 .. q.page :
          \E j \in DOMAIN Pages[p] : Pages[p][j] = ids[k]
    BY DEF FromPages
  <2> HIDE DEF u, ids
  <2>5. /\ DOMAIN ids = 1 .. Len(ids) /\ Len(ids) \in Nat
        /\ DOMAIN u = 1 .. Len(u) /\ Len(u) \in Nat
        /\ DOMAIN (ids \o u) = 1 .. Len(ids) + Len(u)
        /\ \A k \in 1 .. Len(ids) + Len(u) :
             (ids \o u)[k] = IF k <= Len(ids) THEN ids[k] ELSE u[k - Len(ids)]
    BY <2>1, ConcatProperties, LenProperties
  <2>6. ASSUME NEW k \in DOMAIN r.ids
        PROVE  \E p \in 1 .. r.page : \E j \in DOMAIN Pages[p] : Pages[p][j] = r.ids[k]
    <3>1. k \in 1 .. Len(ids) + Len(u) BY <2>1, <2>5, <2>6
    <3>2. CASE k <= Len(ids)
      <4>1. k \in DOMAIN ids /\ r.ids[k] = ids[k] BY <2>1, <2>5, <3>1, <3>2
      <4>2. 1 .. q.page \subseteq 1 .. r.page BY <2>1, <2>2
      <4> QED BY <2>4, <4>1, <4>2
    <3>3. CASE ~(k <= Len(ids))
      <4>1. k - Len(ids) \in DOMAIN u /\ r.ids[k] = u[k - Len(ids)]
        BY <2>1, <2>5, <3>1, <3>3
      <4>2. r.page \in 1 .. r.page BY <2>1, <2>2
      <4> QED BY <2>1, <2>3, <4>1, <4>2
    <3> QED BY <3>2, <3>3
  <2> QED BY <2>1, <2>2, <2>6 DEF FromPages
<1> QED BY <1>1, <1>2

LEMMA PagesNext ==
  ASSUME TypeInv, FromPages(store.queue), [Next]_vars PROVE FromPages(store'.queue)
<1>1. TypeOK /\ store.queue \in Queues BY DEF TypeInv, TypeOK, Documents
<1>2. CASE Network BY <1>1, <1>2, NetworkLoads, LoadsFromPages
<1>3. CASE Listener
  <2>1. CASE store'.queue.ids = Pages[1] /\ store'.queue.page = 1
    <3>1. 1 \in DOMAIN Pages
      <4>1. Pages \in Seq(Seq(Items)) /\ Pages # <<>> BY PlaybackAssumption
      <4> QED BY <4>1, EmptySeq, LenProperties
    <3>2. 1 \in 1 .. 1 OBVIOUS
    <3> QED BY <2>1, <3>1, <3>2 DEF FromPages
  <2>2. CASE SamePages(store.queue, store'.queue) \/ Loads(store.queue, store'.queue)
    BY <1>1, <2>2, LoadsFromPages
  <2> QED BY <1>1, <1>3, <2>1, <2>2, CommandLoads
<1>4. CASE Device \/ UNCHANGED vars
  <2>1. store' = store
    BY <1>4 DEF Device, Tick, NearlyFinish, Report, Finish, Fail, vars
  <2> QED BY <2>1
<1> QED BY <1>2, <1>3, <1>4 DEF Next

LEMMA PagesInit == Init => FromPages(store.queue)
<1> SUFFICES ASSUME Init PROVE FromPages(store.queue) OBVIOUS
<1>1. store.queue.ids = <<>> /\ store.queue.page = 1 BY DEF Init
<1>2. 1 \in DOMAIN Pages
  <2>1. Pages \in Seq(Seq(Items)) /\ Pages # <<>> BY PlaybackAssumption
  <2> QED BY <2>1, EmptySeq, LenProperties
<1>3. DOMAIN store.queue.ids = {} BY <1>1
<1> QED BY <1>1, <1>2, <1>3 DEF FromPages

\* A page adds an item, if every page does.
LEMMA PageGrows ==
  ASSUME PagesAdd, NEW q \in Queues, NEW r, FromPages(q), Loads(q, r)
  PROVE  Len(r.ids) > Len(q.ids)
<1> DEFINE n == q.page + 1
           u == Unseen(q)
<1>1. /\ q.page \in Nat /\ n \in Nat /\ DOMAIN Pages = 1 .. Len(Pages) /\ n \in DOMAIN Pages
      /\ n # 1 /\ q.page = n - 1
  <2>1. q.page \in DOMAIN Pages /\ Len(Pages) \in Nat /\ DOMAIN Pages = 1 .. Len(Pages)
    BY PlaybackAssumption, LenProperties DEF FromPages
  <2> QED BY <2>1 DEF Loads, HasMorePages
<1>2. PICK k \in DOMAIN Pages[n] :
        \A p \in 1 .. n - 1 : \A j \in DOMAIN Pages[p] : Pages[p][j] # Pages[n][k]
  BY <1>1 DEF PagesAdd
<1>3. ~InQueue(q, Pages[n][k])
  <2>1. \A j \in DOMAIN q.ids : \E p \in 1 .. n - 1 :
          \E i \in DOMAIN Pages[p] : Pages[p][i] = q.ids[j]
    BY <1>1 DEF FromPages
  <2> QED BY <1>2, <2>1 DEF InQueue
<1>4. HasMorePages(q) /\ r.ids = q.ids \o u BY DEF Loads
<1>5. 1 \in DOMAIN u BY <1>3, <1>4, UnseenNew
<1>6. u \in Seq(Items) /\ q.ids \in Seq(Items) BY <1>4, UnseenTyped DEF Queues
<1> HIDE DEF u
<1>7. Len(u) \in Nat /\ DOMAIN u = 1 .. Len(u) /\ Len(q.ids) \in Nat BY <1>6, LenProperties
<1>8. Len(r.ids) = Len(q.ids) + Len(u) BY <1>4, <1>6, ConcatProperties
<1> QED BY <1>5, <1>7, <1>8

\* An item comes next as long as the index is not at the last place.
LEMMA NextBeforeLast ==
  ASSUME NEW s \in Documents, Placed(s)
  PROVE  /\ HasNext(s) <=> s.queue.index < Len(s.queue.ids)
         /\ s.queue.index <= Len(s.queue.ids) /\ s.queue.index \in Nat
         /\ Len(s.queue.ids) \in Nat
<1>1. /\ s.queue.ids \in Seq(Items) /\ s.queue.index \in Nat /\ Len(s.queue.ids) \in Nat
      /\ DOMAIN s.queue.ids = 1 .. Len(s.queue.ids)
  BY LenProperties DEF Documents, Queues
<1>2. s.queue.index <= Len(s.queue.ids) BY <1>1 DEF Placed
<1>3. HasNext(s) => s.queue.index < Len(s.queue.ids)
  <2> SUFFICES ASSUME HasNext(s) PROVE s.queue.index < Len(s.queue.ids) OBVIOUS
  <2>1. NextPlace(s) > s.queue.index BY NextAhead
  <2>2. NextPlace(s) \in 1 .. Len(s.queue.ids) BY <1>1 DEF HasNext
  <2> QED BY <1>1, <2>1, <2>2
<1>4. s.queue.index < Len(s.queue.ids) => HasNext(s)
  <2> SUFFICES ASSUME s.queue.index < Len(s.queue.ids) PROVE HasNext(s) OBVIOUS
  <2>1. /\ Open(s) \subseteq Nat
        /\ NextPlace(s) = IF Open(s) = {} THEN s.queue.index + 1 ELSE Smallest(Open(s))
    BY NextPlaceOf
  <2>2. CASE Open(s) = {} BY <1>1, <2>1, <2>2 DEF HasNext
  <2>3. CASE Open(s) # {}
    <3>1. Smallest(Open(s)) \in Open(s) BY <2>1, <2>3, SmallestIsLeast
    <3> QED BY <2>1, <2>3, <3>1 DEF Open, HasNext
  <2> QED BY <2>2, <2>3
<1> QED BY <1>1, <1>2, <1>3, <1>4

\* The successor is handed to the device, or is prepared already, or there is none.
LEMMA SuccessorFound ==
  ASSUME TypeOK, PagesAdd, FromPages(store.queue), Placed(store),
         NEW e \in Events, NEW rest, PlaybackNearlyFinished(e, rest, TRUE, TRUE)
  PROVE  \/ \E i \in Items : store'.prepared = i /\ EnqueueDirective(i, e.token, rest)
         \/ /\ NoDirective(rest)
            /\ \/ store'.prepared \notin {NoItem, store.active.item}
               \/ AtLastItem(store'.queue)
<1> DEFINE offset == IF e.offset = 0 THEN store.active.offset ELSE e.offset
           o == Observed(store.active, e, "playing", offset)
           seen == [store EXCEPT !.active = o]
           with == IF ~HasNext(seen) THEN WithNextPage(seen) ELSE seen
<1>0. /\ store.active \in Sessions /\ store.queue \in Queues /\ e.token \in Items
      /\ "playing" \in Statuses /\ offset \in 0 .. Duration
      /\ store \in Documents /\ store.active.item = e.token /\ NoItem \notin Items
  BY PlaybackAssumption, EventTyped DEF Sessions, PlaybackNearlyFinished
<1>1. o \in Sessions /\ o.item = store.active.item BY <1>0, ObservedTyped
<1>2. IF HasNext(with) /\ NextItem(with) # store.prepared
        THEN /\ store' = [with EXCEPT !.prepared = NextItem(with)]
             /\ EnqueueDirective(NextItem(with), e.token, rest)
        ELSE store' = with /\ NoDirective(rest)
  BY DEF PlaybackNearlyFinished, HasNext, NextItem, NextPlace
<1>3. /\ seen \in Documents /\ seen.active = o /\ seen.queue = store.queue
      /\ seen.prepared = store.prepared
  <2> HIDE DEF o
  <2>1. seen \in Documents BY <1>0, <1>1 DEF Documents
  <2> QED BY <1>0, <2>1 DEF Documents
<1> HIDE DEF o, seen, offset
<1>4. Placed(seen) BY <1>1, <1>3 DEF Placed
<1>5. /\ with \in Documents /\ Placed(with) /\ with.active = seen.active
      /\ with.prepared = store.prepared
  <2>1. CASE ~HasNext(seen)
    <3>1. with = WithNextPage(seen) BY <2>1
    <3> HIDE DEF with
    <3>2. with \in Documents BY <1>3, <3>1, NextPageAppends
    <3>3. Placed(with) BY <1>3, <1>4, <3>1, <3>2, GrownPlaced
    <3> QED BY <1>3, <3>1, <3>2, <3>3, NextPageAppends
  <2>2. CASE HasNext(seen) BY <1>3, <1>4, <2>2
  <2> QED BY <2>1, <2>2
<1>6. ~HasNext(with) => AtLastItem(with.queue)
  <2> SUFFICES ASSUME ~HasNext(with) PROVE AtLastItem(with.queue) OBVIOUS
  <2>1. with = WithNextPage(seen) /\ ~HasNext(seen) OBVIOUS
  <2> HIDE DEF with
  <2>2. ~HasMorePages(seen.queue)
    <3> SUFFICES ASSUME HasMorePages(seen.queue) PROVE FALSE OBVIOUS
    <3>1. Loads(seen.queue, with.queue) BY <1>3, <2>1, NextPageLoads
    <3>2. Len(with.queue.ids) > Len(seen.queue.ids) BY <1>0, <1>3, <3>1, PageGrows
    <3>3. with.queue.index = seen.queue.index BY <1>3, <2>1, NextPageAppends
    <3>4. /\ ~(with.queue.index < Len(with.queue.ids))
          /\ seen.queue.index <= Len(seen.queue.ids)
          /\ seen.queue.index \in Nat /\ Len(seen.queue.ids) \in Nat
          /\ Len(with.queue.ids) \in Nat
      BY <1>3, <1>4, <1>5, NextBeforeLast
    <3> QED BY <3>2, <3>3, <3>4
  <2>3. with = seen BY <1>3, <2>1, <2>2, NextPageLoads
  <2>4. ~(with.queue.index < Len(with.queue.ids)) /\ with.queue.index <= Len(with.queue.ids)
        /\ with.queue.index \in Nat /\ Len(with.queue.ids) \in Nat
    BY <1>5, NextBeforeLast
  <2> QED BY <2>2, <2>3, <2>4 DEF AtLastItem
<1> HIDE DEF with
<1>7. HasNext(with) => NextItem(with) \in Items /\ NextItem(with) # store.active.item
  <2>1. with.queue.ids \in Seq(Items) BY <1>5 DEF Documents, Queues
  <2>2. HasNext(with) => NextItem(with) \in Items
    BY <2>1, LenProperties DEF HasNext, NextItem
  <2> QED BY <1>1, <1>3, <1>5, <2>2, NextAhead
<1>8. CASE HasNext(with) /\ NextItem(with) # store.prepared
  <2>1. store'.prepared = NextItem(with) BY <1>2, <1>5, <1>8 DEF Documents
  <2> QED BY <1>2, <1>7, <1>8, <2>1
<1>9. CASE HasNext(with) /\ NextItem(with) = store.prepared
  BY <1>0, <1>2, <1>5, <1>7, <1>9
<1>10. CASE ~HasNext(with) BY <1>2, <1>6, <1>10
<1> QED BY <1>8, <1>9, <1>10

\* The others leave the session where it is.
LEMMA OthersStay ==
  ASSUME TypeOK, NEW e \in Events, NEW rest, Placed(store),
         PlaybackFinished(e, rest) \/ PlaybackStopped(e, rest) \/ PlaybackProgress(e, rest)
  PROVE  /\ SamePages(store.queue, store'.queue) /\ store'.queue.index = store.queue.index
         /\ store'.active.item = store.active.item /\ store'.prepared = store.prepared
         /\ store'.active.lastKind = e.kind /\ NoDirective(rest)
<1>1. SamePages(store.queue, store'.queue) BY OthersLoad
<1>2. TurnsOn(rest) BY FinishedTurns, OtherTurns
<1>3. /\ store'.active.lastKind = e.kind /\ store'.prepared = store.prepared
      /\ NoDirective(rest)
  BY FinishedSees, StoppedSees, ProgressSees DEF Sees
<1> QED BY <1>1, <1>2, <1>3 DEF TurnsOn, GoesOn

\* An event other than the announcement has been taken, and no start is on its way.
LEMMA SilentTaken ==
  ASSUME TypeOK, mail # <<>>, SilentInv, NoDirective(Tail(mail)), ~Told("started"),
         mail[1].kind # "nearly_finished",
         SamePages(store.queue, store'.queue), store'.queue.index = store.queue.index,
         store'.active.item = store.active.item, store'.prepared = store.prepared,
         store'.active.lastKind \in {store.active.lastKind, mail[1].kind}
  PROVE  SilentInv'
<1>1. player' = player /\ Sends(Tail(mail), <<>>) BY DEF NoDirective
<1>2. /\ Len(mail) \in Nat /\ DOMAIN mail = 1 .. Len(mail) /\ DOMAIN mail' = 1 .. Len(mail) - 1
      /\ \A k \in DOMAIN mail' : k + 1 \in DOMAIN mail /\ mail'[k] = mail[k + 1]
  BY <1>1, TailLeft
<1>3. ~Told("started")' BY <1>2 DEF Told
<1>4. Told("nearly_finished")' <=> Told("nearly_finished")
  <2>1. Told("nearly_finished")' => Told("nearly_finished") BY <1>2 DEF Told
  <2>2. ASSUME NEW k \in DOMAIN mail, mail[k].kind = "nearly_finished"
        PROVE  Told("nearly_finished")'
    <3>1. k - 1 \in DOMAIN mail' /\ k - 1 + 1 = k BY <1>2, <2>2
    <3>2. mail'[k - 1] = mail[k] BY <1>2, <3>1
    <3> QED BY <2>2, <3>1, <3>2 DEF Told
  <2> QED BY <2>1, <2>2 DEF Told
<1>5. Stale' = Stale BY <1>1 DEF Stale
<1>6. AtLastItem(store'.queue) = AtLastItem(store.queue)
  BY DEF AtLastItem, SamePages, HasMorePages
<1>7. AnnouncedInVain' BY <1>1, <1>3, <1>4, <1>5, <1>6 DEF AnnouncedInVain, SilentInv
<1>8. AnnouncementUnseen' BY <1>1, <1>3, <1>4 DEF AnnouncementUnseen, SilentInv, HasSession
<1> QED BY <1>1, <1>7, <1>8 DEF SilentInv

\* An event of the stream that the session follows is delivered.
LEMMA SilentByFollowed ==
  ASSUME TypeInv, InStepInv, CursorInv, SkipInv, PagesAdd, FromPages(store.queue), SilentInv,
         mail # <<>>, Answered, Follows, Handle(Head(mail), Tail(mail))
  PROVE  SilentInv'
<1>1. /\ TypeOK /\ Head(mail) = mail[1] /\ mail[1] \in Events /\ 1 \in DOMAIN mail
      /\ HasSession /\ Placed(store) /\ player \in Players /\ NoItem \notin Items
  <2>1. TypeOK BY DEF TypeInv
  <2>2. HasSession BY DEF CursorInv, SilentBeforeSearch
  <2>3. Placed(store) BY <2>2 DEF CursorInv, CursorInQueue, SkipInv, Placed
  <2> QED BY <2>1, <2>2, <2>3, MailTail, MailRests, PlaybackAssumption DEF TypeOK
<1>2. /\ ~Told("started") /\ mail[1].kind # "started" /\ mail[1].token = store.active.item
      /\ store.active.item = player.token
      /\ mail[1].kind = "nearly_finished" => player.activity # "STOPPED"
      /\ mail[1].kind # "failed"
  <2>1. player.activity \in {"PLAYING", "STOPPED", "FINISHED"} BY <1>1 DEF Players
  <2> QED BY <1>1, <2>1 DEF Follows, ToldOfStream, Told, Runs
<1>3. CASE mail[1].kind # "nearly_finished"
  <2>1. CASE Reject(Head(mail), Tail(mail))
    BY <1>1, <1>2, <1>3, <2>1, SilentTaken DEF Reject, SamePages
  <2>2. CASE Apply(Head(mail), Tail(mail))
    <3>1. \/ PlaybackFinished(mail[1], Tail(mail)) \/ PlaybackStopped(mail[1], Tail(mail))
          \/ PlaybackProgress(mail[1], Tail(mail))
      BY <1>1, <1>2, <1>3, <2>2
      DEF Apply, PlaybackStarted, PlaybackNearlyFinished, PlaybackFailed
    <3> QED BY <1>1, <1>2, <1>3, <3>1, OthersStay, SilentTaken
  <2> QED BY <2>1, <2>2 DEF Handle
<1>4. CASE mail[1].kind = "nearly_finished"
  <2>1. /\ player.announced /\ player.upcoming = NoItem
        /\ \A k \in DOMAIN mail : mail[k].kind = "nearly_finished" => k = 1
    BY <1>1, <1>4 DEF InStepInv, PrefetchInStep
  <2>2. Told("nearly_finished") BY <1>1, <1>4 DEF Told
  <2>3. store.active.lastKind # "nearly_finished"
    BY <1>1, <1>2, <2>2 DEF SilentInv, AnnouncementUnseen
  <2>4. Applies(mail[1]) BY <1>2, <1>4, <2>3, HeadAccepted DEF Applies
  <2>5. PlaybackNearlyFinished(mail[1], Tail(mail), TRUE, TRUE)
    <3>1. Apply(mail[1], Tail(mail)) BY <1>1, <2>4 DEF Handle, Reject
    <3> QED BY <1>4, <3>1 DEF Apply, PlaybackStarted, PlaybackFinished,
                              PlaybackStopped, PlaybackFailed, PlaybackProgress
  <2>6. ASSUME Sends(Tail(mail), <<>>) PROVE ~Told("nearly_finished")' /\ ~Told("started")'
    <3>1. /\ Len(mail) \in Nat /\ DOMAIN mail' = 1 .. Len(mail) - 1
          /\ \A k \in DOMAIN mail' : k + 1 \in DOMAIN mail /\ mail'[k] = mail[k + 1]
      BY <1>1, <2>6, TailLeft
    <3>2. \A k \in DOMAIN mail' : k + 1 # 1 BY <3>1
    <3> QED BY <1>2, <2>1, <3>1, <3>2 DEF Told
  <2>7. CASE /\ NoDirective(Tail(mail))
             /\ \/ store'.prepared \notin {NoItem, store.active.item}
                \/ AtLastItem(store'.queue)
    <3>1. player' = player /\ ~Told("nearly_finished")' /\ ~Told("started")'
      BY <2>6, <2>7 DEF NoDirective
    <3>2. Stale' \/ AtLastItem(store'.queue) BY <1>2, <2>1, <2>7, <3>1 DEF Stale
    <3> QED BY <2>1, <3>1, <3>2 DEF SilentInv, AnnouncedInVain, AnnouncementUnseen
  <2>8. ASSUME NEW i \in Items, EnqueueDirective(i, mail[1].token, Tail(mail)) PROVE SilentInv'
    <3>1. CASE player.activity = "FINISHED"
      <4>1. player' = Streaming(i, 0) /\ Sends(Tail(mail), << <<"started", i, 0>> >>)
        BY <1>2, <2>1, <2>8, <3>1 DEF EnqueueDirective
      <4> DEFINE start == <<"started", i, 0>>
      <4>2. start \in Calls /\ Tail(mail) \in Seq(Events)
        <5>1. 0 \in 0 .. Duration BY PlaybackAssumption
        <5> QED BY <1>1, <5>1, MailTail DEF Calls, Kinds
      <4>3. Sends(Tail(mail), <<start>>) BY <4>1
      <4> HIDE DEF start
      <4>4. \E n \in DOMAIN mail' : Letter(mail'[n], 1, start)
        <5>1. /\ Len(Tail(mail)) \in Nat /\ DOMAIN mail' = 1 .. Len(Tail(mail)) + 1
              /\ Letter(mail'[Len(Tail(mail)) + 1], 1, start)
          BY <1>1, <4>2, <4>3, SentOne
        <5>2. Len(Tail(mail)) + 1 \in 1 .. Len(Tail(mail)) + 1 BY <5>1
        <5> QED BY <5>1, <5>2
      <4>5. Told("started")' BY <4>4 DEF Told, Letter, start
      <4>6. player'.activity = "PLAYING" /\ ~player'.announced BY <4>1 DEF Streaming
      <4> QED BY <4>5, <4>6 DEF SilentInv, AnnouncedInVain, AnnouncementUnseen
    <3>2. CASE player.activity # "FINISHED"
      <4>1. player' = [player EXCEPT !.upcoming = i] /\ Sends(Tail(mail), <<>>)
        BY <1>2, <2>1, <2>8, <3>2 DEF EnqueueDirective
      <4>2. player'.upcoming = i /\ player'.announced /\ player'.activity = player.activity
        BY <1>1, <2>1, <4>1 DEF Players
      <4>3. ~Told("nearly_finished")' BY <2>6, <4>1
      <4> QED BY <1>1, <3>2, <4>2, <4>3 DEF SilentInv, AnnouncedInVain, AnnouncementUnseen
    <3> QED BY <3>1, <3>2
  <2> QED BY <1>1, <2>5, <2>7, <2>8, SuccessorFound
<1> QED BY <1>3, <1>4

\* The session awaits the start of the device's stream, and an event is delivered.
LEMMA SilentByAwaited ==
  ASSUME TypeInv, InStepInv, SilentInv, mail # <<>>, NEW k \in DOMAIN mail, Awaits(k),
         Handle(Head(mail), Tail(mail))
  PROVE  SilentInv'
<1>1. /\ TypeOK /\ Head(mail) = mail[1] /\ mail[1] \in Events /\ 1 \in DOMAIN mail
      /\ Len(mail) \in Nat /\ DOMAIN mail = 1 .. Len(mail)
  <2>1. TypeOK BY DEF TypeInv
  <2> QED BY <2>1, MailTail, MailRests
<1>2. mail[k].kind = "started" /\ Told("started") /\ mail[1].kind # "nearly_finished"
  <2>1. mail[k].kind = "started" BY DEF Awaits
  <2>2. k # 1 => mail[1].kind \in {"stopped", "progress", "finished"}
    <3>1. k # 1 => 1 < k BY <1>1
    <3> QED BY <1>1, <3>1 DEF Awaits
  <2> QED BY <2>1, <2>2 DEF Told
<1>3. NoDirective(Tail(mail))
  BY <1>1, <1>2 DEF Handle, Reject, Apply, PlaybackStarted, PlaybackNearlyFinished,
     PlaybackFinished, PlaybackStopped, PlaybackFailed, PlaybackProgress
<1>4. /\ player' = player /\ DOMAIN mail' = 1 .. Len(mail) - 1
      /\ \A j \in DOMAIN mail' : j + 1 \in DOMAIN mail /\ mail'[j] = mail[j + 1]
  BY <1>1, <1>3, TailLeft DEF NoDirective
<1>5. ~(player.announced /\ player.activity # "STOPPED" /\ player.upcoming = NoItem
        /\ ~Told("nearly_finished"))
  BY <1>2 DEF SilentInv, AnnouncedInVain
<1>6. Told("nearly_finished") => Told("nearly_finished")'
  <2> SUFFICES ASSUME NEW j \in DOMAIN mail, mail[j].kind = "nearly_finished"
               PROVE  Told("nearly_finished")'
    BY DEF Told
  <2>1. j - 1 \in DOMAIN mail' /\ j - 1 + 1 = j BY <1>1, <1>2, <1>4
  <2>2. mail'[j - 1] = mail[j] BY <1>4, <2>1
  <2> QED BY <2>1, <2>2 DEF Told
<1>7. AnnouncedInVain' BY <1>4, <1>5, <1>6 DEF AnnouncedInVain
<1>8. CASE k = 1
  <2>1. PlaybackStarted(mail[1], Tail(mail)) BY <1>8, AwaitedStarts
  <2>2. store'.active.lastKind = "started" BY <1>1, <1>2, <1>8, <2>1, StartedSees DEF Sees
  <2> QED BY <1>4, <1>7, <2>2 DEF SilentInv, AnnouncementUnseen
<1>9. CASE k # 1
  <2>1. k - 1 \in DOMAIN mail' /\ k - 1 + 1 = k BY <1>1, <1>4, <1>9
  <2>2. mail'[k - 1] = mail[k] BY <1>4, <2>1
  <2>3. Told("started")' BY <1>2, <2>1, <2>2 DEF Told
  <2> QED BY <1>4, <1>7, <2>3 DEF SilentInv, AnnouncementUnseen
<1> QED BY <1>8, <1>9

LEMMA ToldMore ==
  ASSUME TypeOK, NEW call \in Calls, Sends(mail, <<call>>), NEW kind
  PROVE  Told(kind)' <=> Told(kind) \/ kind = call[1]
<1>1. mail \in Seq(Events) BY MailTail
<1>2. /\ Len(mail) \in Nat /\ DOMAIN mail = 1 .. Len(mail) /\ DOMAIN mail' = 1 .. Len(mail) + 1
      /\ \A k \in 1 .. Len(mail) : mail'[k] = mail[k]
      /\ Letter(mail'[Len(mail) + 1], 1, call)
  BY <1>1, SentOne
<1>3. /\ \A k \in DOMAIN mail' : k \in DOMAIN mail \/ k = Len(mail) + 1
      /\ Len(mail) + 1 \in DOMAIN mail' /\ \A k \in DOMAIN mail : k \in DOMAIN mail'
  BY <1>2
<1>4. mail'[Len(mail) + 1].kind = call[1] BY <1>2 DEF Letter
<1> QED BY <1>2, <1>3, <1>4 DEF Told

\* The device plays, and reports or ends its stream.
LEMMA SilentByDevice ==
  ASSUME TypeInv, SilentInv, NearlyFinish \/ Report \/ Finish
  PROVE  SilentInv'
<1>1. /\ TypeOK /\ player \in Players /\ player.token \in Items /\ player.offset \in 0 .. Duration
      /\ player.activity = "PLAYING" /\ UNCHANGED store /\ NoItem \notin Items
      /\ mail \in Seq(Events) /\ Duration \in 0 .. Duration /\ 0 \in 0 .. Duration
  <2>1. TypeOK /\ player.activity = "PLAYING" /\ UNCHANGED store
    BY DEF TypeInv, NearlyFinish, Report, Finish
  <2>2. player \in Players BY <2>1 DEF TypeOK
  <2>3. NoItem \notin Items /\ Duration \in Nat BY PlaybackAssumption
  <2> QED BY <2>1, <2>2, <2>3, MailTail DEF TypeInv, PlaysSomething, Players
<1>2. ASSUME NEW kind \in {"nearly_finished", "progress", "finished"},
             NEW offset \in 0 .. Duration, Sends(mail, << <<kind, player.token, offset>> >>)
      PROVE  \A other : Told(other)' <=> Told(other) \/ other = kind
  <2> DEFINE call == <<kind, player.token, offset>>
  <2>1. call \in Calls /\ call[1] = kind BY <1>1 DEF Calls, Kinds
  <2>2. Sends(mail, <<call>>) BY <1>2
  <2> HIDE DEF call
  <2> QED BY <1>1, <2>1, <2>2, ToldMore
<1>3. CASE NearlyFinish
  <2>1. /\ ~player.announced /\ player' = [player EXCEPT !.announced = TRUE]
        /\ Sends(mail, << <<"nearly_finished", player.token, player.offset>> >>)
    BY <1>3 DEF NearlyFinish
  <2>2. \A other : Told(other)' <=> Told(other) \/ other = "nearly_finished"
    BY <1>1, <1>2, <2>1
  <2>3. player'.activity = "PLAYING" BY <1>1, <2>1 DEF Players
  <2> QED BY <1>1, <2>1, <2>2, <2>3
          DEF SilentInv, AnnouncedInVain, AnnouncementUnseen, HasSession
<1>4. CASE Report
  <2>1. /\ player' = player
        /\ Sends(mail, << <<"progress", player.token, player.offset>> >>)
    BY <1>4 DEF Report
  <2>2. \A other : Told(other)' <=> Told(other) \/ other = "progress" BY <1>1, <1>2, <2>1
  <2> QED BY <1>1, <2>1, <2>2
          DEF SilentInv, AnnouncedInVain, AnnouncementUnseen, HasSession, Stale
<1>5. CASE Finish /\ player.upcoming = NoItem
  <2>1. /\ player' = [player EXCEPT !.activity = "FINISHED"] /\ player.announced
        /\ Sends(mail, << <<"finished", player.token, Duration>> >>)
    BY <1>5 DEF Finish
  <2>2. \A other : Told(other)' <=> Told(other) \/ other = "finished" BY <1>1, <1>2, <2>1
  <2>3. /\ player'.activity = "FINISHED" /\ player'.announced /\ player'.upcoming = NoItem
        /\ player'.token = player.token
    BY <1>1, <1>5, <2>1 DEF Players
  <2>4. Stale' = Stale BY <1>1, <1>5, <2>3 DEF Stale
  <2> QED BY <1>1, <1>5, <2>1, <2>2, <2>3, <2>4
          DEF SilentInv, AnnouncedInVain, AnnouncementUnseen, HasSession
<1>6. CASE Finish /\ player.upcoming # NoItem
  <2> DEFINE done == <<"finished", player.token, Duration>>
             start == <<"started", player.upcoming, 0>>
  <2>1. /\ player' = Streaming(player.upcoming, 0) /\ Sends(mail, <<done, start>>)
    BY <1>6 DEF Finish
  <2>2. done \in Calls /\ start \in Calls BY <1>1, <1>6 DEF Calls, Kinds, Players
  <2> HIDE DEF done, start
  <2>3. \E n \in DOMAIN mail' : Letter(mail'[n], 2, start)
    <3>1. /\ Len(mail) \in Nat /\ DOMAIN mail' = 1 .. Len(mail) + 2
          /\ Letter(mail'[Len(mail) + 2], 2, start)
      BY <1>1, <2>1, <2>2, SentTwo
    <3>2. Len(mail) + 2 \in 1 .. Len(mail) + 2 BY <3>1
    <3> QED BY <3>1, <3>2
  <2>4. Told("started")' BY <2>3 DEF Told, Letter, start
  <2>5. player'.activity = "PLAYING" /\ ~player'.announced BY <2>1 DEF Streaming
  <2> QED BY <2>4, <2>5 DEF SilentInv, AnnouncedInVain, AnnouncementUnseen
<1> QED BY <1>3, <1>4, <1>5, <1>6

\* A command replaces the device's stream.
LEMMA SilentByDirective ==
  ASSUME TypeInv, Answered, NEW i \in Items, NEW offset \in 0 .. Duration,
         PlayDirective(i, offset)
  PROVE  SilentInv'
<1> DEFINE start == <<"started", i, offset>>
           calls == StoppedEvents \o <<start>>
           n == Len(StoppedEvents) + 1
<1>1. TypeOK /\ mail \in Seq(Events)
  <2>1. TypeOK BY DEF TypeInv
  <2> QED BY <2>1, MailTail
<1>2. player' = Streaming(i, offset) /\ Sends(mail, calls) BY DEF PlayDirective
<1>3. start \in Calls BY DEF Calls, Kinds
<1>4. StoppedEvents \in Seq(Calls)
  <2>1. CASE player.activity = "PLAYING"
    <3>1. <<"stopped", player.token, player.offset>> \in Calls
      BY <1>1, <2>1 DEF TypeInv, PlaysSomething, TypeOK, Players, Calls, Kinds
    <3> QED BY <2>1, <3>1 DEF StoppedEvents
  <2>2. CASE player.activity # "PLAYING"
    <3>1. <<>> \in Seq(Calls) OBVIOUS
    <3> QED BY <2>2, <3>1 DEF StoppedEvents
  <2> QED BY <2>1, <2>2
<1> HIDE DEF start
<1>5. <<start>> \in Seq(Calls) /\ Len(<<start>>) = 1 /\ <<start>>[1] = start BY <1>3
<1>6. calls \in Seq(Calls) /\ Len(calls) = n /\ n \in Nat \ {0} /\ calls[n] = start
  BY <1>4, <1>5, ConcatProperties, LenProperties
<1> HIDE DEF calls, n
<1>7. /\ Len(mail) \in Nat /\ DOMAIN mail' = 1 .. Len(mail) + n
      /\ Letter(mail'[Len(mail) + n], n, start)
  <2>1. /\ Len(mail) \in Nat /\ DOMAIN mail' = 1 .. Len(mail') /\ Len(mail') = Len(mail) + n
        /\ \A k \in 1 .. n : Letter(mail'[Len(mail) + k], k, calls[k])
    BY <1>1, <1>2, <1>6, SentMail
  <2>2. n \in 1 .. n BY <1>6
  <2> QED BY <1>6, <2>1, <2>2
<1>8. Told("started")'
  <2>1. Len(mail) + n \in DOMAIN mail' BY <1>6, <1>7
  <2>2. mail'[Len(mail) + n].kind = "started" BY <1>7 DEF Letter, start
  <2> QED BY <2>1, <2>2 DEF Told
<1>9. player'.activity = "PLAYING" /\ ~player'.announced BY <1>2 DEF Streaming
<1> QED BY <1>8, <1>9 DEF SilentInv, AnnouncedInVain, AnnouncementUnseen

\* A command leaves the session and the device as they are, and at most loads a page.
LEMMA SilentStays ==
  ASSUME TypeInv, SilentInv, mail = <<>>, NoDirective(mail),
         store'.active.item = store.active.item,
         store'.active.lastKind = store.active.lastKind, store'.prepared = store.prepared,
         store'.queue.index = store.queue.index,
         SamePages(store.queue, store'.queue) \/ Loads(store.queue, store'.queue)
  PROVE  SilentInv'
<1>1. player' = player /\ DOMAIN mail = {} /\ DOMAIN mail' = {}
  <2>1. TypeOK BY DEF TypeInv
  <2>2. mail \in Seq(Events) /\ Len(mail) = 0 BY <2>1, MailTail
  <2>3. 1 .. 0 = {} OBVIOUS
  <2> QED BY <2>1, <2>2, <2>3, SentNone
<1>2. \A kind : ~Told(kind) /\ ~Told(kind)' BY <1>1 DEF Told
<1>3. Stale' = Stale BY <1>1 DEF Stale
<1>4. AtLastItem(store.queue) => AtLastItem(store'.queue)
  BY DEF AtLastItem, SamePages, Loads, HasMorePages
<1> QED BY <1>1, <1>2, <1>3, <1>4
        DEF SilentInv, AnnouncedInVain, AnnouncementUnseen, HasSession

LEMMA SilentByPause ==
  ASSUME TypeInv, SilentInv, mail = <<>>, Answered, Pause
  PROVE  SilentInv'
<1>1. /\ TypeOK /\ PlaysSomething /\ player \in Players /\ store \in Documents
      /\ store.active \in Sessions
  BY DEF TypeInv, TypeOK, Documents
<1>2. /\ store'.active.item = store.active.item
      /\ store'.active.lastKind = store.active.lastKind /\ store'.prepared = store.prepared
      /\ store'.queue = store.queue
  <2> DEFINE o == ObservedAt(store.active, "paused", "paused", player.offset, now)
  <2>1. CASE store' = store BY <2>1
  <2>2. CASE store' = [store EXCEPT !.active.status = "paused"]
    BY <1>1, <2>2 DEF Documents, Sessions
  <2>3. CASE store' = [store EXCEPT !.active = o]
    <3>1. o.item = store.active.item /\ o.lastKind = store.active.lastKind
      BY <1>1 DEF ObservedAt, Sessions
    <3> HIDE DEF o
    <3> QED BY <1>1, <2>3, <3>1 DEF Documents
  <2> QED BY <2>1, <2>2, <2>3 DEF Pause
<1>3. CASE player.activity # "PLAYING"
  <2>1. NoDirective(mail) BY <1>3 DEF Pause, StopDirective
  <2> QED BY <1>2, <2>1, SilentStays DEF SamePages
<1>4. CASE player.activity = "PLAYING"
  <2> DEFINE stop == <<"stopped", player.token, player.offset>>
  <2>1. /\ player' = [player EXCEPT !.activity = "STOPPED"] /\ Sends(mail, <<stop>>)
    BY <1>4 DEF Pause, StopDirective, StoppedEvents
  <2>2. stop \in Calls /\ stop[1] = "stopped"
    BY <1>1, <1>4 DEF PlaysSomething, Players, Calls, Kinds
  <2> HIDE DEF stop
  <2>3. \A kind : Told(kind)' <=> Told(kind) \/ kind = "stopped"
    BY <1>1, <2>1, <2>2, ToldMore
  <2>4. player'.activity = "STOPPED" /\ player'.announced = player.announced
    BY <1>1, <2>1 DEF Players
  <2> QED BY <1>2, <2>3, <2>4
          DEF SilentInv, AnnouncedInVain, AnnouncementUnseen, HasSession
<1> QED BY <1>3, <1>4

LEMMA SilentByPlayDelta ==
  ASSUME TypeInv, SilentInv, mail = <<>>, Answered, disorder' = disorder,
         NEW delta \in {1, -1}, PlayDelta(delta)
  PROVE  SilentInv'
<1> DEFINE Target(s) == IF delta > 0 THEN NextUnfinished(s, s.queue.index + delta)
                        ELSE s.queue.index + delta
           Has(s) == Target(s) \in DOMAIN s.queue.ids
           with == IF Has(store) \/ delta < 0 THEN store ELSE WithNextPage(store)
           Unavailable == "backend" \in disorder' \ disorder
           k == Target(with)
<1>1. \/ Has(with) /\ PlayDirective(with.queue.ids[k], 0)
      \/ store' = with /\ NoDirective(mail)
  <2>1. ~Unavailable OBVIOUS
  <2> HIDE DEF Has, with, Target
  <2> QED BY <2>1 DEF PlayDelta, Has, with, Target
<1>2. store \in Documents BY DEF TypeInv, TypeOK
<1>3. with = store \/ with = WithNextPage(store) OBVIOUS
<1>4. Has(with) => k \in DOMAIN with.queue.ids OBVIOUS
<1> HIDE DEF with, Has, k
<1>5. /\ with \in Documents /\ with.active = store.active /\ with.prepared = store.prepared
      /\ with.queue.index = store.queue.index
      /\ SamePages(store.queue, with.queue) \/ Loads(store.queue, with.queue)
  <2>1. CASE with = store BY <1>2, <2>1 DEF SamePages
  <2>2. CASE with = WithNextPage(store)
    <3>1. with = store \/ Loads(store.queue, with.queue) BY <1>2, <2>2, NextPageLoads
    <3> QED BY <1>2, <2>1, <2>2, <3>1, NextPageAppends
  <2> QED BY <1>3, <2>1, <2>2
<1>6. CASE Has(with) /\ PlayDirective(with.queue.ids[k], 0)
  <2>1. with.queue.ids \in Seq(Items) BY <1>5 DEF Documents, Queues
  <2>2. with.queue.ids[k] \in Items BY <1>4, <1>6, <2>1, LenProperties
  <2>3. 0 \in 0 .. Duration BY PlaybackAssumption
  <2> QED BY <1>6, <2>2, <2>3, SilentByDirective
<1>7. CASE store' = with /\ NoDirective(mail) BY <1>5, <1>7, SilentStays
<1> QED BY <1>1, <1>6, <1>7

LEMMA SilentByCommand ==
  ASSUME TypeInv, SilentInv, disorder' = {}, Listener
  PROVE  SilentInv'
<1>1. mail = <<>> /\ disorder' = disorder
  <2>1. \E faults : Speaks(faults)
    BY DEF Listener, Play, Pause, Resume, Repeat, ChangeSpeed, Seek, Skip, Previous, Gives
  <2> QED BY <2>1, SpeaksInOrder
<1>2. Answered BY <1>1 DEF Answered
<1>3. /\ store.active \in Sessions /\ store.active.offset \in 0 .. Duration
      /\ 0 \in 0 .. Duration /\ Duration \in Nat \ {0} /\ player.offset \in 0 .. Duration
  BY PlaybackAssumption DEF TypeInv, TypeOK, Documents, Sessions, Players
<1>4. CASE Play
  <2>1. PlayDirective(Pages[1][1], 0) BY <1>4 DEF Play
  <2>2. Pages[1][1] \in Items
    <3>1. Pages \in Seq(Seq(Items)) /\ Pages # <<>> /\ Pages[1] # <<>> BY PlaybackAssumption
    <3>2. Pages[1] \in Seq(Items) BY <3>1, EmptySeq, LenProperties
    <3> QED BY <3>1, <3>2, EmptySeq, LenProperties
  <2> QED BY <1>2, <1>3, <2>1, <2>2, SilentByDirective
<1>5. ASSUME NEW offset \in 0 .. Duration, HasSession, Restart(offset) PROVE SilentInv'
  <2>1. store.active.item \in Items BY <1>3, <1>5 DEF HasSession, Sessions
  <2> QED BY <1>2, <1>5, <2>1, SilentByDirective DEF Restart
<1>6. CASE Pause BY <1>1, <1>2, <1>6, SilentByPause
<1>7. CASE Resume
  BY <1>1, <1>2, <1>3, <1>5, <1>7, SilentByPlayDelta DEF Resume
<1>8. CASE Repeat BY <1>3, <1>5, <1>8 DEF Repeat
<1>9. CASE ChangeSpeed BY <1>3, <1>5, <1>9 DEF ChangeSpeed
<1>10. ASSUME NEW direction \in {1, -1}, Seek(direction) PROVE SilentInv'
  <2> DEFINE current == IF player.activity = "PLAYING" THEN player.offset
                        ELSE store.active.offset
  <2>1. /\ HasSession /\ current + direction \in SeekRange(direction)
        /\ Restart(current + direction)
    BY <1>10 DEF Seek
  <2>2. current \in 0 .. Duration BY <1>3
  <2> HIDE DEF current
  <2>3. current + direction \in 0 .. Duration BY <1>3, <1>10, <2>1, <2>2 DEF SeekRange
  <2> QED BY <1>5, <2>1, <2>3
<1>11. CASE Skip BY <1>1, <1>2, <1>11, SilentByPlayDelta DEF Skip
<1>12. CASE Previous BY <1>1, <1>2, <1>12, SilentByPlayDelta DEF Previous
<1> QED BY <1>4, <1>6, <1>7, <1>8, <1>9, <1>10, <1>11, <1>12 DEF Listener

\* While nothing irregular happens, the queue, its cursor and the announcements.
EndOfResultsInv == CursorInv /\ SkipInv /\ (PagesAdd => SilentInv)

LEMMA SilentNext ==
  ASSUME TypeInv, TypeInv', EndWasHeard, EndWasHeard', OrderlyInv, FromPages(store.queue),
         disorder = {} => EndOfResultsInv, [Next]_vars
  PROVE  disorder' = {} => EndOfResultsInv'
<1>0. TypeOK BY DEF TypeInv
<1>1. SUFFICES ASSUME disorder' = {}, disorder = {}, InStepInv, CursorInv, SkipInv,
                      PagesAdd => SilentInv
               PROVE  CursorInv' /\ SkipInv' /\ (PagesAdd => SilentInv')
  BY StillInOrder DEF TypeInv, OrderlyInv, EndOfResultsInv
<1>2. Answered BY <1>1 DEF Answered
<1>3. CursorInv' BY <1>1, <1>2, CursorNext
<1>4. SkipInv' BY <1>1, <1>2, SkipNext
<1>5. ASSUME PagesAdd, SilentInv PROVE SilentInv'
  <2>1. CASE Tick
    <3>1. /\ UNCHANGED <<store, mail>> /\ player'.activity = player.activity
          /\ player'.announced = player.announced /\ player'.upcoming = player.upcoming
          /\ player'.token = player.token
      BY <1>0, <2>1 DEF Tick, TypeOK, Players
    <3> QED BY <1>5, <3>1
            DEF SilentInv, AnnouncedInVain, AnnouncementUnseen, HasSession, Told, Stale
  <2>2. CASE NearlyFinish \/ Report \/ Finish BY <1>5, <2>2, SilentByDevice
  <2>3. CASE Fail BY <1>1, <2>3 DEF Fail, Irregular
  <2>4. CASE Deliver
    <3>1. mail # <<>> /\ Handle(Head(mail), Tail(mail)) BY <2>4 DEF Deliver
    <3>2. player.token # NoItem BY <1>1, <3>1 DEF InStepInv
    <3>3. CASE Follows BY <1>1, <1>2, <1>5, <3>1, <3>3, SilentByFollowed
    <3>4. ASSUME NEW k \in DOMAIN mail, Awaits(k) PROVE SilentInv'
      BY <1>1, <1>5, <3>1, <3>4, SilentByAwaited
    <3> QED BY <1>1, <3>2, <3>3, <3>4 DEF InStepInv
  <2>5. CASE DeliverEarly \/ DeliverAndRepeat \/ Lose \/ DeliverInVain
    BY <1>1, <2>5 DEF DeliverEarly, DeliverAndRepeat, Lose, DeliverInVain, Irregular
  <2>6. CASE Listener BY <1>1, <1>5, <2>6, SilentByCommand
  <2>7. CASE UNCHANGED vars
    BY <1>5, <2>7
    DEF vars, SilentInv, AnnouncedInVain, AnnouncementUnseen, HasSession, Told, Stale
  <2> QED BY <2>1, <2>2, <2>3, <2>4, <2>5, <2>6, <2>7 DEF Next, Device, Network
<1> QED BY <1>1, <1>3, <1>4, <1>5

LEMMA SilentInit == Init => SilentInv
<1> SUFFICES ASSUME Init PROVE SilentInv OBVIOUS
<1>1. /\ player.activity = "STOPPED" /\ ~player.announced /\ store.active.item = NoItem
  BY DEF Init, Streaming, NoSession
<1> QED BY <1>1 DEF SilentInv, AnnouncedInVain, AnnouncementUnseen, HasSession

\* While the device's events arrive in order, each once, every command finds them
\* handled and every directive and page arrives: once no event is on its way, a
\* device that has run out of streams is at the end of the queue, and of the pages
\* of results, unless an item is prepared that the device does not hold, or a page
\* added nothing to the queue.
THEOREM SilenceIsTheEnd == Spec => [](disorder = {} => SilentOnlyAtEnd)
<1>1. ASSUME TypeInv, disorder = {} => EndOfResultsInv PROVE disorder = {} => SilentOnlyAtEnd
  <2> SUFFICES ASSUME disorder = {}, PagesAdd, mail = <<>>, player.activity = "FINISHED",
                      ~Stale
               PROVE  ~HasSuccessor /\ ~HasMorePages(store.queue)
    BY DEF SilentOnlyAtEnd
  <2>1. CursorInv /\ SkipInv /\ SilentInv BY <1>1 DEF EndOfResultsInv
  <2>2. DOMAIN mail = {} /\ store \in Documents
    <3>1. TypeOK BY <1>1 DEF TypeInv
    <3> QED BY <3>1, MailTail DEF TypeOK
  <2>3. ~Told("nearly_finished") BY <2>2 DEF Told
  <2>4. AtLastItem(store.queue) BY <2>1, <2>3 DEF SilentInv, AnnouncedInVain
  <2>5. Placed(store)
    <3>1. HasSession BY <2>1 DEF CursorInv, SilentBeforeSearch
    <3> QED BY <2>1, <3>1 DEF CursorInv, CursorInQueue, SkipInv, Placed
  <2>6. ~HasNext(store) BY <2>2, <2>4, <2>5, NextBeforeLast DEF AtLastItem
  <2> QED BY <2>4, <2>6 DEF AtLastItem, HasSuccessor, HasNext, NextPlace
<1>2. Init => /\ EndWasHeard /\ OrderlyInv /\ FromPages(store.queue)
              /\ (disorder = {} => EndOfResultsInv)
  BY EndInit, OrderlyInit, PagesInit, CursorInit, SkipInit, SilentInit DEF EndOfResultsInv
<1>3. /\ TypeInv /\ TypeInv' /\ EndWasHeard /\ OrderlyInv /\ FromPages(store.queue)
      /\ (disorder = {} => EndOfResultsInv) /\ [Next]_vars
      => /\ EndWasHeard' /\ OrderlyInv' /\ FromPages(store.queue)'
         /\ (disorder = {} => EndOfResultsInv)'
  BY EndNext, OrderlyNext, PagesNext, SilentNext
<1>4. TypeInv /\ (disorder = {} => EndOfResultsInv) => (disorder = {} => SilentOnlyAtEnd)
  BY <1>1
<1> QED BY <1>2, <1>3, <1>4, TypeAlways, PTL DEF Spec

=============================================================================
