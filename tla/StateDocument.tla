---------------------------- MODULE StateDocument ----------------------------
(***************************************************************************)
(* The listener document: which persisted field lives in which of the four *)
(* scopes, what its default is, what a handler writes into it, and how     *)
(* DynamoConflictMerge.resolve combines a rejected write with the row that *)
(* beat it.                                                                *)
(*                                                                         *)
(* Seven representative fields stand for the persisted ones, at least one  *)
(* per scope and one per merge rule: a counter, a keyed collection, the    *)
(* time-guarded activePlayback, and plain fields that are overwritten.     *)
(* A plain value is abstracted to the request that wrote it.               *)
(***************************************************************************)
EXTENDS Naturals, FiniteSets

CONSTANTS
  Requests,    \* Alexa requests of one listener
  Alias,       \* writer of the values found under the pre-migration key
  NoWriter,    \* the default (None, False, "") of a plain field
  Fields,      \* the fields this instance models
  AliasCount,  \* play count stored under the pre-migration key
  StartCount,  \* play count stored by earlier sessions
  Times        \* Alexa request timestamps

PlainFields == {"locality", "playbackQueue", "activeDialog", "pendingContext"}
AllFields == PlainFields \cup {"playCount", "activePlayback", "playHistory"}

ASSUME DocumentAssumption ==
  /\ IsFiniteSet(Requests)
  /\ Fields \subseteq AllFields
  /\ Alias \notin Requests
  /\ NoWriter \notin Requests \cup {Alias}
  /\ AliasCount \in Nat
  /\ StartCount \in Nat
  /\ Times \subseteq Nat \ {0}

Writers == Requests \cup {Alias, NoWriter}

Core     == "CORE"
Playback == "PLAYBACK"
Dialog   == "DIALOG"
Cache    == "CACHE"
AllScopes == {Core, Playback, Dialog, Cache}

\* StateSchema.scope_for.
ScopeFor(field) ==
  CASE field \in {"playCount", "locality"}             -> Core
    [] field \in {"activePlayback", "playbackQueue"}   -> Playback
    [] field \in {"activeDialog", "pendingContext"}    -> Dialog
    [] OTHER                                           -> Cache

Scopes == {ScopeFor(field) : field \in Fields}
FieldsOf(scope) == {field \in Fields : ScopeFor(field) = scope}

\* A playback is known by the request that last wrote it and by the Alexa
\* timestamp it carries; None is [by |-> NoWriter, at |-> 0].
NoPlayback == [by |-> NoWriter, at |-> 0]
PlaybackValue == {NoPlayback} \cup [by : Requests \cup {Alias}, at : Nat]

ValuesOf(field) ==
  CASE field = "playCount"      -> Nat
    [] field = "activePlayback" -> PlaybackValue
    [] field = "playHistory"    -> SUBSET Writers
    [] OTHER                    -> Writers

\* StateSchema.default_for.
DefaultFor(field) ==
  CASE field = "playCount"      -> 0
    [] field = "activePlayback" -> NoPlayback
    [] field = "playHistory"    -> {}
    [] OTHER                    -> NoWriter

Blank == [field \in Fields |-> DefaultFor(field)]

IsDocument(doc) ==
  /\ doc = [field \in Fields |-> doc[field]]
  /\ \A field \in Fields : doc[field] \in ValuesOf(field)

\* The state stored under the Alexa alias key before the listener had a
\* canonical key.
AliasDocument ==
  [field \in Fields |->
     CASE field = "playCount"      -> AliasCount
       [] field = "activePlayback" -> [by |-> Alias, at |-> 0]
       [] field = "playHistory"    -> {Alias}
       [] OTHER                    -> Alias]

\* What the handler of request r, stamped at, puts into a field it updates.
NewValue(r, at, field, old) ==
  CASE field = "playCount"      -> old + 1
    [] field = "activePlayback" -> [by |-> r, at |-> at]
    [] field = "playHistory"    -> old \cup {r}
    [] OTHER                    -> r

\* PlaybackState.accepts_event: an AudioPlayer event older than the playback
\* it would update is dropped; with equal timestamps the code compares event
\* types, which are abstracted to "accepted".
AcceptsEvent(current, at) == current.at = 0 \/ at >= current.at

-----------------------------------------------------------------------------
(* DynamoConflictMerge *)

Minus(a, b) == IF a >= b THEN a - b ELSE 0

\* Mutant: the last writer of a counter wins.
MergeCounterLast(latest, incoming, original) == incoming

\* COUNTER_FIELDS: the request's delta is added to the latest value.  The
\* baseline is a snapshot without default values, so that a counter loaded as
\* 0 has the original None, which is no int: the incoming value then wins.
MergeCounter(latest, incoming, original) ==
  IF original = 0 THEN incoming ELSE Minus(latest + incoming, original)

\* Mutant: the last writer of a collection wins.
MergeCollectionLast(latest, incoming, original) == incoming

\* collection("playHistory", ...): the union, less what the request removed.
\* The limit of 20 entries and the order are abstracted.
MergeCollection(latest, incoming, original) ==
  (incoming \cup latest) \ (original \ incoming)

\* Mutant: the last writer of activePlayback wins.
IncomingPlaybackWins(latest, incoming) == TRUE

\* incoming_playback_is_newer.
IncomingPlaybackIsNewer(latest, incoming) ==
  \/ latest.by = NoWriter
  \/ incoming.by = NoWriter
  \/ incoming.at >= latest.at

ResolveField(field, latest, incoming, original) ==
  CASE field = "playCount"   -> MergeCounter(latest, incoming, original)
    [] field = "playHistory" -> MergeCollection(latest, incoming, original)
    [] field = "activePlayback" ->
         IF IncomingPlaybackIsNewer(latest, incoming) THEN incoming ELSE latest
    [] OTHER -> incoming

\* resolve: unchanged fields keep the latest value.
Resolve(latest, requested, original, changed) ==
  [field \in Fields |->
     IF field \in changed
       THEN ResolveField(field, latest[field], requested[field], original[field])
       ELSE latest[field]]

=============================================================================
