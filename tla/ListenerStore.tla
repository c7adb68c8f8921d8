---------------------------- MODULE ListenerStore ----------------------------
(***************************************************************************)
(* Concurrent Alexa requests of one listener against the scoped DynamoDB   *)
(* rows.  A request reads every scope (LoadPersistenceInterceptor, the     *)
(* adapter's get_attributes and its expiry gate), its handler updates      *)
(* fields, and SavePersistenceInterceptor commits them: independently per  *)
(* scope, or in one transaction when the commit is essential or carries an *)
(* outbox event.  Every write is conditional on the loaded version; a      *)
(* rejected one reloads, merges and retries a bounded number of times.     *)
(* One action is one call to DynamoDB, or one step of the event loop       *)
(* between two of them.                                                    *)
(***************************************************************************)
EXTENDS StateDocument

CONSTANTS
  Events,          \* identities of outbound event envelopes
  Edits,           \* what a handler may do: see Edit below
  Retries,         \* HEAR_PERSISTENCE_CONFLICT_RETRIES
  HasAlias,        \* state exists under the Alexa alias key
  StartScopes,     \* scopes with a row stored by earlier sessions
  ExpiringScopes,  \* scopes whose rows can reach expiresAt
  Faults           \* failures that occur: subset of AllFaults

AllFaults == {"load", "budget", "contention", "error", "timeout"}

\* One handler's effect: the fields it updates, the envelopes it stages, if
\* it is an AudioPlayer event, and if it sets _requiresReliableSave.
Edit == [fields : SUBSET Fields, emits : SUBSET Events,
         audio : BOOLEAN, reliable : BOOLEAN]
NoEdit == [fields |-> {}, emits |-> {}, audio |-> FALSE, reliable |-> FALSE]

ASSUME StoreAssumption ==
  /\ Edits \subseteq Edit
  /\ Retries \in Nat
  /\ HasAlias \in BOOLEAN
  /\ StartScopes \subseteq Scopes
  /\ StartCount > 0 => Core \in StartScopes
  /\ ExpiringScopes \subseteq Scopes
  /\ Faults \subseteq AllFaults

VARIABLES
  store,     \* the row of each scope
  past,      \* rows an eventually consistent read may still return
  outbox,    \* event ids with a stored OUTBOX# item
  pc,        \* where each request is
  seen,      \* scopes whose read has returned
  gate,      \* version of the expired row the request is about to delete, or 0
  versions,  \* version the request holds of each scope
  baseline,  \* document the request was hydrated with
  available, \* persistence was loaded
  copying,   \* the document came from the alias key
  edit,      \* what the handler did
  eventAt,   \* timestamp of the request
  document,  \* document of each pending operation
  unsent,    \* outbox items still part of the transaction
  attempt,   \* conflict retries used by each operation
  opState,   \* progress of each operation
  status,    \* CommitResult
  landed     \* history: which operations of the request took effect

rows     == <<store, past, outbox>>
loadVars == <<available, copying>>
readVars == <<seen, gate, versions, baseline>>
editVars == <<edit, eventAt>>
saveVars == <<document, unsent, attempt, opState>>
vars     == <<rows, pc, loadVars, readVars, editVars, saveVars, status, landed>>

Outbox == "OUTBOX"
Items  == Scopes \cup {Outbox}

Absent == [version |-> 0, doc |-> Blank, expired |-> FALSE]

ConsistentScopes == {Playback, Dialog}

-----------------------------------------------------------------------------
(* What a request has to save *)

\* Mutant: a save writes every field the request loaded.
EveryField(r) == Fields

\* changed_fields: a copy from the alias key marks every field.
Changed(r) == edit[r].fields \cup (IF copying[r] THEN Fields ELSE {})

\* User.requires_reliable_save.
Essential(r) ==
  \/ edit[r].reliable
  \/ edit[r].emits # {}
  \/ \E field \in Changed(r) : ScopeFor(field) \in ConsistentScopes

Requested(r) ==
  [field \in Fields |->
     IF field \in edit[r].fields
       THEN NewValue(r, eventAt[r], field, baseline[r][field])
       ELSE baseline[r][field]]

\* Mutant: the outbox items are left out.
PlannedWithoutOutbox(r) ==
  {ScopeFor(field) : field \in Changed(r)}
  \cup {scope \in Scopes \cap {Cache} : versions[r][scope] > 0}

\* save_attributes: one operation per changed scope, one that purges legacy
\* fields from a loaded CACHE row, and the outbox items.
Planned(r) ==
  {ScopeFor(field) : field \in Changed(r)}
  \cup {scope \in Scopes \cap {Cache} : versions[r][scope] > 0}
  \cup (IF edit[r].emits # {} THEN {Outbox} ELSE {})

InState(r, state) == {item \in Items : opState[r][item] = state}
Ops(r) == {item \in Items : opState[r][item] # "none"}

\* Mutant: only outbox items make a commit a transaction.
TransactionalIfEvents(r) == Outbox \in Ops(r)

\* outbox_items or (coupled and len(operations) > 1).
Transactional(r) ==
  Outbox \in Ops(r) \/ (Essential(r) /\ Cardinality(Ops(r)) > 1)

Mark(r, items, state) ==
  opState' = [opState EXCEPT ![r] =
                [item \in Items |-> IF item \in items THEN state ELSE @[item]]]

-----------------------------------------------------------------------------
(* Reading a row: _live_scope_item *)

\* Mutant: a refreshed item is returned without looking at its expiry again.
RefreshedUnchecked(item) == item

\* What a second read after a failed conditional delete yields.
Refreshed(item) == IF item.expired THEN Absent ELSE item

\* What GetItem may return: the row, or an older one unless the read is
\* strongly consistent (_scope_item).
Visible(scope) ==
  {store[scope]} \cup (IF scope \in ConsistentScopes THEN {} ELSE past[scope])

\* Replace the rows of some scopes; older rows stay visible to eventually
\* consistent reads.
SetRows(new) ==
  /\ store' = [scope \in Scopes |->
                 IF scope \in DOMAIN new THEN new[scope] ELSE store[scope]]
  /\ past'  = [scope \in Scopes |->
                 IF scope \in DOMAIN new \ ConsistentScopes
                   THEN past[scope] \cup {store[scope]} ELSE past[scope]]

Loading(r, scope)   == pc[r] = "loading" /\ scope \notin seen[r]
Reloading(r, scope) == opState[r][scope] = "reload"

\* The row becomes part of the hydrated document, or _merge_after_conflict
\* merges the request's changes of this scope into it.
Receive(r, scope, row) ==
  /\ versions' = [versions EXCEPT ![r][scope] = row.version]
  /\ IF Loading(r, scope)
       THEN /\ seen' = [seen EXCEPT ![r] = @ \cup {scope}]
            /\ baseline' = [baseline EXCEPT ![r] =
                 [field \in Fields |-> IF ScopeFor(field) = scope
                                         THEN row.doc[field] ELSE @[field]]]
            /\ UNCHANGED <<document, opState>>
       ELSE /\ document' = [document EXCEPT ![r] =
                 [field \in Fields |->
                    IF ScopeFor(field) = scope
                      THEN Resolve(row.doc, Requested(r), baseline[r],
                                   Changed(r))[field]
                      ELSE @[field]]]
            /\ Mark(r, {scope}, "pending")
            /\ UNCHANGED <<seen, baseline>>

\* GetItem.  An expired item has to be deleted before anything is returned.
ReadScope(r, scope) ==
  /\ Loading(r, scope) \/ Reloading(r, scope)
  /\ gate[r][scope] = 0
  /\ \E item \in Visible(scope) :
       IF item.expired
         THEN /\ gate' = [gate EXCEPT ![r][scope] = item.version]
              /\ UNCHANGED <<seen, versions, baseline, document, opState>>
         ELSE /\ Receive(r, scope, item)
              /\ UNCHANGED gate
  /\ UNCHANGED <<rows, pc, loadVars, editVars, unsent, attempt, status, landed>>

\* DeleteItem on condition of the expired item's version.  If the condition
\* fails the item is read once more, and dropped when it is still expired.
\* A delete handed to its thread outlives the cancelled request.
DeleteExpired(r, scope) ==
  /\ gate[r][scope] > 0
  /\ \E item \in Visible(scope) :
       LET deleted == store[scope].version = gate[r][scope] IN
       /\ IF deleted THEN SetRows([s \in {scope} |-> Absent])
                     ELSE UNCHANGED <<store, past>>
       /\ IF Loading(r, scope) \/ Reloading(r, scope)
            THEN Receive(r, scope, IF deleted THEN Absent ELSE Refreshed(item))
            ELSE UNCHANGED <<seen, versions, baseline, document, opState>>
  /\ gate' = [gate EXCEPT ![r][scope] = 0]
  /\ UNCHANGED <<outbox, pc, loadVars, editVars, unsent, attempt, status, landed>>

-----------------------------------------------------------------------------
(* Loading: LoadPersistenceInterceptor, AttributesManager, User.hydrate *)

\* All reads returned.  With no canonical item at all the alias key is read,
\* and its document is marked for a full copy with no known versions.
Hydrate(r) ==
  /\ pc[r] = "loading"
  /\ seen[r] = Scopes
  /\ LET found == \E scope \in Scopes : versions[r][scope] > 0 IN
       IF ~found /\ HasAlias
         THEN /\ baseline' = [baseline EXCEPT ![r] = AliasDocument]
              /\ copying' = [copying EXCEPT ![r] = TRUE]
         ELSE UNCHANGED <<baseline, copying>>
  /\ available' = [available EXCEPT ![r] = TRUE]
  /\ pc' = [pc EXCEPT ![r] = "handling"]
  /\ UNCHANGED <<rows, seen, gate, versions, editVars, saveVars, status, landed>>

\* The load is skipped, times out or fails: hydrate_unavailable.
HydrateUnavailable(r) ==
  /\ "load" \in Faults
  /\ pc[r] = "loading"
  /\ baseline' = [baseline EXCEPT ![r] = Blank]
  /\ versions' = [versions EXCEPT ![r] = [scope \in Scopes |-> 0]]
  /\ pc' = [pc EXCEPT ![r] = "handling"]
  /\ UNCHANGED <<rows, loadVars, seen, gate, editVars, saveVars, status, landed>>

\* The handler runs: User.update and stage_outbox_event.  An AudioPlayer
\* event older than the loaded playback changes nothing.
Handle(r, change, at) ==
  /\ pc[r] = "handling"
  /\ edit' = [edit EXCEPT ![r] =
       IF /\ change.audio
          /\ "activePlayback" \in change.fields
          /\ ~AcceptsEvent(baseline[r]["activePlayback"], at)
         THEN NoEdit ELSE change]
  /\ eventAt' = [eventAt EXCEPT ![r] = at]
  /\ pc' = [pc EXCEPT ![r] = "handled"]
  /\ UNCHANGED <<rows, loadVars, readVars, saveVars, status, landed>>

-----------------------------------------------------------------------------
(* Committing: SavePersistenceInterceptor and save_attributes *)

Done(r, result) ==
  /\ pc' = [pc EXCEPT ![r] = "done"]
  /\ status' = [status EXCEPT ![r] = result]

NothingToSave(r) == Changed(r) = {} /\ edit[r].emits = {}

\* The interceptor returns before it writes.
SkipSave(r) ==
  /\ pc[r] = "handled"
  /\ \/ NothingToSave(r) /\ Done(r, "unchanged")
     \/ ~NothingToSave(r) /\ ~available[r] /\ Done(r, "load_unavailable")
     \/ /\ ~NothingToSave(r) /\ available[r] /\ "budget" \in Faults
        /\ Done(r, "deadline_exceeded")
  /\ UNCHANGED <<rows, loadVars, readVars, editVars, saveVars, landed>>

\* write_persisted builds the payload and save_attributes its operations.
BeginSave(r) ==
  /\ pc[r] = "handled"
  /\ ~NothingToSave(r)
  /\ available[r]
  /\ pc' = [pc EXCEPT ![r] = "saving"]
  /\ document' = [document EXCEPT ![r] = Requested(r)]
  /\ unsent' = [unsent EXCEPT ![r] = edit[r].emits]
  /\ Mark(r, Planned(r), "pending")
  /\ UNCHANGED <<rows, loadVars, readVars, editVars, attempt, status, landed>>

\* Mutant: the operations of a transaction are written one by one.
OneByOne(r, item) == {item}

\* The operations the next DynamoDB call of this one's loop writes.
CallOf(r, item) == IF Transactional(r) THEN Ops(r) ELSE {item}

\* Every operation of the call is ready to be written: a transaction waits
\* until all of its scopes are merged.
Ready(r, item) ==
  opState[r][item] = "pending" /\ CallOf(r, item) \subseteq InState(r, "pending")

\* _write and _transaction_operation skip an absent row with nothing in it.
Skipped(r, scope) ==
  /\ versions[r][scope] = 0
  /\ \A field \in FieldsOf(scope) : document[r][field] = DefaultFor(field)

\* The condition expression of an item holds.
Fits(r, item) ==
  IF item = Outbox THEN unsent[r] \cap outbox = {}
  ELSE Skipped(r, item) \/ store[item].version = versions[r][item]

\* SET of the whole document on a new row, of the changed fields otherwise.
RowAfter(r, scope) ==
  [version |-> versions[r][scope] + 1,
   expired |-> FALSE,
   doc |-> [field \in Fields |->
              IF ScopeFor(field) = scope
                 /\ (versions[r][scope] = 0 \/ field \in Changed(r))
                THEN document[r][field] ELSE store[scope].doc[field]]]

\* The conditions hold and the writes of these items take effect together.
Land(r, items) ==
  LET written == {scope \in items \ {Outbox} : ~Skipped(r, scope)} IN
  /\ \A item \in items : Fits(r, item)
  /\ SetRows([scope \in written |-> RowAfter(r, scope)])
  /\ outbox' = IF Outbox \in items THEN outbox \cup unsent[r] ELSE outbox
  /\ landed' = [landed EXCEPT ![r] = @ \cup items]

\* _save_scope or _save_coupled: the call succeeds.  The other operations of
\* a failed gather go on after the request has been answered.
Save(r, item) ==
  /\ Ready(r, item)
  /\ Land(r, CallOf(r, item))
  /\ Mark(r, CallOf(r, item), "saved")
  /\ UNCHANGED <<pc, loadVars, readVars, editVars, document, unsent, attempt,
                 status>>

\* ConditionalCheckFailedException or TransactionCanceledException; the
\* latter also when another transaction holds an item.
Rejected(r, item) ==
  \/ \E i \in CallOf(r, item) : ~Fits(r, i)
  \/ Transactional(r) /\ "contention" \in Faults

\* Mutant: one attempt too many.
MayRetryOnceMore(r, item) == \A i \in CallOf(r, item) : attempt[r][i] <= Retries

\* The loop that owns these operations has an attempt left.
MayRetry(r, item) == \A i \in CallOf(r, item) : attempt[r][i] < Retries

\* The call is rejected and every operation of it is to be merged again.
Reject(r, item) ==
  /\ Ready(r, item)
  /\ Rejected(r, item)
  /\ MayRetry(r, item)
  /\ attempt' = [attempt EXCEPT ![r] =
       [i \in Items |-> IF i \in CallOf(r, item) THEN @[i] + 1 ELSE @[i]]]
  /\ Mark(r, CallOf(r, item), "reload")
  /\ UNCHANGED <<rows, pc, loadVars, readVars, editVars, document, unsent,
                 status, landed>>

\* Mutant: the transaction waits until one of its outbox items is stored.
ReloadOutboxIfStored(r) ==
  /\ InState(r, "reload") = {Outbox}
  /\ unsent[r] \cap outbox # {}
  /\ unsent' = [unsent EXCEPT ![r] = @ \ outbox]
  /\ Mark(r, {Outbox}, "pending")
  /\ UNCHANGED <<rows, pc, loadVars, readVars, editVars, document, attempt,
                 status, landed>>

\* After the scopes are merged, outbox items that exist by now are dropped
\* from the transaction.
ReloadOutbox(r) ==
  /\ InState(r, "reload") = {Outbox}
  /\ unsent' = [unsent EXCEPT ![r] = @ \ outbox]
  /\ Mark(r, {Outbox}, "pending")
  /\ UNCHANGED <<rows, pc, loadVars, readVars, editVars, document, attempt,
                 status, landed>>

\* The last attempt is rejected.
Exhaust(r, item) ==
  /\ Ready(r, item)
  /\ Rejected(r, item)
  /\ ~MayRetry(r, item)
  /\ Mark(r, CallOf(r, item), "failed")
  /\ UNCHANGED <<rows, pc, loadVars, readVars, editVars, document, unsent,
                 attempt, status, landed>>

\* A call fails with something other than a conflict.  The answer of a write
\* may be lost and the write still take effect.
CallError(r, item) ==
  /\ "error" \in Faults
  /\ \/ Ready(r, item) /\ Mark(r, CallOf(r, item), "late")
     \/ opState[r][item] = "reload" /\ Mark(r, CallOf(r, item), "failed")
  /\ UNCHANGED <<rows, pc, loadVars, readVars, editVars, document, unsent,
                 attempt, status, landed>>

\* write_persisted returns, or the first failure of the gather is raised.
FinishSave(r) ==
  /\ pc[r] = "saving"
  /\ \/ /\ InState(r, "saved") = Ops(r)
        /\ Done(r, "saved")
     \/ /\ InState(r, "failed") \cup InState(r, "late") # {}
        /\ Done(r, "failed")
  /\ UNCHANGED <<rows, loadVars, readVars, editVars, saveVars, landed>>

\* asyncio.wait_for expires: the coroutines are cancelled, but a call already
\* handed to its thread may still reach DynamoDB.  A transaction that is being
\* merged has no call outstanding.
SaveTimeout(r) ==
  /\ "timeout" \in Faults
  /\ pc[r] = "saving"
  /\ InState(r, "pending") \cup InState(r, "reload") # {}
  /\ Done(r, "deadline_exceeded")
  /\ opState' = [opState EXCEPT ![r] =
       [item \in Items |->
          CASE @[item] = "pending" /\ Ready(r, item)  -> "late"
            [] @[item] = "pending" /\ ~Ready(r, item) -> "failed"
            [] @[item] = "reload" -> "failed"
            [] OTHER -> @[item]]]
  /\ UNCHANGED <<rows, loadVars, readVars, editVars, document, unsent, attempt,
                 landed>>

\* The write of a call nobody waits for any more takes effect.
LateWrite(r, item) ==
  /\ opState[r][item] = "late"
  /\ Land(r, CallOf(r, item))
  /\ Mark(r, CallOf(r, item), "failed")
  /\ UNCHANGED <<pc, loadVars, readVars, editVars, document, unsent, attempt,
                 status>>

-----------------------------------------------------------------------------
(* Time *)

\* The clock passes expiresAt; every older copy of the row expired before.
Expire(scope) ==
  /\ scope \in ExpiringScopes
  /\ store[scope].version > 0
  /\ ~store[scope].expired
  /\ store' = [store EXCEPT ![scope].expired = TRUE]
  /\ past' = [past EXCEPT ![scope] =
                {IF row.version > 0 THEN [row EXCEPT !.expired = TRUE] ELSE row
                   : row \in @}]
  /\ UNCHANGED <<outbox, pc, loadVars, readVars, editVars, saveVars, status,
                 landed>>

\* DynamoDB physically deletes an expired item.
TimeToLiveDelete(scope) ==
  /\ store[scope].expired
  /\ SetRows([s \in {scope} |-> Absent])
  /\ UNCHANGED <<outbox, pc, loadVars, readVars, editVars, saveVars, status,
                 landed>>

-----------------------------------------------------------------------------
StartRow(scope) ==
  IF scope \in StartScopes
    THEN [version |-> 1, expired |-> FALSE,
          doc |-> [field \in Fields |-> IF field = "playCount" THEN StartCount
                                                               ELSE Blank[field]]]
    ELSE Absent

Init ==
  /\ store = [scope \in Scopes |-> StartRow(scope)]
  /\ past = [scope \in Scopes |-> {}]
  /\ outbox = {}
  /\ pc = [r \in Requests |-> "loading"]
  /\ seen = [r \in Requests |-> {}]
  /\ gate = [r \in Requests |-> [scope \in Scopes |-> 0]]
  /\ versions = [r \in Requests |-> [scope \in Scopes |-> 0]]
  /\ baseline = [r \in Requests |-> Blank]
  /\ available = [r \in Requests |-> FALSE]
  /\ copying = [r \in Requests |-> FALSE]
  /\ edit = [r \in Requests |-> NoEdit]
  /\ eventAt = [r \in Requests |-> 0]
  /\ document = [r \in Requests |-> Blank]
  /\ unsent = [r \in Requests |-> {}]
  /\ attempt = [r \in Requests |-> [item \in Items |-> 0]]
  /\ opState = [r \in Requests |-> [item \in Items |-> "none"]]
  /\ status = [r \in Requests |-> "none"]
  /\ landed = [r \in Requests |-> {}]

\* The steps of a request that is not cut short.
Proceed(r) ==
  \/ \E scope \in Scopes : ReadScope(r, scope) \/ DeleteExpired(r, scope)
  \/ Hydrate(r)
  \/ \E change \in Edits, at \in Times : Handle(r, change, at)
  \/ SkipSave(r)
  \/ BeginSave(r)
  \/ \E item \in Items : Save(r, item) \/ Reject(r, item) \/ Exhaust(r, item)
  \/ ReloadOutbox(r)
  \/ FinishSave(r)

Disturb(r) ==
  \/ HydrateUnavailable(r)
  \/ \E item \in Items : CallError(r, item) \/ LateWrite(r, item)
  \/ SaveTimeout(r)

Next ==
  \/ \E r \in Requests : Proceed(r) \/ Disturb(r)
  \/ \E scope \in Scopes : Expire(scope) \/ TimeToLiveDelete(scope)

Spec == Init /\ [][Next]_vars

\* The event loop runs every coroutine that can go on, and calls to DynamoDB
\* end within the client's read timeout.
FairSpec == Spec /\ \A r \in Requests : WF_vars(Proceed(r))

-----------------------------------------------------------------------------
(* Properties *)

IsRow(row) ==
  /\ row \in [version : Nat, doc : {row.doc}, expired : BOOLEAN]
  /\ IsDocument(row.doc)

RowsTyped ==
  /\ store = [scope \in Scopes |-> store[scope]]
  /\ \A scope \in Scopes : IsRow(store[scope])
  /\ past = [scope \in Scopes |-> past[scope]]
  /\ \A scope \in Scopes : \A row \in past[scope] : IsRow(row)
  /\ outbox \subseteq Events

LoadTyped ==
  /\ pc \in [Requests -> {"loading", "handling", "handled", "saving", "done"}]
  /\ seen \in [Requests -> SUBSET Scopes]
  /\ gate \in [Requests -> [Scopes -> Nat]]
  /\ versions \in [Requests -> [Scopes -> Nat]]
  /\ baseline = [r \in Requests |-> baseline[r]]
  /\ \A r \in Requests : IsDocument(baseline[r])
  /\ available \in [Requests -> BOOLEAN]
  /\ copying \in [Requests -> BOOLEAN]
  /\ edit \in [Requests -> Edit]
  /\ eventAt \in [Requests -> Nat]

SaveTyped ==
  /\ document = [r \in Requests |-> document[r]]
  /\ \A r \in Requests : IsDocument(document[r])
  /\ unsent \in [Requests -> SUBSET Events]
  /\ attempt \in [Requests -> [Items -> 0 .. Retries]]
  /\ opState \in [Requests -> [Items -> {"none", "pending", "reload", "saved",
                                        "failed", "late"}]]
  /\ status \in [Requests -> {"none", "unchanged", "load_unavailable",
                              "deadline_exceeded", "saved", "failed"}]
  /\ landed \in [Requests -> SUBSET Items]

\* Every variable has its type.
TypeOK == RowsTyped /\ LoadTyped /\ SaveTyped

Counted == {r \in Requests : Core \in landed[r] /\ "playCount" \in edit[r].fields}
BaseCount == IF StartCount > 0 THEN StartCount ELSE IF HasAlias THEN AliasCount ELSE 0

\* playCount is exactly the earlier count plus one for every request whose
\* CORE write took effect, however the writes raced, were retried, timed out
\* or lost their answer (_merge_after_conflict and the delta merge of
\* COUNTER_FIELDS): no play is lost and none is counted twice.
CountExact ==
  Core \in Scopes =>
    IF store[Core].version = 0 THEN Counted = {}
    ELSE store[Core].doc["playCount"] = BaseCount + Cardinality(Counted)

\* A play whose CACHE write took effect stays in playHistory whatever later
\* requests that loaded an older history write (DynamoConflictMerge.collection).
HistoryKeepsAdds ==
  \A r \in Requests :
    (Cache \in landed[r] /\ "playHistory" \in edit[r].fields)
      => r \in store[Cache].doc["playHistory"]

\* An essential commit (requires_reliable_save) takes effect in all of its
\* scopes and its outbox items, or in none, also when it fails, is retried or
\* reaches the table after its deadline (_save_coupled).
AllOrNothing ==
  \A r \in Requests : Essential(r) => landed[r] \in {{}, Ops(r)}

\* runtime.invoke sends the prepared response unless the interceptor raises
\* EssentialPersistenceError.
Prepared(r) ==
  pc[r] = "done" /\ (Essential(r) => status[r] \in {"saved", "unchanged"})

\* The listener hears the prepared response to an essential request only when
\* all of its changes are stored and its events are in the outbox.
PreparedImpliesCommitted ==
  \A r \in Requests :
    (Prepared(r) /\ Essential(r)) =>
      /\ {ScopeFor(field) : field \in Changed(r)} \subseteq landed[r]
      /\ edit[r].emits \subseteq outbox

\* Requests all of whose operations took effect.
Complete == {r \in Requests : landed[r] # {} /\ landed[r] = Ops(r)}

\* An event is in the outbox exactly when a request that staged it has stored
\* its state: none is published for state that was never stored, and none of
\* stored state is missing, also when the item already existed and was
\* dropped from a retried transaction.
EventIffCommitted ==
  outbox = UNION {edit[r].emits : r \in Complete}

\* A write changes a plain field of a scope only to the value of a request
\* that updated this field (or copies every field from the alias key): what a
\* handler loaded but did not touch never returns over what another request
\* wrote meanwhile.  Deleting an expired row takes its fields back to their
\* defaults.
NoStaleOverwrite ==
  [][\A field \in Fields \cap PlainFields :
       LET before == store[ScopeFor(field)].doc[field]
           after  == store'[ScopeFor(field)].doc[field] IN
       \/ after = before
       \/ after = NoWriter /\ store'[ScopeFor(field)].version = 0
       \/ \E r \in Requests :
            /\ landed'[r] # landed[r]
            /\ \/ field \in edit[r].fields /\ after = r
               \/ copying[r] /\ after = Alias]_vars

\* An AudioPlayer event never takes activePlayback back to an earlier time,
\* whether the newer playback was loaded (accepts_event) or stored between
\* load and save (incoming_playback_is_newer).
AudioEventNeverRegresses ==
  [][\A r \in Requests :
       LET before == store[Playback].doc["activePlayback"]
           after  == store'[Playback].doc["activePlayback"] IN
       (after # before /\ after.by = r /\ edit[r].audio) => after.at >= before.at]_vars

\* A request never holds the version of a row that had expired when it was
\* returned: neither loading nor a merge brings back an expired document
\* (_live_scope_item).
ExpiredNeverRead ==
  [][\A r \in Requests, scope \in Scopes :
       (versions'[r][scope] # versions[r][scope] /\ versions'[r][scope] > 0)
         => \E row \in Visible(scope) :
              row.version = versions'[r][scope] /\ ~row.expired]_vars

\* Every request is answered: retries are bounded, and no operation waits for
\* another one's reload for ever.
EveryRequestAnswered == \A r \in Requests : <>(pc[r] = "done")

\* The essential commits of the store are the atomic ones of ListenerCommits.
Commits == INSTANCE ListenerCommits WITH
  Start     <- BaseCount,
  applied   <- {r \in Requests : landed[r] # {}},
  plays     <- IF store[Core].version = 0 THEN BaseCount
                                          ELSE store[Core].doc["playCount"],
  published <- outbox,
  answer    <- [r \in Requests |->
                 CASE status[r] = "none"      -> "none"
                   [] status[r] = "saved"     -> "saved"
                   [] status[r] = "unchanged" -> "unchanged"
                   [] OTHER                   -> "refused"]
CommitsAtomically == Commits!Spec

\* The expiry gate deletes expired rows only: a concurrently refreshed one is
\* preserved.
LiveRowNeverDeleted ==
  [][\A scope \in Scopes :
       (store[scope].version > 0 /\ store'[scope].version = 0)
         => store[scope].expired]_vars

\* A request that copies the alias document leaves a canonical row that was
\* written meanwhile as it is, but for the fields its handler updated.
CopyKeepsNewerData ==
  [][\A r \in Requests, field \in Fields \cap PlainFields :
       LET scope == ScopeFor(field) IN
       /\ copying[r] /\ landed'[r] # landed[r]
       /\ field \notin edit[r].fields
       /\ store[scope].version > 0
       => store'[scope].doc[field] = store[scope].doc[field]]_vars

-----------------------------------------------------------------------------
(* Inductive invariants, used by the proofs *)

\* Nothing has been saved before the save begins.
NothingBeforeSave(r) ==
  pc[r] \in {"loading", "handling", "handled"} => Ops(r) = {} /\ status[r] = "none"

\* Every operation that took effect has ended, and every one reported as
\* saved took effect.
LandedHasEnded(r) ==
  /\ landed[r] \subseteq InState(r, "saved") \cup InState(r, "failed")
  /\ InState(r, "saved") \subseteq landed[r]

\* The operations of a transaction are together in the retry loop or have
\* ended together, and they took effect together.
TransactionMovesAsOne(r) ==
  Transactional(r) =>
    /\ \/ \A item \in Ops(r) : opState[r][item] \in {"pending", "reload"}
       \/ \E state \in {"saved", "failed", "late"} :
            \A item \in Ops(r) : opState[r][item] = state
    /\ landed[r] \in {{}, Ops(r)}

\* The planned operations cover the changed fields and the staged events.
OpsCoverEdit(r) ==
  (pc[r] = "saving" \/ status[r] = "saved" \/ Ops(r) # {}) =>
    /\ {ScopeFor(field) : field \in Changed(r)} \subseteq Ops(r)
    /\ (Outbox \in Ops(r)) <=> (edit[r].emits # {})

\* A request reported as saved has saved everything, one reported as
\* unchanged had nothing to save.
StatusIsTrue(r) ==
  /\ status[r] = "saved" => \A item \in Ops(r) : opState[r][item] = "saved"
  /\ status[r] = "unchanged" => NothingToSave(r)

\* What a request no longer sends is in the outbox already.
UnsentEvents(r) ==
  Outbox \in Ops(r) =>
    /\ unsent[r] \subseteq edit[r].emits
    /\ edit[r].emits \ unsent[r] \subseteq outbox
    /\ Outbox \in landed[r] => edit[r].emits \subseteq outbox

RequestInv(r) ==
  /\ NothingBeforeSave(r)
  /\ LandedHasEnded(r)
  /\ TransactionMovesAsOne(r)
  /\ OpsCoverEdit(r)
  /\ StatusIsTrue(r)
  /\ UnsentEvents(r)

CommitInv == EventIffCommitted /\ \A r \in Requests : RequestInv(r)

\* Scopes whose rows do not reach expiresAt (every write renews it for days).
LastingScopes == Scopes \ ExpiringScopes

\* A row without a version is empty.
BlankRows ==
  \A scope \in Scopes : \A row \in past[scope] \cup {store[scope]} :
    row.version = 0 => row.doc = Blank

\* A lasting scope's versions only grow, and no request is ahead of them: who
\* holds the current version has seen the current row.
RowsOrdered ==
  \A scope \in LastingScopes :
    /\ ~store[scope].expired
    /\ \A row \in past[scope] : ~row.expired /\ row.version < store[scope].version
    /\ \A r \in Requests :
         versions[r][scope] <= store[scope].version /\ gate[r][scope] = 0

RowInv == BlankRows /\ RowsOrdered

Writing(r, scope) == opState[r][scope] \in {"pending", "late"}

\* A copy of the alias document knows no version of a scope until it is merged.
AliasHeld(r, scope) ==
  copying[r] =>
    /\ pc[r] # "loading"
    /\ \A field \in FieldsOf(scope) : baseline[r][field] = AliasDocument[field]
    /\ opState[r][scope] = "none" => versions[r][scope] = 0

AliasInv == \A r \in Requests, scope \in Scopes : AliasHeld(r, scope)

\* What a request is about to write into a plain field is its own value, the
\* alias' value, or (in a new row) nothing.
PlainHeld(r, field) ==
  LET scope == ScopeFor(field) IN
  /\ (opState[r][scope] = "none" /\ ~copying[r] /\ versions[r][scope] = 0) =>
       baseline[r][field] = NoWriter
  /\ Writing(r, scope) =>
       /\ field \in edit[r].fields => document[r][field] = r
       /\ (field \notin edit[r].fields /\ copying[r]) => document[r][field] = Alias
       /\ (field \notin Changed(r) /\ versions[r][scope] = 0) =>
            document[r][field] = NoWriter

PlainInv ==
  \A r \in Requests : \A field \in Fields \cap PlainFields : PlainHeld(r, field)

\* A request that holds the current PLAYBACK version holds the current
\* activePlayback, or what it may replace it with.
PlaybackHeld(r) ==
  LET current == store[Playback].doc["activePlayback"]
      mine    == document[r]["activePlayback"] IN
  /\ (/\ pc[r] \notin {"loading", "handling"}
      /\ edit[r].audio /\ "activePlayback" \in edit[r].fields) =>
       AcceptsEvent(baseline[r]["activePlayback"], eventAt[r])
  /\ versions[r][Playback] = store[Playback].version =>
       /\ (opState[r][Playback] = "none" /\ ~copying[r]) =>
            baseline[r]["activePlayback"] = current
       /\ Writing(r, Playback) =>
            \/ mine = current
            \/ mine.by = Alias
            \/ mine.by = r /\ (edit[r].audio => mine.at >= current.at)

PlaybackInv == \A r \in Requests : PlaybackHeld(r)

\* A request that holds the current CACHE version loses no play of it, and a
\* request that adds one holds it.
HistoryHeld(r) ==
  LET current == store[Cache].doc["playHistory"] IN
  /\ (Writing(r, Cache) /\ "playHistory" \in edit[r].fields) =>
       r \in document[r]["playHistory"]
  /\ versions[r][Cache] = store[Cache].version =>
       /\ opState[r][Cache] = "none" => current \subseteq baseline[r]["playHistory"]
       /\ Writing(r, Cache) => current \subseteq document[r]["playHistory"]

HistoryInv == (\A r \in Requests : HistoryHeld(r)) /\ HistoryKeepsAdds

\* Every CORE row, current or past, has a positive count.
CoreIsCounted ==
  \A row \in past[Core] \cup {store[Core]} :
    row.version > 0 /\ row.doc["playCount"] > 0

\* A request that has read CORE holds a version and loaded a positive count,
\* and what it holds is up to date when its version is.
CountHeld(r) ==
  LET current == store[Core].doc["playCount"] IN
  /\ ~copying[r]
  /\ pc[r] = "loading" => ~available[r]
  /\ opState[r][Core] # "none" => available[r]
  /\ (available[r] \/ (pc[r] = "loading" /\ Core \in seen[r])) =>
       versions[r][Core] > 0 /\ baseline[r]["playCount"] > 0
  /\ versions[r][Core] = store[Core].version =>
       /\ opState[r][Core] = "none" => baseline[r]["playCount"] = current
       /\ Writing(r, Core) => document[r]["playCount"] =
            IF "playCount" \in edit[r].fields THEN current + 1 ELSE current

CountInv == CoreIsCounted /\ (\A r \in Requests : CountHeld(r)) /\ CountExact

\* A request is answered once, saves only what there is to save, and does what
\* some handler does.
AnsweredOnce(r) ==
  /\ pc[r] # "done" => status[r] = "none"
  /\ (pc[r] = "saving" \/ Ops(r) # {}) => ~NothingToSave(r)
  /\ edit[r] \in Edits \cup {NoEdit}

AnswerInv == \A r \in Requests : AnsweredOnce(r)

\* Every change a handler makes is an essential one.
EssentialEdits ==
  \A change \in Edits :
    change.fields # {} =>
      \/ change.reliable \/ change.emits # {}
      \/ \E field \in change.fields : ScopeFor(field) \in ConsistentScopes

=============================================================================
