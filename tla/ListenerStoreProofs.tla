-------------------------- MODULE ListenerStoreProofs --------------------------
(***************************************************************************)
(* Proofs about ListenerStore for any number of requests, any edits, any   *)
(* retry bound and any combination of failures.                            *)
(***************************************************************************)
EXTENDS ListenerStore, TLAPS, FiniteSetTheorems

-----------------------------------------------------------------------------
(* Documents: every operator of StateDocument keeps them well formed, and the *)
(* merge adds a counter's delta to the latest value. *)

\* A modelled field lives in a modelled scope.
LEMMA ScopeOfField == ASSUME NEW field \in Fields
                      PROVE  ScopeFor(field) \in Scopes
BY DEF Scopes

\* No scope has the name of the outbox items.
LEMMA ScopesAreScopes == Scopes \subseteq AllScopes
BY DEF Scopes, ScopeFor, AllScopes, Core, Playback, Dialog, Cache

\* The default of a field is a value of the field.
LEMMA DefaultTyped == ASSUME NEW field PROVE DefaultFor(field) \in ValuesOf(field)
BY DEF DefaultFor, ValuesOf, NoPlayback, PlaybackValue, Writers

\* The document of all defaults is well formed.
LEMMA BlankTyped == IsDocument(Blank)
BY DefaultTyped DEF IsDocument, Blank

\* The document of the alias key is well formed.
LEMMA AliasTyped == IsDocument(AliasDocument)
<1>1. ASSUME NEW field \in Fields
      PROVE  AliasDocument[field] \in ValuesOf(field)
  BY DocumentAssumption DEF AliasDocument, ValuesOf, PlaybackValue, Writers
<1> QED BY <1>1 DEF IsDocument, AliasDocument

\* What a handler writes is a value of the field.
LEMMA NewValueTyped ==
  ASSUME NEW r \in Requests, NEW at \in Nat, NEW field,
         NEW old \in ValuesOf(field)
  PROVE  NewValue(r, at, field, old) \in ValuesOf(field)
<1>1. CASE field = "playCount"
  BY <1>1 DEF NewValue, ValuesOf
<1>2. CASE field = "activePlayback"
  BY <1>2 DEF NewValue, ValuesOf, PlaybackValue, Writers
<1>3. CASE field = "playHistory"
  BY <1>3 DEF NewValue, ValuesOf, Writers
<1>4. CASE field \notin {"playCount", "activePlayback", "playHistory"}
  BY <1>4 DEF NewValue, ValuesOf, Writers
<1> QED BY <1>1, <1>2, <1>3, <1>4

\* What the merge of one field yields is a value of the field.
LEMMA ResolveFieldTyped ==
  ASSUME NEW field,
         NEW latest \in ValuesOf(field), NEW incoming \in ValuesOf(field),
         NEW original \in ValuesOf(field)
  PROVE  ResolveField(field, latest, incoming, original) \in ValuesOf(field)
<1>1. CASE field = "playCount"
  BY <1>1 DEF ResolveField, ValuesOf, MergeCounter, Minus
<1>2. CASE field = "playHistory"
  BY <1>2 DEF ResolveField, ValuesOf, MergeCollection
<1>3. CASE field \notin {"playCount", "playHistory"}
  BY <1>3 DEF ResolveField
<1> QED BY <1>1, <1>2, <1>3

\* DynamoConflictMerge.resolve yields a document.
LEMMA ResolveTyped ==
  ASSUME NEW latest, IsDocument(latest), NEW requested, IsDocument(requested),
         NEW original, IsDocument(original), NEW changed
  PROVE  IsDocument(Resolve(latest, requested, original, changed))
BY ResolveFieldTyped DEF Resolve, IsDocument

\* The delta of a counter that was loaded with a positive value is added to
\* the latest value, whatever the others wrote meanwhile.
LEMMA CounterDelta ==
  ASSUME NEW latest \in Nat, NEW original \in Nat, original > 0
  PROVE  MergeCounter(latest, original + 1, original) = latest + 1
BY DEF MergeCounter, Minus

-----------------------------------------------------------------------------
(* Types *)

\* No scope is the outbox.
LEMMA OutboxIsNoScope == Outbox \notin Scopes
BY ScopesAreScopes DEF Outbox, AllScopes, Core, Playback, Dialog, Cache

\* A row that does not exist reads as a typed one.
LEMMA AbsentTyped == IsRow(Absent)
BY BlankTyped DEF IsRow, Absent

\* The document a request wants to store is well formed.
LEMMA RequestedTyped ==
  ASSUME LoadTyped, NEW r \in Requests
  PROVE  IsDocument(Requested(r))
<1>1. IsDocument(baseline[r]) /\ eventAt[r] \in Nat
  BY DEF LoadTyped
<1>2. \A field \in Fields : baseline[r][field] \in ValuesOf(field)
  BY <1>1 DEF IsDocument
<1>3. \A field \in Fields :
        NewValue(r, eventAt[r], field, baseline[r][field]) \in ValuesOf(field)
  BY <1>1, <1>2, NewValueTyped
<1> QED BY <1>2, <1>3 DEF Requested, IsDocument

\* The row a write leaves is well formed.
LEMMA RowAfterTyped ==
  ASSUME TypeOK, NEW r \in Requests, NEW scope \in Scopes
  PROVE  IsRow(RowAfter(r, scope))
<1>1. IsDocument(document[r]) /\ IsDocument(store[scope].doc) /\ versions[r][scope] \in Nat
  BY DEF TypeOK, RowsTyped, LoadTyped, SaveTyped, IsRow
<1> QED BY <1>1 DEF RowAfter, IsRow, IsDocument

\* Replacing rows by well-formed ones keeps the rows typed.
LEMMA SetRowsTyped ==
  ASSUME RowsTyped, NEW new, SetRows(new), outbox' \subseteq Events,
         \A scope \in Scopes \cap DOMAIN new : IsRow(new[scope])
  PROVE  RowsTyped'
<1>1. \A scope \in Scopes : IsRow(store'[scope])
  BY DEF SetRows, RowsTyped
<1>2. \A scope \in Scopes : \A row \in past'[scope] : IsRow(row)
  BY DEF SetRows, RowsTyped
<1> QED BY <1>1, <1>2 DEF SetRows, RowsTyped, IsRow, IsDocument

\* The rows a successful call writes are well formed.
LEMMA LandTyped ==
  ASSUME TypeOK, NEW r \in Requests, NEW items \in SUBSET Items, Land(r, items)
  PROVE  RowsTyped' /\ landed' \in [Requests -> SUBSET Items]
<1> DEFINE written == {scope \in items \ {Outbox} : ~Skipped(r, scope)}
           new == [scope \in written |-> RowAfter(r, scope)]
<1>1. SetRows(new) BY DEF Land
<1>2. outbox' \subseteq Events
  BY DEF Land, TypeOK, RowsTyped, SaveTyped
<1>3. \A scope \in Scopes \cap DOMAIN new : IsRow(new[scope])
  BY RowAfterTyped
<1>4. RowsTyped'
  <2> HIDE DEF new
  <2> QED BY <1>1, <1>2, <1>3, SetRowsTyped DEF TypeOK
<1>5. landed' \in [Requests -> SUBSET Items]
  BY DEF Land, TypeOK, SaveTyped
<1> QED BY <1>4, <1>5

\* Receiving a well-formed row keeps what a request holds typed.
LEMMA ReceiveTyped ==
  ASSUME TypeOK, NEW r \in Requests, NEW scope \in Scopes, NEW row, IsRow(row),
         Receive(r, scope, row)
  PROVE  /\ versions' \in [Requests -> [Scopes -> Nat]]
         /\ seen' \in [Requests -> SUBSET Scopes]
         /\ baseline' = [q \in Requests |-> baseline'[q]]
         /\ \A q \in Requests : IsDocument(baseline'[q])
         /\ document' = [q \in Requests |-> document'[q]]
         /\ \A q \in Requests : IsDocument(document'[q])
         /\ opState' \in [Requests -> [Items -> {"none", "pending", "reload",
                                                 "saved", "failed", "late"}]]
<1>1. versions' \in [Requests -> [Scopes -> Nat]]
  BY DEF TypeOK, LoadTyped, Receive, IsRow
<1>2. IsDocument(row.doc) BY DEF IsRow
<1>3. CASE Loading(r, scope)
  <2> DEFINE loaded == [field \in Fields |-> IF ScopeFor(field) = scope
                          THEN row.doc[field] ELSE baseline[r][field]]
  <2>1. IsDocument(loaded)
    BY <1>2 DEF TypeOK, LoadTyped, IsDocument
  <2>2. baseline' = [baseline EXCEPT ![r] = loaded]
    BY <1>3 DEF Receive
  <2>3. seen' = [seen EXCEPT ![r] = @ \cup {scope}] /\ UNCHANGED <<document, opState>>
    BY <1>3 DEF Receive
  <2> HIDE DEF loaded
  <2>4. /\ baseline' = [q \in Requests |-> baseline'[q]]
        /\ \A q \in Requests : IsDocument(baseline'[q])
    BY <2>1, <2>2 DEF TypeOK, LoadTyped
  <2> QED BY <1>1, <2>3, <2>4 DEF TypeOK, LoadTyped, SaveTyped
<1>4. CASE ~Loading(r, scope)
  <2> DEFINE merged == Resolve(row.doc, Requested(r), baseline[r], Changed(r))
  <2>1. IsDocument(merged)
    BY <1>2, RequestedTyped, ResolveTyped DEF TypeOK, LoadTyped
  <2> DEFINE next == [field \in Fields |-> IF ScopeFor(field) = scope
                          THEN merged[field] ELSE document[r][field]]
  <2>2. document' = [document EXCEPT ![r] = next]
    BY <1>4 DEF Receive
  <2>3. Mark(r, {scope}, "pending") /\ UNCHANGED <<seen, baseline>>
    BY <1>4 DEF Receive
  <2> HIDE DEF merged
  <2>4. IsDocument(next)
    BY <2>1 DEF TypeOK, SaveTyped, IsDocument
  <2> HIDE DEF next
  <2>5. /\ document' = [q \in Requests |-> document'[q]]
        /\ \A q \in Requests : IsDocument(document'[q])
    BY <2>2, <2>4 DEF TypeOK, SaveTyped
  <2> QED BY <1>1, <2>3, <2>5 DEF Mark, TypeOK, LoadTyped, SaveTyped
<1> QED BY <1>3, <1>4

\* An expired row is as well formed as it was.
LEMMA ExpiredTyped ==
  ASSUME NEW old, IsRow(old)
  PROVE  IsRow([old EXCEPT !.expired = TRUE])
<1> DEFINE D == {old.doc}
<1>1. old \in [version : Nat, doc : D, expired : BOOLEAN] BY DEF IsRow
<1> HIDE DEF D
<1>2. [old EXCEPT !.expired = TRUE] \in [version : Nat, doc : D, expired : BOOLEAN]
  BY <1>1
<1>3. [old EXCEPT !.expired = TRUE].doc = old.doc BY <1>1
<1> QED BY <1>2, <1>3 DEF IsRow, D

\* A visible row is well formed.
LEMMA VisibleTyped ==
  ASSUME RowsTyped, NEW scope \in Scopes, NEW item \in Visible(scope)
  PROVE  IsRow(item)
BY DEF RowsTyped, Visible

\* Marking operations keeps their states typed.
LEMMA MarkTyped ==
  ASSUME SaveTyped, NEW r \in Requests, NEW items,
         NEW state \in {"none", "pending", "reload", "saved", "failed", "late"},
         Mark(r, items, state)
  PROVE  opState' \in [Requests -> [Items -> {"none", "pending", "reload",
                                              "saved", "failed", "late"}]]
BY DEF SaveTyped, Mark

\* A DynamoDB call writes operations of the request.
LEMMA CallOfTyped ==
  ASSUME NEW r \in Requests, NEW item \in Items
  PROVE  CallOf(r, item) \in SUBSET Items
BY DEF CallOf, Ops

\* Ending a request keeps its place and its CommitResult typed.
LEMMA DoneTyped ==
  ASSUME LoadTyped, SaveTyped, NEW r \in Requests,
         NEW result \in {"unchanged", "load_unavailable", "deadline_exceeded",
                         "saved", "failed"},
         Done(r, result)
  PROVE  /\ pc' \in [Requests -> {"loading", "handling", "handled", "saving", "done"}]
         /\ status' \in [Requests -> {"none", "unchanged", "load_unavailable",
                                      "deadline_exceeded", "saved", "failed"}]
BY DEF LoadTyped, SaveTyped, Done

\* Type correctness of ListenerStore.
LEMMA TypeInit == Init => TypeOK
<1> SUFFICES ASSUME Init PROVE TypeOK OBVIOUS
<1>1. \A scope \in Scopes : IsRow(StartRow(scope))
  <2> SUFFICES ASSUME NEW scope \in Scopes PROVE IsRow(StartRow(scope)) OBVIOUS
  <2> DEFINE doc == [field \in Fields |-> IF field = "playCount" THEN StartCount
                                                               ELSE Blank[field]]
  <2>1. \A field \in Fields : doc[field] \in ValuesOf(field)
    BY BlankTyped, DocumentAssumption DEF ValuesOf, IsDocument
  <2>2. IsDocument(doc) BY <2>1 DEF IsDocument
  <2> HIDE DEF doc
  <2>3. IsRow([version |-> 1, expired |-> FALSE, doc |-> doc]) BY <2>2 DEF IsRow
  <2> QED BY <2>3, AbsentTyped DEF StartRow, doc
<1>2. RowsTyped BY <1>1 DEF Init, RowsTyped
<1>3. LoadTyped BY BlankTyped DEF Init, LoadTyped, NoEdit, Edit
<1>4. SaveTyped BY BlankTyped, StoreAssumption DEF Init, SaveTyped
<1> QED BY <1>2, <1>3, <1>4 DEF TypeOK

\* Every step keeps every variable in its type: one case per action.
LEMMA TypeNext == TypeOK /\ [Next]_vars => TypeOK'
<1> SUFFICES ASSUME TypeOK, [Next]_vars PROVE TypeOK' OBVIOUS
<1> USE DEF TypeOK
<1>1. CASE UNCHANGED vars
  BY <1>1 DEF vars, rows, loadVars, readVars, editVars, saveVars,
              RowsTyped, LoadTyped, SaveTyped
<1>2. ASSUME NEW r \in Requests, NEW scope \in Scopes, ReadScope(r, scope)
      PROVE  TypeOK'
  <2>1. PICK item \in Visible(scope) :
          IF item.expired
            THEN /\ gate' = [gate EXCEPT ![r][scope] = item.version]
                 /\ UNCHANGED <<seen, versions, baseline, document, opState>>
            ELSE Receive(r, scope, item) /\ UNCHANGED gate
    BY <1>2 DEF ReadScope
  <2>2. IsRow(item) BY VisibleTyped
  <2>3. RowsTyped' BY <1>2 DEF ReadScope, rows, RowsTyped, IsRow, IsDocument
  <2>4. CASE item.expired
    <3>1. gate' \in [Requests -> [Scopes -> Nat]]
      <4>1. item.version \in Nat BY <2>2 DEF IsRow
      <4>2. gate' = [gate EXCEPT ![r][scope] = item.version] BY <2>1, <2>4
      <4> QED BY <4>1, <4>2 DEF LoadTyped
    <3>2. UNCHANGED <<seen, versions, baseline, document, opState>>
      BY <2>1, <2>4
    <3>3. LoadTyped' BY <1>2, <3>1, <3>2 DEF ReadScope, loadVars, editVars, LoadTyped
    <3>4. SaveTyped' BY <1>2, <3>2 DEF ReadScope, SaveTyped
    <3> QED BY <2>3, <3>3, <3>4
  <2>5. CASE ~item.expired
    <3>1. Receive(r, scope, item) /\ UNCHANGED gate BY <2>1, <2>5
    <3> QED BY <1>2, <2>2, <2>3, <3>1, ReceiveTyped
               DEF ReadScope, loadVars, editVars, LoadTyped, SaveTyped
  <2> QED BY <2>4, <2>5
<1>3. ASSUME NEW r \in Requests, NEW scope \in Scopes, DeleteExpired(r, scope)
      PROVE  TypeOK'
  <2> DEFINE deleted == store[scope].version = gate[r][scope]
  <2>1. PICK item \in Visible(scope) :
          /\ IF deleted THEN SetRows([s \in {scope} |-> Absent])
                        ELSE UNCHANGED <<store, past>>
          /\ IF Loading(r, scope) \/ Reloading(r, scope)
               THEN Receive(r, scope, IF deleted THEN Absent ELSE Refreshed(item))
               ELSE UNCHANGED <<seen, versions, baseline, document, opState>>
    BY <1>3 DEF DeleteExpired
  <2> HIDE DEF deleted
  <2> DEFINE row == IF deleted THEN Absent ELSE Refreshed(item)
  <2>2. IsRow(row) BY VisibleTyped, AbsentTyped DEF Refreshed
  <2> HIDE DEF row
  <2>3. RowsTyped'
    <3> DEFINE new == [s \in {scope} |-> Absent]
    <3>1. outbox' \subseteq Events BY <1>3 DEF DeleteExpired, RowsTyped
    <3>2. \A s \in Scopes \cap DOMAIN new : IsRow(new[s]) BY AbsentTyped
    <3>3. CASE deleted
      <4>1. SetRows(new) BY <2>1, <3>3
      <4> HIDE DEF new
      <4> QED BY <3>1, <3>2, <4>1, SetRowsTyped
    <3>4. CASE ~deleted BY <2>1, <3>1, <3>4 DEF RowsTyped, IsRow, IsDocument
    <3> QED BY <3>3, <3>4
  <2>4. gate' \in [Requests -> [Scopes -> Nat]]
    BY <1>3 DEF DeleteExpired, LoadTyped
  <2>5. CASE Loading(r, scope) \/ Reloading(r, scope)
    <3>1. Receive(r, scope, row) BY <2>1, <2>5 DEF row
    <3> QED BY <1>3, <2>2, <2>3, <2>4, <3>1, ReceiveTyped
               DEF DeleteExpired, loadVars, editVars, LoadTyped, SaveTyped
  <2>6. CASE ~(Loading(r, scope) \/ Reloading(r, scope))
    BY <1>3, <2>1, <2>3, <2>4, <2>6
       DEF DeleteExpired, loadVars, editVars, LoadTyped, SaveTyped, IsDocument
  <2> QED BY <2>5, <2>6
<1>4. ASSUME NEW r \in Requests, Hydrate(r) PROVE TypeOK'
  <2>1. /\ baseline' = [q \in Requests |-> baseline'[q]]
        /\ \A q \in Requests : IsDocument(baseline'[q])
        /\ copying' \in [Requests -> BOOLEAN]
    BY <1>4, AliasTyped DEF Hydrate, LoadTyped
  <2> QED BY <1>4, <2>1
             DEF Hydrate, rows, editVars, saveVars, RowsTyped, LoadTyped, SaveTyped
<1>5. ASSUME NEW r \in Requests, HydrateUnavailable(r) PROVE TypeOK'
  BY <1>5, BlankTyped
     DEF HydrateUnavailable, rows, loadVars, editVars, saveVars, RowsTyped,
         LoadTyped, SaveTyped
<1>6. ASSUME NEW r \in Requests, NEW change \in Edits, NEW at \in Times,
             Handle(r, change, at)
      PROVE  TypeOK'
  BY <1>6, StoreAssumption, DocumentAssumption
     DEF Handle, rows, loadVars, readVars, saveVars, RowsTyped, LoadTyped,
         SaveTyped, IsRow, IsDocument, NoEdit, Edit
<1>7. ASSUME NEW r \in Requests, SkipSave(r) PROVE TypeOK'
  <2>1. /\ pc' \in [Requests -> {"loading", "handling", "handled", "saving", "done"}]
        /\ status' \in [Requests -> {"none", "unchanged", "load_unavailable",
                                     "deadline_exceeded", "saved", "failed"}]
    BY <1>7, DoneTyped DEF SkipSave
  <2> QED BY <1>7, <2>1
             DEF SkipSave, rows, loadVars, readVars, editVars, saveVars, RowsTyped,
                 LoadTyped, SaveTyped
<1>8. ASSUME NEW r \in Requests, BeginSave(r) PROVE TypeOK'
  <2>1. opState' \in [Requests -> [Items -> {"none", "pending", "reload", "saved",
                                            "failed", "late"}]]
    BY <1>8, MarkTyped DEF BeginSave
  <2>2. /\ document' = [q \in Requests |-> document'[q]]
        /\ \A q \in Requests : IsDocument(document'[q])
    BY <1>8, RequestedTyped DEF BeginSave, SaveTyped
  <2> QED BY <1>8, <2>1, <2>2
             DEF BeginSave, rows, loadVars, readVars, editVars, RowsTyped,
                 LoadTyped, SaveTyped, IsRow, IsDocument, Edit
<1>9. ASSUME NEW r \in Requests, NEW item \in Items,
             Save(r, item) \/ LateWrite(r, item)
      PROVE  TypeOK'
  <2>1. RowsTyped' /\ landed' \in [Requests -> SUBSET Items]
    BY <1>9, CallOfTyped, LandTyped DEF Save, LateWrite
  <2>2. opState' \in [Requests -> [Items -> {"none", "pending", "reload", "saved",
                                            "failed", "late"}]]
    BY <1>9, MarkTyped DEF Save, LateWrite
  <2> QED BY <1>9, <2>1, <2>2
             DEF Save, LateWrite, loadVars, readVars, editVars, LoadTyped, SaveTyped, IsDocument
<1>10. ASSUME NEW r \in Requests, NEW item \in Items,
              Reject(r, item) \/ Exhaust(r, item) \/ CallError(r, item)
       PROVE  TypeOK'
  <2>1. opState' \in [Requests -> [Items -> {"none", "pending", "reload", "saved",
                                            "failed", "late"}]]
    BY <1>10, MarkTyped DEF Reject, Exhaust, CallError
  <2>2. attempt' \in [Requests -> [Items -> 0 .. Retries]]
    <3>1. CASE Reject(r, item)
      <4>1. \A i \in CallOf(r, item) : attempt[r][i] < Retries
        BY <3>1 DEF Reject, MayRetry
      <4> QED BY <3>1, <4>1, StoreAssumption DEF Reject, SaveTyped
    <3> QED BY <1>10, <3>1 DEF Exhaust, CallError, SaveTyped
  <2> QED BY <1>10, <2>1, <2>2
             DEF Reject, Exhaust, CallError, rows, loadVars, readVars, editVars,
                 RowsTyped, LoadTyped, SaveTyped
<1>11. ASSUME NEW r \in Requests, ReloadOutbox(r) PROVE TypeOK'
  <2>1. opState' \in [Requests -> [Items -> {"none", "pending", "reload", "saved",
                                            "failed", "late"}]]
    BY <1>11, MarkTyped DEF ReloadOutbox
  <2> QED BY <1>11, <2>1
             DEF ReloadOutbox, rows, loadVars, readVars, editVars, RowsTyped,
                 LoadTyped, SaveTyped
<1>12. ASSUME NEW r \in Requests, FinishSave(r) PROVE TypeOK'
  <2>1. /\ pc' \in [Requests -> {"loading", "handling", "handled", "saving", "done"}]
        /\ status' \in [Requests -> {"none", "unchanged", "load_unavailable",
                                     "deadline_exceeded", "saved", "failed"}]
    BY <1>12, DoneTyped DEF FinishSave
  <2> QED BY <1>12, <2>1
             DEF FinishSave, rows, loadVars, readVars, editVars, saveVars, RowsTyped,
                 LoadTyped, SaveTyped
<1>13. ASSUME NEW r \in Requests, SaveTimeout(r) PROVE TypeOK'
  <2>1. /\ pc' \in [Requests -> {"loading", "handling", "handled", "saving", "done"}]
        /\ status' \in [Requests -> {"none", "unchanged", "load_unavailable",
                                     "deadline_exceeded", "saved", "failed"}]
    BY <1>13, DoneTyped DEF SaveTimeout
  <2>2. opState' \in [Requests -> [Items -> {"none", "pending", "reload", "saved",
                                            "failed", "late"}]]
    BY <1>13 DEF SaveTimeout, SaveTyped
  <2> QED BY <1>13, <2>1, <2>2
             DEF SaveTimeout, rows, loadVars, readVars, editVars, RowsTyped,
                 LoadTyped, SaveTyped
<1>14. ASSUME NEW scope \in Scopes, Expire(scope) PROVE TypeOK'
  <2>1. \A s \in Scopes : IsRow(store'[s])
    <3>1. IsRow(store[scope]) BY DEF RowsTyped
    <3>2. IsRow([store[scope] EXCEPT !.expired = TRUE]) BY <3>1, ExpiredTyped
    <3>3. store' = [store EXCEPT ![scope] = [store[scope] EXCEPT !.expired = TRUE]]
      BY <1>14 DEF Expire
    <3> QED BY <3>2, <3>3 DEF RowsTyped
  <2>2. \A s \in Scopes : \A row \in past'[s] : IsRow(row)
    <3> SUFFICES ASSUME NEW s \in Scopes, NEW row \in past'[s] PROVE IsRow(row)
      OBVIOUS
    <3>1. CASE s # scope BY <1>14, <3>1 DEF Expire, RowsTyped
    <3>2. CASE s = scope
      <4>1. PICK old \in past[scope] :
              row = IF old.version > 0 THEN [old EXCEPT !.expired = TRUE] ELSE old
        BY <1>14, <3>2 DEF Expire, RowsTyped
      <4>2. IsRow(old) BY DEF RowsTyped
      <4> QED BY <4>1, <4>2, ExpiredTyped
    <3> QED BY <3>1, <3>2
  <2>3. RowsTyped' BY <1>14, <2>1, <2>2 DEF Expire, RowsTyped
  <2> QED BY <1>14, <2>3
             DEF Expire, loadVars, readVars, editVars, saveVars, LoadTyped, SaveTyped
<1>15. ASSUME NEW scope \in Scopes, TimeToLiveDelete(scope) PROVE TypeOK'
  <2> DEFINE new == [s \in {scope} |-> Absent]
  <2>1. SetRows(new) /\ outbox' \subseteq Events
    BY <1>15 DEF TimeToLiveDelete, RowsTyped
  <2>2. \A s \in Scopes \cap DOMAIN new : IsRow(new[s]) BY AbsentTyped
  <2>3. RowsTyped'
    <3> HIDE DEF new
    <3> QED BY <2>1, <2>2, SetRowsTyped
  <2> QED BY <1>15, <2>3
             DEF TimeToLiveDelete, loadVars, readVars, editVars, saveVars,
                 LoadTyped, SaveTyped, IsDocument
<1> QED
  BY <1>1, <1>2, <1>3, <1>4, <1>5, <1>6, <1>7, <1>8, <1>9, <1>10, <1>11, <1>12,
     <1>13, <1>14, <1>15 DEF Next, Proceed, Disturb

\* Every variable of every reachable state has its type, for any number of
\* requests, edits and retries and any set of failures.
THEOREM TypeCorrect == Spec => []TypeOK
BY TypeInit, TypeNext, PTL DEF Spec

-----------------------------------------------------------------------------
(* Commits.  Essential commits are atomic, prepared responses are true and   *)
(* the outbox holds exactly the events of stored state.  CommitInv is the    *)
(* inductive invariant: a transaction's operations move together, so that    *)
(* they land together, and what a retried transaction no longer sends is in  *)
(* the outbox already.                                                       *)

\* A request has finitely many operations.
LEMMA OpsFinite == ASSUME NEW r \in Requests
                   PROVE  IsFiniteSet(Ops(r)) /\ Cardinality(Ops(r)) \in Nat
<1>1. AllScopes = ((({} \cup {Core}) \cup {Playback}) \cup {Dialog}) \cup {Cache}
  BY DEF AllScopes
<1>2. IsFiniteSet(AllScopes)
  BY <1>1, FS_EmptySet, FS_AddElement
<1>3. IsFiniteSet(Scopes) BY <1>2, ScopesAreScopes, FS_Subset
<1>4. IsFiniteSet(Items) BY <1>3, FS_AddElement DEF Items
<1>5. Ops(r) \subseteq Items BY DEF Ops
<1>6. IsFiniteSet(Ops(r)) BY <1>4, <1>5, FS_Subset
<1> QED BY <1>6, FS_CardinalityType

\* An essential request with several operations is a transaction.
LEMMA EssentialSplit ==
  ASSUME NEW r \in Requests, Essential(r)
  PROVE  Transactional(r) \/ Cardinality(Ops(r)) <= 1
BY OpsFinite DEF Transactional

\* The invariant makes an essential commit atomic (_save_coupled): what landed
\* is nothing or every operation, also when there is only one.
LEMMA AllOrNothingHolds ==
  ASSUME TypeOK, CommitInv PROVE AllOrNothing
<1> SUFFICES ASSUME NEW r \in Requests, Essential(r)
             PROVE  landed[r] \in {{}, Ops(r)}
  BY DEF AllOrNothing
<1>1. RequestInv(r) BY DEF CommitInv
<1>2. landed[r] \subseteq Ops(r)
  BY <1>1 DEF RequestInv, LandedHasEnded, InState, Ops
<1>3. CASE Transactional(r)
  BY <1>1, <1>3 DEF RequestInv, TransactionMovesAsOne
<1>4. CASE Cardinality(Ops(r)) <= 1
  <2>1. IsFiniteSet(Ops(r)) BY OpsFinite
  <2>2. Cardinality(Ops(r)) = 0 \/ Cardinality(Ops(r)) = 1
    BY <1>4, OpsFinite
  <2>3. CASE Cardinality(Ops(r)) = 0
    BY <1>2, <2>1, <2>3, FS_EmptySet
  <2>4. CASE Cardinality(Ops(r)) = 1
    <3>1. PICK item : Ops(r) = {item} BY <2>1, <2>4, FS_Singleton
    <3> QED BY <1>2, <3>1
  <2> QED BY <2>2, <2>3, <2>4
<1> QED BY <1>3, <1>4, EssentialSplit

\* The invariant makes a prepared response true (EssentialPersistenceError is
\* raised otherwise): a saved status comes with everything stored.
LEMMA PreparedHolds ==
  ASSUME TypeOK, CommitInv PROVE PreparedImpliesCommitted
<1> SUFFICES ASSUME NEW r \in Requests, Prepared(r), Essential(r)
             PROVE  /\ {ScopeFor(field) : field \in Changed(r)} \subseteq landed[r]
                    /\ edit[r].emits \subseteq outbox
  BY DEF PreparedImpliesCommitted
<1>1. RequestInv(r) BY DEF CommitInv
<1>2. CASE status[r] = "saved"
  <2>1. Ops(r) \subseteq landed[r]
    BY <1>1, <1>2 DEF RequestInv, StatusIsTrue, LandedHasEnded, Ops, InState
  <2>2. CASE edit[r].emits = {}
    BY <1>1, <1>2, <2>1, <2>2 DEF RequestInv, OpsCoverEdit
  <2>3. CASE edit[r].emits # {}
    BY <1>1, <1>2, <2>1, <2>3 DEF RequestInv, OpsCoverEdit, UnsentEvents
  <2> QED BY <2>2, <2>3
<1>3. CASE status[r] = "unchanged"
  BY <1>1, <1>3 DEF RequestInv, StatusIsTrue, NothingToSave
<1> QED BY <1>2, <1>3 DEF Prepared

-----------------------------------------------------------------------------
(* Frames *)

\* A step of one request keeps the invariant of every other request: only the
\* outbox is shared, and it only grows.
LEMMA OtherRequests ==
  ASSUME TypeOK, CommitInv, NEW q \in Requests,
         pc'[q] = pc[q], opState'[q] = opState[q], status'[q] = status[q],
         landed'[q] = landed[q], edit'[q] = edit[q], copying'[q] = copying[q],
         unsent'[q] = unsent[q], outbox \subseteq outbox'
  PROVE  RequestInv(q)'
<1>1. RequestInv(q) BY DEF CommitInv
<1>2. /\ Ops(q)' = Ops(q) /\ Changed(q)' = Changed(q)
      /\ \A state : InState(q, state)' = InState(q, state)
  BY DEF Ops, Changed, InState
<1>3. (Transactional(q)' <=> Transactional(q)) /\ (NothingToSave(q)' <=> NothingToSave(q))
  BY <1>2 DEF Transactional, Essential, NothingToSave
<1>4. NothingBeforeSave(q)' BY <1>1, <1>2 DEF RequestInv, NothingBeforeSave
<1>5. LandedHasEnded(q)' BY <1>1, <1>2 DEF RequestInv, LandedHasEnded
<1>6. TransactionMovesAsOne(q)'
  BY <1>1, <1>2, <1>3 DEF RequestInv, TransactionMovesAsOne
<1>7. OpsCoverEdit(q)' BY <1>1, <1>2 DEF RequestInv, OpsCoverEdit
<1>8. StatusIsTrue(q)' BY <1>1, <1>2, <1>3 DEF RequestInv, StatusIsTrue
<1>9. UnsentEvents(q)' BY <1>1, <1>2 DEF RequestInv, UnsentEvents
<1> QED BY <1>4, <1>5, <1>6, <1>7, <1>8, <1>9 DEF RequestInv

\* A step in which nothing lands keeps the outbox equal to the stored events,
\* if it leaves the requests alone that landed something.
LEMMA NothingLands ==
  ASSUME TypeOK, CommitInv, outbox' = outbox, landed' = landed,
         \A q \in Requests : landed[q] # {} =>
           Ops(q)' = Ops(q) /\ edit'[q] = edit[q]
  PROVE  EventIffCommitted'
<1>1. Complete' \subseteq Requests /\ Complete \subseteq Requests
  BY DEF Complete
<1>2. Complete' = Complete
  <2>1. \A q \in Requests : q \in Complete' <=> q \in Complete
    <3> SUFFICES ASSUME NEW q \in Requests PROVE q \in Complete' <=> q \in Complete
      OBVIOUS
    <3>1. CASE landed[q] = {} BY <3>1 DEF Complete
    <3>2. CASE landed[q] # {} BY <3>2 DEF Complete
    <3> QED BY <3>1, <3>2
  <2> QED BY <1>1, <2>1
<1>3. \A q \in Complete : edit'[q] = edit[q] BY DEF Complete
<1> QED BY <1>2, <1>3 DEF EventIffCommitted, CommitInv

\* What marking some operations of a request changes.
LEMMA Marking ==
  ASSUME TypeOK, NEW r \in Requests, NEW items, items \subseteq Ops(r),
         NEW state \in {"pending", "reload", "saved", "failed", "late"},
         Mark(r, items, state), edit' = edit, copying' = copying
  PROVE  /\ \A item \in Items : opState'[r][item] =
              IF item \in items THEN state ELSE opState[r][item]
         /\ \A q \in Requests \ {r} : opState'[q] = opState[q]
         /\ \A q \in Requests : Ops(q)' = Ops(q) /\ Changed(q)' = Changed(q)
         /\ Transactional(r)' <=> Transactional(r)
         /\ NothingToSave(r)' <=> NothingToSave(r)
<1>1. \A item \in Items : opState'[r][item] =
        IF item \in items THEN state ELSE opState[r][item]
  BY DEF Mark, TypeOK, SaveTyped
<1>2. \A q \in Requests \ {r} : opState'[q] = opState[q]
  BY DEF Mark, TypeOK, SaveTyped
<1>3. \A q \in Requests : Ops(q)' = Ops(q) /\ Changed(q)' = Changed(q)
  BY <1>1, <1>2 DEF Ops, Changed
<1>4. Transactional(r)' <=> Transactional(r)
  BY <1>3 DEF Transactional, Essential
<1>5. NothingToSave(r)' <=> NothingToSave(r)
  BY <1>3 DEF NothingToSave
<1> QED BY <1>1, <1>2, <1>3, <1>4, <1>5

-----------------------------------------------------------------------------
(* Steps that move operations *)

\* Moving operations that have not ended on in the retry loop, or out of it,
\* keeps the invariant, if a transaction is moved as a whole or back to
\* pending.
LEMMA MovingKeeps ==
  ASSUME TypeOK, CommitInv, NEW r \in Requests, NEW items, items \subseteq Ops(r),
         NEW state \in {"pending", "reload", "failed", "late"},
         Mark(r, items, state),
         UNCHANGED <<pc, status, landed, edit, copying, outbox>>,
         \A q \in Requests \ {r} : unsent'[q] = unsent[q],
         unsent'[r] \subseteq unsent[r], unsent[r] \ unsent'[r] \subseteq outbox,
         \A item \in items : opState[r][item] \in {"pending", "reload"},
         Transactional(r) => items = Ops(r) \/ state = "pending"
  PROVE  CommitInv'
<1>0. RequestInv(r) BY DEF CommitInv
<1>1. /\ \A item \in Items : opState'[r][item] =
            IF item \in items THEN state ELSE opState[r][item]
      /\ \A q \in Requests \ {r} : opState'[q] = opState[q]
      /\ \A q \in Requests : Ops(q)' = Ops(q) /\ Changed(q)' = Changed(q)
      /\ Transactional(r)' <=> Transactional(r)
      /\ NothingToSave(r)' <=> NothingToSave(r)
  BY Marking
<1>2. \A q \in Requests \ {r} : RequestInv(q)' BY <1>1, OtherRequests
<1>3. EventIffCommitted' BY <1>1, NothingLands
<1>4. Ops(r) \subseteq Items /\ landed[r] \subseteq Items
  BY <1>0 DEF Ops, RequestInv, LandedHasEnded, InState
<1>5. NothingBeforeSave(r)' BY <1>0, <1>1 DEF RequestInv, NothingBeforeSave
<1>6. LandedHasEnded(r)'
  BY <1>0, <1>1, <1>4 DEF RequestInv, LandedHasEnded, InState
<1>7. TransactionMovesAsOne(r)'
  <2> SUFFICES ASSUME Transactional(r) PROVE TransactionMovesAsOne(r)'
    BY <1>1 DEF TransactionMovesAsOne
  <2>1. landed'[r] \in {{}, Ops(r)'}
    BY <1>0, <1>1 DEF RequestInv, TransactionMovesAsOne
  <2>2. CASE items = Ops(r)
    BY <1>1, <1>4, <2>1, <2>2 DEF TransactionMovesAsOne
  <2>3. CASE items = {}
    BY <1>0, <1>1, <1>4, <2>1, <2>3 DEF RequestInv, TransactionMovesAsOne
  <2>4. CASE items # {} /\ state = "pending"
    <3>1. \A item \in Ops(r) : opState[r][item] \in {"pending", "reload"}
      BY <1>0, <2>4 DEF RequestInv, TransactionMovesAsOne
    <3> QED BY <1>1, <1>4, <2>1, <2>4, <3>1 DEF TransactionMovesAsOne
  <2> QED BY <2>2, <2>3, <2>4
<1>8. OpsCoverEdit(r)' BY <1>0, <1>1 DEF RequestInv, OpsCoverEdit
<1>9. StatusIsTrue(r)'
  BY <1>0, <1>1, <1>4 DEF RequestInv, StatusIsTrue
<1>10. UnsentEvents(r)' BY <1>0, <1>1 DEF RequestInv, UnsentEvents
<1> QED
  BY <1>2, <1>3, <1>5, <1>6, <1>7, <1>8, <1>9, <1>10 DEF CommitInv, RequestInv

\* A call that takes effect keeps the invariant, if a transaction takes effect
\* as a whole.
LEMMA LandingKeeps ==
  ASSUME TypeOK, CommitInv, NEW r \in Requests, NEW items, items \subseteq Ops(r),
         items # {}, NEW state \in {"saved", "failed"},
         Land(r, items), Mark(r, items, state),
         UNCHANGED <<pc, status, edit, copying, unsent>>,
         \A item \in items : opState[r][item] \in {"pending", "late"},
         Transactional(r) => items = Ops(r)
  PROVE  CommitInv'
<1>0. RequestInv(r) BY DEF CommitInv
<1>1. /\ \A item \in Items : opState'[r][item] =
            IF item \in items THEN state ELSE opState[r][item]
      /\ \A q \in Requests \ {r} : opState'[q] = opState[q]
      /\ \A q \in Requests : Ops(q)' = Ops(q) /\ Changed(q)' = Changed(q)
      /\ Transactional(r)' <=> Transactional(r)
      /\ NothingToSave(r)' <=> NothingToSave(r)
  BY Marking
<1>2. /\ outbox' = IF Outbox \in items THEN outbox \cup unsent[r] ELSE outbox
      /\ landed'[r] = landed[r] \cup items
      /\ \A q \in Requests \ {r} : landed'[q] = landed[q]
  BY DEF Land, TypeOK, SaveTyped
<1>3. \A q \in Requests \ {r} : RequestInv(q)' BY <1>1, <1>2, OtherRequests
<1>4. Ops(r) \subseteq Items /\ landed[r] \subseteq Ops(r) /\ landed[r] \cap items = {}
  BY <1>0 DEF Ops, RequestInv, LandedHasEnded, InState
<1>5. NothingBeforeSave(r)' BY <1>0, <1>1 DEF RequestInv, NothingBeforeSave
<1>6. LandedHasEnded(r)'
  BY <1>0, <1>1, <1>2, <1>4 DEF RequestInv, LandedHasEnded, InState
<1>7. TransactionMovesAsOne(r)'
  BY <1>1, <1>2, <1>4 DEF TransactionMovesAsOne
<1>8. OpsCoverEdit(r)' BY <1>0, <1>1 DEF RequestInv, OpsCoverEdit
<1>9. StatusIsTrue(r)'
  BY <1>0, <1>1, <1>4 DEF RequestInv, StatusIsTrue
<1>10. UnsentEvents(r)' BY <1>0, <1>1, <1>2 DEF RequestInv, UnsentEvents
<1>11. EventIffCommitted'
  <2>1. r \notin Complete BY <1>4 DEF Complete
  <2>2. \A q \in Requests \ {r} : q \in Complete' <=> q \in Complete
    BY <1>1, <1>2 DEF Complete
  <2>3. Complete \subseteq Requests /\ Complete' \subseteq Requests BY DEF Complete
  <2>4. outbox = UNION {edit[q].emits : q \in Complete}
    BY DEF CommitInv, EventIffCommitted
  <2>5. CASE Outbox \in items
    <3>1. items = Ops(r) BY <2>5 DEF Transactional
    <3>2. r \in Complete' BY <1>1, <1>2, <1>4, <3>1 DEF Complete
    <3>3. Complete' = Complete \cup {r} BY <2>1, <2>2, <2>3, <3>2
    <3>4. outbox' = outbox \cup edit[r].emits
      BY <1>0, <1>2, <2>5 DEF RequestInv, UnsentEvents
    <3> QED BY <2>4, <3>3, <3>4 DEF EventIffCommitted
  <2>6. CASE Outbox \notin items
    <3>1. outbox' = outbox BY <1>2, <2>6
    <3>2. r \in Complete' => edit[r].emits = {}
      <4> SUFFICES ASSUME r \in Complete' PROVE edit[r].emits = {} OBVIOUS
      <4>1. Ops(r) = landed[r] \cup items BY <1>1, <1>2 DEF Complete
      <4>2. Outbox \notin Ops(r)
        <5>1. SUFFICES ASSUME Outbox \in Ops(r) PROVE FALSE OBVIOUS
        <5>2. Transactional(r) BY <5>1 DEF Transactional
        <5> QED BY <2>6, <5>1, <5>2
      <4> QED BY <1>0, <4>2 DEF RequestInv, OpsCoverEdit
    <3>3. Complete' = Complete \/ Complete' = Complete \cup {r}
      BY <2>1, <2>2, <2>3
    <3> QED BY <2>3, <2>4, <3>1, <3>2, <3>3 DEF EventIffCommitted
  <2> QED BY <2>5, <2>6
<1> QED
  BY <1>3, <1>5, <1>6, <1>7, <1>8, <1>9, <1>10, <1>11 DEF CommitInv, RequestInv

\* A call covers operations of the request only, and all of a transaction.
LEMMA CallFacts ==
  ASSUME NEW r \in Requests, NEW item \in Items, opState[r][item] # "none"
  PROVE  /\ CallOf(r, item) \subseteq Ops(r)
         /\ item \in CallOf(r, item)
         /\ Transactional(r) => CallOf(r, item) = Ops(r)
BY DEF CallOf, Ops

-----------------------------------------------------------------------------
(* The invariant *)

\* Before the first step no request has an operation and the outbox is empty.
LEMMA CommitInit == Init => CommitInv
<1> SUFFICES ASSUME Init PROVE CommitInv OBVIOUS
<1>1. \A r \in Requests : Ops(r) = {} /\ landed[r] = {} /\ status[r] = "none"
  BY DEF Init, Ops
<1>2. Complete = {} BY <1>1 DEF Complete
<1>3. EventIffCommitted BY <1>2 DEF EventIffCommitted, Init
<1>4. ASSUME NEW r \in Requests PROVE RequestInv(r)
  <2>1. ~Transactional(r) \/ Ops(r) = {} BY <1>1
  <2>2. \A state \in {"saved", "failed"} : InState(r, state) = {}
    BY DEF Init, InState
  <2> QED
    BY <1>1, <2>1, <2>2
       DEF RequestInv, NothingBeforeSave, LandedHasEnded, TransactionMovesAsOne,
           OpsCoverEdit, StatusIsTrue, UnsentEvents, Init
<1> QED BY <1>3, <1>4 DEF CommitInv

\* A step before the save, or one that only ends a request, keeps the invariant:
\* the request has no operations, or they do not change.
LEMMA BeforeSaveKeeps ==
  ASSUME TypeOK, CommitInv, NEW r \in Requests,
         pc[r] \in {"loading", "handling", "handled"},
         UNCHANGED <<opState, landed, outbox, unsent>>,
         \A q \in Requests \ {r} :
           pc'[q] = pc[q] /\ status'[q] = status[q] /\ edit'[q] = edit[q]
           /\ copying'[q] = copying[q],
         \/ pc'[r] \in {"loading", "handling", "handled"} /\ status'[r] = "none"
         \/ /\ pc'[r] = "done" /\ status'[r] # "saved"
            /\ status'[r] = "unchanged" => NothingToSave(r)'
  PROVE  CommitInv'
<1>0. RequestInv(r) BY DEF CommitInv
<1>1. Ops(r) = {} /\ landed[r] = {}
  BY <1>0 DEF RequestInv, NothingBeforeSave, LandedHasEnded, InState, Ops
<1>2. \A q \in Requests : Ops(q)' = Ops(q) BY DEF Ops
<1>3. EventIffCommitted' BY <1>1, <1>2, NothingLands
<1>4. \A q \in Requests \ {r} : RequestInv(q)' BY OtherRequests
<1>5. RequestInv(r)'
  <2>1. Ops(r)' = {} /\ landed'[r] = {} BY <1>1, <1>2
  <2>2. \A state \in {"saved", "failed"} : InState(r, state)' = {}
    BY <2>1 DEF InState, Ops
  <2> QED
    BY <2>1, <2>2
       DEF RequestInv, NothingBeforeSave, LandedHasEnded, TransactionMovesAsOne,
           OpsCoverEdit, StatusIsTrue, UnsentEvents
<1> QED BY <1>3, <1>4, <1>5 DEF CommitInv

\* Beginning a save plans an operation for everything that changed.
LEMMA BeginKeeps ==
  ASSUME TypeOK, CommitInv, NEW r \in Requests, BeginSave(r)
  PROVE  CommitInv'
<1>0. RequestInv(r) BY DEF CommitInv
<1>1. Ops(r) = {} /\ landed[r] = {} /\ status[r] = "none"
  BY <1>0 DEF RequestInv, NothingBeforeSave, LandedHasEnded, InState, Ops, BeginSave
<1>2. /\ pc'[r] = "saving" /\ unsent'[r] = edit[r].emits
      /\ \A q \in Requests \ {r} : /\ pc'[q] = pc[q] /\ unsent'[q] = unsent[q]
                                   /\ opState'[q] = opState[q]
      /\ UNCHANGED <<outbox, edit, copying, status, landed>>
  BY DEF BeginSave, Mark, rows, loadVars, editVars, TypeOK, LoadTyped, SaveTyped
<1>3. Planned(r) \subseteq Items
  BY ScopeOfField, StoreAssumption DEF Planned, Items, Changed, TypeOK, LoadTyped, Edit
<1>4. \A item \in Items : opState'[r][item] =
        IF item \in Planned(r) THEN "pending" ELSE "none"
  BY <1>1 DEF BeginSave, Mark, TypeOK, SaveTyped, Ops
<1>5. Ops(r)' = Planned(r) BY <1>3, <1>4 DEF Ops
<1>6. \A q \in Requests \ {r} : RequestInv(q)' BY <1>2, OtherRequests
<1>7. EventIffCommitted'
  <2>1. \A q \in Requests : landed[q] # {} => Ops(q)' = Ops(q) /\ edit'[q] = edit[q]
    BY <1>1, <1>2 DEF Ops
  <2> QED BY <1>2, <2>1, NothingLands
<1>8. Changed(r)' = Changed(r) BY <1>2 DEF Changed
<1>9. OpsCoverEdit(r)'
  <2>1. Outbox \in Planned(r) <=> edit[r].emits # {}
    BY OutboxIsNoScope, ScopeOfField DEF Planned, Changed, TypeOK, LoadTyped, Edit
  <2>2. {ScopeFor(field) : field \in Changed(r)} \subseteq Planned(r) BY DEF Planned
  <2> QED BY <1>2, <1>5, <1>8, <2>1, <2>2 DEF OpsCoverEdit
<1>10. NothingBeforeSave(r)' BY <1>2 DEF NothingBeforeSave
<1>11. LandedHasEnded(r)' BY <1>1, <1>2, <1>4 DEF LandedHasEnded, InState
<1>12. TransactionMovesAsOne(r)'
  BY <1>1, <1>2, <1>3, <1>4, <1>5 DEF TransactionMovesAsOne
<1>13. StatusIsTrue(r)' BY <1>1, <1>2 DEF StatusIsTrue
<1>14. UnsentEvents(r)' BY <1>1, <1>2 DEF UnsentEvents
<1> QED
  BY <1>6, <1>7, <1>9, <1>10, <1>11, <1>12, <1>13, <1>14 DEF CommitInv, RequestInv

\* Ending a save reports what happened to its operations.
LEMMA FinishKeeps ==
  ASSUME TypeOK, CommitInv, NEW r \in Requests, FinishSave(r)
  PROVE  CommitInv'
<1>0. RequestInv(r) BY DEF CommitInv
<1>1. /\ UNCHANGED <<outbox, edit, copying, opState, unsent, landed>>
      /\ pc'[r] = "done" /\ pc[r] = "saving"
      /\ \A q \in Requests \ {r} : pc'[q] = pc[q] /\ status'[q] = status[q]
      /\ \/ InState(r, "saved") = Ops(r) /\ status'[r] = "saved"
         \/ status'[r] = "failed"
  BY DEF FinishSave, Done, rows, loadVars, editVars, saveVars, TypeOK, LoadTyped, SaveTyped
<1>2. /\ \A q \in Requests : Ops(q)' = Ops(q) /\ Changed(q)' = Changed(q)
      /\ \A state : InState(r, state)' = InState(r, state)
  BY <1>1 DEF Ops, Changed, InState
<1>3. Transactional(r)' <=> Transactional(r)
  BY <1>1, <1>2 DEF Transactional, Essential
<1>4. \A q \in Requests \ {r} : RequestInv(q)' BY <1>1, OtherRequests
<1>5. EventIffCommitted' BY <1>1, <1>2, NothingLands
<1>6. NothingBeforeSave(r)' BY <1>1 DEF NothingBeforeSave
<1>7. LandedHasEnded(r)' BY <1>0, <1>1, <1>2 DEF RequestInv, LandedHasEnded
<1>8. TransactionMovesAsOne(r)'
  BY <1>0, <1>1, <1>2, <1>3 DEF RequestInv, TransactionMovesAsOne
<1>9. OpsCoverEdit(r)' BY <1>0, <1>1, <1>2 DEF RequestInv, OpsCoverEdit
<1>10. StatusIsTrue(r)' BY <1>1, <1>2 DEF StatusIsTrue, InState
<1>11. UnsentEvents(r)' BY <1>0, <1>1, <1>2 DEF RequestInv, UnsentEvents
<1> QED
  BY <1>4, <1>5, <1>6, <1>7, <1>8, <1>9, <1>10, <1>11 DEF CommitInv, RequestInv

\* A timed-out save leaves its calls to their threads.
LEMMA TimeoutKeeps ==
  ASSUME TypeOK, CommitInv, NEW r \in Requests, SaveTimeout(r)
  PROVE  CommitInv'
<1>0. RequestInv(r) BY DEF CommitInv
<1>1. /\ UNCHANGED <<outbox, edit, copying, unsent, landed>>
      /\ pc'[r] = "done" /\ pc[r] = "saving" /\ status'[r] = "deadline_exceeded"
      /\ \A q \in Requests \ {r} : /\ pc'[q] = pc[q] /\ status'[q] = status[q]
                                   /\ opState'[q] = opState[q]
  BY DEF SaveTimeout, Done, rows, loadVars, editVars, TypeOK, LoadTyped, SaveTyped
<1>2. \A item \in Items : opState'[r][item] =
        CASE opState[r][item] = "pending" /\ Ready(r, item)  -> "late"
          [] opState[r][item] = "pending" /\ ~Ready(r, item) -> "failed"
          [] opState[r][item] = "reload" -> "failed"
          [] OTHER -> opState[r][item]
  BY DEF SaveTimeout, TypeOK, SaveTyped
<1>3. /\ \A q \in Requests : Ops(q)' = Ops(q) /\ Changed(q)' = Changed(q)
      /\ InState(r, "saved")' = InState(r, "saved")
      /\ InState(r, "failed") \subseteq InState(r, "failed")'
  BY <1>1, <1>2 DEF Ops, Changed, InState
<1>4. Transactional(r)' <=> Transactional(r)
  BY <1>1, <1>3 DEF Transactional, Essential
<1>5. \A q \in Requests \ {r} : RequestInv(q)' BY <1>1, OtherRequests
<1>6. EventIffCommitted' BY <1>1, <1>3, NothingLands
<1>7. NothingBeforeSave(r)' BY <1>1 DEF NothingBeforeSave
<1>8. LandedHasEnded(r)' BY <1>0, <1>1, <1>3 DEF RequestInv, LandedHasEnded
<1>9. TransactionMovesAsOne(r)'
  <2> SUFFICES ASSUME Transactional(r) PROVE TransactionMovesAsOne(r)'
    BY <1>4 DEF TransactionMovesAsOne
  <2>1. landed'[r] \in {{}, Ops(r)'}
    BY <1>0, <1>1, <1>3 DEF RequestInv, TransactionMovesAsOne
  <2>2. \A item \in Items : Ready(r, item) <=>
          opState[r][item] = "pending" /\ Ops(r) \subseteq InState(r, "pending")
    BY DEF Ready, CallOf
  <2>3. CASE \E state \in {"saved", "failed", "late"} :
               \A item \in Ops(r) : opState[r][item] = state
    BY <1>2, <1>3, <2>1, <2>3 DEF TransactionMovesAsOne, Ops
  <2>4. CASE \A item \in Ops(r) : opState[r][item] \in {"pending", "reload"}
    <3>1. CASE Ops(r) \subseteq InState(r, "pending")
      <4>1. \A item \in Ops(r) : opState'[r][item] = "late"
        BY <1>2, <2>2, <3>1 DEF Ops, InState
      <4> QED BY <1>3, <2>1, <4>1 DEF TransactionMovesAsOne
    <3>2. CASE ~(Ops(r) \subseteq InState(r, "pending"))
      <4>1. \A item \in Ops(r) : opState'[r][item] = "failed"
        BY <1>2, <2>2, <2>4, <3>2 DEF Ops
      <4> QED BY <1>3, <2>1, <4>1 DEF TransactionMovesAsOne
    <3> QED BY <3>1, <3>2
  <2> QED BY <1>0, <2>3, <2>4 DEF RequestInv, TransactionMovesAsOne
<1>10. OpsCoverEdit(r)' BY <1>0, <1>1, <1>3 DEF RequestInv, OpsCoverEdit
<1>11. StatusIsTrue(r)' BY <1>1 DEF StatusIsTrue
<1>12. UnsentEvents(r)' BY <1>0, <1>1, <1>3 DEF RequestInv, UnsentEvents
<1> QED
  BY <1>5, <1>6, <1>7, <1>8, <1>9, <1>10, <1>11, <1>12 DEF CommitInv, RequestInv

\* A step that changes rows and reads only keeps the invariant.
LEMMA RowStepKeeps ==
  ASSUME TypeOK, CommitInv,
         UNCHANGED <<pc, opState, status, landed, edit, copying, unsent, outbox>>
  PROVE  CommitInv'
<1>1. \A q \in Requests : RequestInv(q)' BY OtherRequests
<1>2. \A q \in Requests : Ops(q)' = Ops(q) BY DEF Ops
<1>3. EventIffCommitted' BY <1>2, NothingLands
<1> QED BY <1>1, <1>3 DEF CommitInv

\* Receiving a row keeps the invariant: a reloaded operation is pending again.
LEMMA ReceiveKeeps ==
  ASSUME TypeOK, CommitInv, NEW r \in Requests, NEW scope \in Scopes, NEW row,
         Loading(r, scope) \/ Reloading(r, scope), Receive(r, scope, row),
         UNCHANGED <<pc, status, landed, edit, copying, unsent, outbox>>
  PROVE  CommitInv'
<1>1. CASE Loading(r, scope)
  BY <1>1, RowStepKeeps DEF Receive
<1>2. CASE ~Loading(r, scope)
  <2>1. Mark(r, {scope}, "pending") BY <1>2 DEF Receive
  <2>2. opState[r][scope] = "reload" BY <1>2 DEF Reloading
  <2>3. {scope} \subseteq Ops(r) BY <2>2 DEF Ops, Items
  <2> QED BY <2>1, <2>2, <2>3, MovingKeeps
<1> QED BY <1>1, <1>2

\* Every step of the requests, the calls, the clock and the table keeps the
\* invariant: the inductive step, one case per action.
LEMMA CommitNext == TypeOK /\ CommitInv /\ [Next]_vars => CommitInv'
<1> SUFFICES ASSUME TypeOK, CommitInv, [Next]_vars PROVE CommitInv' OBVIOUS
<1>1. CASE UNCHANGED vars
  BY <1>1, RowStepKeeps DEF vars, rows, loadVars, readVars, editVars, saveVars
<1>2. ASSUME NEW r \in Requests, NEW scope \in Scopes,
             ReadScope(r, scope) \/ DeleteExpired(r, scope)
      PROVE  CommitInv'
  <2>1. UNCHANGED <<pc, status, landed, edit, copying, unsent, outbox>>
    BY <1>2 DEF ReadScope, DeleteExpired, rows, loadVars, editVars
  <2>2. \/ UNCHANGED opState
        \/ /\ Loading(r, scope) \/ Reloading(r, scope)
           /\ \E row : Receive(r, scope, row)
    BY <1>2 DEF ReadScope, DeleteExpired
  <2> QED BY <2>1, <2>2, RowStepKeeps, ReceiveKeeps
<1>3. ASSUME NEW r \in Requests, Hydrate(r) \/ HydrateUnavailable(r)
      PROVE  CommitInv'
  <2>1. status[r] = "none"
    BY <1>3 DEF Hydrate, HydrateUnavailable, CommitInv, RequestInv, NothingBeforeSave
  <2> QED
    BY <1>3, <2>1, BeforeSaveKeeps
       DEF Hydrate, HydrateUnavailable, rows, loadVars, editVars, saveVars, TypeOK, LoadTyped
<1>4. ASSUME NEW r \in Requests, NEW change \in Edits, NEW at \in Times,
             Handle(r, change, at)
      PROVE  CommitInv'
  <2>1. status[r] = "none"
    BY <1>4 DEF Handle, CommitInv, RequestInv, NothingBeforeSave
  <2> QED
    BY <1>4, <2>1, BeforeSaveKeeps
       DEF Handle, rows, loadVars, saveVars, TypeOK, LoadTyped
<1>5. ASSUME NEW r \in Requests, SkipSave(r) PROVE CommitInv'
  <2>1. NothingToSave(r)' <=> NothingToSave(r)
    BY <1>5 DEF SkipSave, NothingToSave, Changed, editVars, loadVars
  <2> QED
    BY <1>5, <2>1, BeforeSaveKeeps
       DEF SkipSave, Done, rows, loadVars, editVars, saveVars, TypeOK, LoadTyped, SaveTyped
<1>6. ASSUME NEW r \in Requests, BeginSave(r) PROVE CommitInv'
  BY <1>6, BeginKeeps
<1>7. ASSUME NEW r \in Requests, NEW item \in Items, Save(r, item) PROVE CommitInv'
  <2>1. opState[r][item] = "pending" /\ CallOf(r, item) \subseteq InState(r, "pending")
    BY <1>7 DEF Save, Ready
  <2>2. \A i \in CallOf(r, item) : opState[r][i] = "pending" BY <2>1 DEF InState
  <2> QED
    BY <1>7, <2>1, <2>2, CallFacts, LandingKeeps DEF Save, loadVars, editVars
<1>8. ASSUME NEW r \in Requests, NEW item \in Items, LateWrite(r, item)
      PROVE  CommitInv'
  <2>1. opState[r][item] = "late" BY <1>8 DEF LateWrite
  <2>2. \A i \in CallOf(r, item) : opState[r][i] = "late"
    <3>1. CASE Transactional(r)
      <4>1. item \in Ops(r) BY <2>1 DEF Ops
      <4>2. TransactionMovesAsOne(r) BY DEF CommitInv, RequestInv
      <4> QED BY <2>1, <3>1, <4>1, <4>2 DEF TransactionMovesAsOne, CallOf
    <3>2. CASE ~Transactional(r) BY <2>1, <3>2 DEF CallOf
    <3> QED BY <3>1, <3>2
  <2> QED
    BY <1>8, <2>1, <2>2, CallFacts, LandingKeeps DEF LateWrite, loadVars, editVars
<1>9. ASSUME NEW r \in Requests, NEW item \in Items,
             Reject(r, item) \/ Exhaust(r, item)
      PROVE  CommitInv'
  <2>1. opState[r][item] = "pending" /\ CallOf(r, item) \subseteq InState(r, "pending")
    BY <1>9 DEF Reject, Exhaust, Ready
  <2>2. \A i \in CallOf(r, item) : opState[r][i] = "pending" BY <2>1 DEF InState
  <2>3. UNCHANGED <<pc, status, landed, edit, copying, outbox, unsent>>
    BY <1>9 DEF Reject, Exhaust, rows, loadVars, editVars
  <2>4. \E state \in {"reload", "failed"} : Mark(r, CallOf(r, item), state)
    BY <1>9 DEF Reject, Exhaust
  <2> QED BY <2>1, <2>2, <2>3, <2>4, CallFacts, MovingKeeps
<1>10. ASSUME NEW r \in Requests, NEW item \in Items, CallError(r, item)
       PROVE  CommitInv'
  <2>1. opState[r][item] \in {"pending", "reload"} BY <1>10 DEF CallError, Ready
  <2>2. \A i \in CallOf(r, item) : opState[r][i] \in {"pending", "reload"}
    <3>1. CASE Transactional(r)
      <4>1. item \in Ops(r) BY <2>1 DEF Ops
      <4>2. TransactionMovesAsOne(r) BY DEF CommitInv, RequestInv
      <4> QED BY <2>1, <3>1, <4>1, <4>2 DEF TransactionMovesAsOne, CallOf
    <3>2. CASE ~Transactional(r) BY <2>1, <3>2 DEF CallOf
    <3> QED BY <3>1, <3>2
  <2>3. UNCHANGED <<pc, status, landed, edit, copying, outbox, unsent>>
    BY <1>10 DEF CallError, rows, loadVars, editVars
  <2>4. \E state \in {"late", "failed"} : Mark(r, CallOf(r, item), state)
    BY <1>10 DEF CallError
  <2> QED BY <2>1, <2>2, <2>3, <2>4, CallFacts, MovingKeeps
<1>11. ASSUME NEW r \in Requests, ReloadOutbox(r) PROVE CommitInv'
  <2>1. Mark(r, {Outbox}, "pending") BY <1>11 DEF ReloadOutbox
  <2>2. Outbox \in Items /\ opState[r][Outbox] = "reload"
    BY <1>11 DEF ReloadOutbox, InState
  <2>3. {Outbox} \subseteq Ops(r) BY <2>2 DEF Ops
  <2>4. /\ UNCHANGED <<pc, status, landed, edit, copying, outbox>>
        /\ \A q \in Requests \ {r} : unsent'[q] = unsent[q]
        /\ unsent'[r] = unsent[r] \ outbox
    BY <1>11 DEF ReloadOutbox, rows, loadVars, editVars, TypeOK, SaveTyped
  <2> QED BY <2>1, <2>2, <2>3, <2>4, MovingKeeps
<1>12. ASSUME NEW r \in Requests, FinishSave(r) PROVE CommitInv'
  BY <1>12, FinishKeeps
<1>13. ASSUME NEW r \in Requests, SaveTimeout(r) PROVE CommitInv'
  BY <1>13, TimeoutKeeps
<1>14. ASSUME NEW scope \in Scopes, Expire(scope) \/ TimeToLiveDelete(scope)
       PROVE  CommitInv'
  BY <1>14, RowStepKeeps
     DEF Expire, TimeToLiveDelete, loadVars, readVars, editVars, saveVars
<1> QED
  BY <1>1, <1>2, <1>3, <1>4, <1>5, <1>6, <1>7, <1>8, <1>9, <1>10, <1>11, <1>12,
     <1>13, <1>14 DEF Next, Proceed, Disturb

\* The invariant holds in every reachable state.
LEMMA CommitInvariant == Spec => [](TypeOK /\ CommitInv)
<1>1. Init => TypeOK /\ CommitInv BY TypeInit, CommitInit
<1>2. (TypeOK /\ CommitInv) /\ [Next]_vars => (TypeOK /\ CommitInv)'
  BY TypeNext, CommitNext
<1> QED BY <1>1, <1>2, PTL DEF Spec

\* Essential commits take effect as a whole or not at all, for any number of
\* requests, retries and failures.
THEOREM CommitsAreAtomic == Spec => []AllOrNothing
BY CommitInvariant, AllOrNothingHolds, PTL

\* The prepared response is sent for stored state only.
THEOREM ResponsesAreTrue == Spec => []PreparedImpliesCommitted
BY CommitInvariant, PreparedHolds, PTL

\* The outbox holds exactly the events of the requests that were stored.
THEOREM EventsAreCommitted == Spec => []EventIffCommitted
<1>1. TypeOK /\ CommitInv => EventIffCommitted BY DEF CommitInv
<1> QED BY <1>1, CommitInvariant, PTL

=============================================================================
