--------------------------- MODULE ListenerRowProofs ---------------------------
(***************************************************************************)
(* What the rows hold after concurrent saves: no stale value returns, the  *)
(* play count is exact, the play history keeps every play, an AudioPlayer  *)
(* event never takes the playback back, and the store implements           *)
(* ListenerCommits.                                                        *)
(*                                                                         *)
(* The proofs share one argument.  Every step is summarised for one row    *)
(* (it stays, it is written by one request, or it is lost to expiry) and   *)
(* for what one request holds of one scope (kept, read, or built by one of *)
(* the request's own steps).  A write needs the current version, and a     *)
(* request that holds the current version holds the current values or what *)
(* it merged into them; every other request is left behind by the write.   *)
(***************************************************************************)
EXTENDS ListenerStoreProofs

-----------------------------------------------------------------------------
(* What a step does to one row *)

RowStays(scope) == store'[scope] = store[scope] /\ past'[scope] = past[scope]

\* One call of the request writes the row, on condition of the version it
\* holds; nothing any request holds changes.
RowWritten(r, scope) ==
  /\ Writing(r, scope) /\ opState'[r][scope] \in {"saved", "failed"}
  /\ \A q \in Requests \ {r} : opState'[q] = opState[q]
  /\ scope \notin landed[r] /\ scope \in landed'[r]
  /\ ~Skipped(r, scope)
  /\ store[scope].version = versions[r][scope]
  /\ store'[scope] = RowAfter(r, scope)
  /\ past'[scope] \in {past[scope], past[scope] \cup {store[scope]}}
  /\ UNCHANGED <<pc, loadVars, readVars, editVars, document>>

\* The row passes expiresAt, or an expired one is deleted.
RowLost(scope) ==
  /\ scope \in ExpiringScopes
  /\ \/ store'[scope] = Absent
     \/ store[scope].version > 0 /\ store'[scope] = [store[scope] EXCEPT !.expired = TRUE]
  /\ \A row \in past'[scope] :
       row.version = 0 => row \in past[scope] \cup {store[scope]}

\* What the rows of one call become.
LEMMA LandRows ==
  ASSUME TypeOK, NEW r \in Requests, NEW items \in SUBSET Items, Land(r, items),
         NEW scope \in Scopes
  PROVE  IF scope \in items /\ ~Skipped(r, scope)
           THEN /\ store[scope].version = versions[r][scope]
                /\ store'[scope] = RowAfter(r, scope)
                /\ past'[scope] \in {past[scope], past[scope] \cup {store[scope]}}
           ELSE RowStays(scope)
<1> DEFINE written == {s \in items \ {Outbox} : ~Skipped(r, s)}
           new == [s \in written |-> RowAfter(r, s)]
<1>1. SetRows(new) /\ \A item \in items : Fits(r, item) BY DEF Land
<1>2. DOMAIN new = written /\ \A s \in written : new[s] = RowAfter(r, s) OBVIOUS
<1>3. scope \in written <=> scope \in items /\ ~Skipped(r, scope) BY OutboxIsNoScope
<1> HIDE DEF new, written
<1>4. CASE scope \in written
  <2>1. store'[scope] = RowAfter(r, scope) BY <1>1, <1>2, <1>4 DEF SetRows
  <2>2. past'[scope] \in {past[scope], past[scope] \cup {store[scope]}}
    BY <1>1 DEF SetRows
  <2>3. store[scope].version = versions[r][scope]
    BY <1>1, <1>3, <1>4, OutboxIsNoScope DEF Fits
  <2> QED BY <1>3, <1>4, <2>1, <2>2, <2>3
<1>5. CASE scope \notin written
  BY <1>1, <1>2, <1>3, <1>5 DEF SetRows, RowStays
<1> QED BY <1>4, <1>5

\* A successful call writes the rows of its operations that are not skipped and
\* leaves the others.
LEMMA CallRows ==
  ASSUME TypeOK, CommitInv, NEW r \in Requests, NEW item \in Items,
         Save(r, item) \/ LateWrite(r, item), NEW scope \in Scopes
  PROVE  /\ scope \in CallOf(r, item) => Writing(r, scope)
         /\ IF scope \in CallOf(r, item) /\ ~Skipped(r, scope)
              THEN RowWritten(r, scope) ELSE RowStays(scope)
<1>1. Land(r, CallOf(r, item)) /\ CallOf(r, item) \in SUBSET Items
  BY CallOfTyped DEF Save, LateWrite
<1>2. CASE ~(scope \in CallOf(r, item) /\ ~Skipped(r, scope)) /\ scope \notin CallOf(r, item)
  BY <1>1, <1>2, LandRows
<1>3. CASE scope \in CallOf(r, item)
  <2>1. \E state \in {"saved", "failed"} : Mark(r, CallOf(r, item), state)
    BY DEF Save, LateWrite
  <2>2. /\ opState'[r][scope] \in {"saved", "failed"}
        /\ \A q \in Requests \ {r} : opState'[q] = opState[q]
    BY <1>3, <2>1 DEF Mark, TypeOK, SaveTyped, Items
  <2>3. Writing(r, scope)
    <3>1. CASE Save(r, item)
      BY <1>3, <3>1 DEF Save, Ready, InState, Writing
    <3>2. CASE LateWrite(r, item)
      <4>1. opState[r][item] = "late" BY <3>2 DEF LateWrite
      <4>2. CASE Transactional(r)
        <5>1. item \in Ops(r) BY <4>1 DEF Ops
        <5>2. TransactionMovesAsOne(r) BY DEF CommitInv, RequestInv
        <5> QED BY <1>3, <4>1, <4>2, <5>1, <5>2
                DEF TransactionMovesAsOne, CallOf, Writing
      <4>3. CASE ~Transactional(r) BY <1>3, <4>1, <4>3 DEF CallOf, Writing
      <4> QED BY <4>2, <4>3
    <3> QED BY <3>1, <3>2
  <2>4. scope \notin landed[r]
    BY <2>3 DEF Writing, CommitInv, RequestInv, LandedHasEnded, InState
  <2>5. scope \in landed'[r]
    BY <1>1, <1>3 DEF Land, TypeOK, SaveTyped
  <2>6. UNCHANGED <<pc, loadVars, readVars, editVars, document>>
    BY DEF Save, LateWrite
  <2> QED BY <1>1, <1>3, <2>2, <2>3, <2>4, <2>5, <2>6, LandRows DEF RowWritten
<1> QED BY <1>2, <1>3

\* Deleting one row loses it and leaves the others.
LEMMA DeletedRow ==
  ASSUME TypeOK, NEW lost \in Scopes, SetRows([s \in {lost} |-> Absent]),
         NEW scope \in Scopes
  PROVE  \/ RowStays(scope)
         \/ /\ scope = lost /\ store'[scope] = Absent
            /\ past'[scope] \in {past[scope], past[scope] \cup {store[scope]}}
BY DEF SetRows, RowStays

\* Every step leaves a row, writes it with one call, or loses it to expiry.
LEMMA RowStep ==
  ASSUME TypeOK, CommitInv, RowInv, [Next]_vars, NEW scope \in Scopes
  PROVE  \/ RowStays(scope)
         \/ \E r \in Requests : RowWritten(r, scope)
         \/ RowLost(scope)
<1> DEFINE Goal == \/ RowStays(scope)
                   \/ \E r \in Requests : RowWritten(r, scope)
                   \/ RowLost(scope)
<1> HIDE DEF Goal
<1>1. CASE UNCHANGED vars BY <1>1 DEF vars, rows, RowStays, Goal
<1>2. ASSUME NEW r \in Requests, NEW s \in Scopes, ReadScope(r, s) PROVE Goal
  BY <1>2 DEF ReadScope, rows, RowStays, Goal
<1>3. ASSUME NEW r \in Requests, NEW s \in Scopes, DeleteExpired(r, s) PROVE Goal
  <2>1. SetRows([q \in {s} |-> Absent]) \/ UNCHANGED <<store, past>>
    BY <1>3 DEF DeleteExpired
  <2>2. gate[r][s] > 0 BY <1>3 DEF DeleteExpired
  <2>3. s \in ExpiringScopes
    BY <2>2 DEF RowInv, RowsOrdered, LastingScopes, TypeOK, LoadTyped
  <2>4. CASE UNCHANGED <<store, past>> BY <2>4 DEF RowStays, Goal
  <2>5. CASE SetRows([q \in {s} |-> Absent])
    BY <2>3, <2>5, DeletedRow DEF RowLost, Goal
  <2> QED BY <2>1, <2>4, <2>5
<1>4. ASSUME NEW r \in Requests, NEW item \in Items,
             Save(r, item) \/ LateWrite(r, item)
      PROVE  Goal
  BY <1>4, CallRows DEF Goal
<1>5. ASSUME NEW s \in Scopes, Expire(s) PROVE Goal
  <2>1. CASE s # scope BY <1>5, <2>1 DEF Expire, RowStays, Goal, TypeOK, RowsTyped
  <2>2. CASE s = scope
    <3>1. scope \in ExpiringScopes /\ store[scope].version > 0
      BY <1>5, <2>2 DEF Expire
    <3>2. store'[scope] = [store[scope] EXCEPT !.expired = TRUE]
      BY <1>5, <2>2 DEF Expire, TypeOK, RowsTyped
    <3>3. ASSUME NEW row \in past'[scope], row.version = 0
          PROVE  row \in past[scope] \cup {store[scope]}
      <4>1. PICK old \in past[scope] :
              row = IF old.version > 0 THEN [old EXCEPT !.expired = TRUE] ELSE old
        BY <1>5, <2>2 DEF Expire, TypeOK, RowsTyped
      <4>2. IsRow(old) BY DEF TypeOK, RowsTyped
      <4>3. [old EXCEPT !.expired = TRUE].version = old.version BY <4>2 DEF IsRow
      <4>4. old.version \in Nat BY <4>2 DEF IsRow
      <4> QED BY <3>3, <4>1, <4>3, <4>4
    <3> QED BY <3>1, <3>2, <3>3 DEF RowLost, Goal
  <2> QED BY <2>1, <2>2
<1>6. ASSUME NEW s \in Scopes, TimeToLiveDelete(s) PROVE Goal
  <2>1. store[s].expired BY <1>6 DEF TimeToLiveDelete
  <2>2. s \in ExpiringScopes BY <2>1 DEF RowInv, RowsOrdered, LastingScopes
  <2>3. SetRows([q \in {s} |-> Absent]) BY <1>6 DEF TimeToLiveDelete
  <2> QED BY <2>2, <2>3, DeletedRow DEF RowLost, Goal
<1>7. ASSUME NEW r \in Requests,
             \/ Hydrate(r) \/ HydrateUnavailable(r) \/ SkipSave(r) \/ BeginSave(r)
             \/ ReloadOutbox(r) \/ FinishSave(r) \/ SaveTimeout(r)
             \/ \E change \in Edits, at \in Times : Handle(r, change, at)
             \/ \E item \in Items :
                  Reject(r, item) \/ Exhaust(r, item) \/ CallError(r, item)
      PROVE  Goal
  <2>1. UNCHANGED rows
    BY <1>7 DEF Hydrate, HydrateUnavailable, SkipSave, BeginSave, ReloadOutbox,
                FinishSave, SaveTimeout, Handle, Reject, Exhaust, CallError
  <2> QED BY <2>1 DEF rows, RowStays, Goal
<1> QED
  BY <1>1, <1>2, <1>3, <1>4, <1>5, <1>6, <1>7 DEF Next, Proceed, Disturb, Goal

-----------------------------------------------------------------------------
(* What a step does to what one request holds of one scope *)

EditKept(r) ==
  edit'[r] = edit[r] /\ eventAt'[r] = eventAt[r] /\ copying'[r] = copying[r]

\* The step leaves what the request holds of the scope.
Kept(r, scope) ==
  /\ EditKept(r)
  /\ available'[r] = available[r]
  /\ seen[r] \subseteq seen'[r]
  /\ pc[r] = "loading" => (scope \in seen'[r] => scope \in seen[r])
  /\ versions'[r][scope] = versions[r][scope]
  /\ \A field \in FieldsOf(scope) :
       /\ baseline'[r][field] = baseline[r][field]
       /\ document'[r][field] = document[r][field]
  /\ opState'[r][scope] = "none" <=> opState[r][scope] = "none"
  /\ Writing(r, scope)' => Writing(r, scope)
  /\ pc'[r] = pc[r] \/ {pc[r], pc'[r]} \subseteq {"handled", "saving", "done"}

\* The request has loaded the row, or merged its changes into it.
Loaded(r, scope, row) ==
  /\ pc[r] = "loading" /\ pc'[r] = "loading"
  /\ EditKept(r) /\ available'[r] = available[r]
  /\ versions'[r][scope] = row.version
  /\ \A field \in FieldsOf(scope) : baseline'[r][field] = row.doc[field]
  /\ opState'[r] = opState[r]

Merged(r, scope, row) ==
  /\ opState[r][scope] = "reload" /\ opState'[r][scope] = "pending"
  /\ pc'[r] = pc[r]
  /\ EditKept(r) /\ available'[r] = available[r]
  /\ versions'[r][scope] = row.version
  /\ baseline'[r] = baseline[r]
  /\ \A field \in FieldsOf(scope) :
       document'[r][field] =
         Resolve(row.doc, Requested(r), baseline[r], Changed(r))[field]

\* The rows a read of the scope may yield: live ones, and of a lasting scope
\* the current or an older one.
Readable(scope, row) ==
  /\ row \in Visible(scope) \cup {Absent}
  /\ scope \in LastingScopes => row \in Visible(scope)
  /\ ~row.expired

\* Receiving a row changes what is held of that scope only.
LEMMA ReceivedScope ==
  ASSUME TypeOK, CommitInv, NEW r \in Requests, NEW scope \in Scopes, NEW row,
         Loading(r, scope) \/ Reloading(r, scope), Receive(r, scope, row),
         UNCHANGED <<pc, loadVars, editVars>>
  PROVE  /\ Loaded(r, scope, row) \/ Merged(r, scope, row)
         /\ \A q \in Requests : \A s \in Scopes :
              q # r \/ s # scope => Kept(q, s)
<1>1. UNCHANGED <<pc, available, copying, edit, eventAt>> BY DEF loadVars, editVars
<1>2. \A q \in Requests : EditKept(q) BY <1>1 DEF EditKept
<1>3. \A q \in Requests, s \in Scopes : versions'[q][s] =
        IF q = r /\ s = scope THEN row.version ELSE versions[q][s]
  BY DEF Receive, TypeOK, LoadTyped
<1>4. CASE Loading(r, scope)
  <2>1. /\ seen' = [seen EXCEPT ![r] = @ \cup {scope}]
        /\ baseline' = [baseline EXCEPT ![r] =
             [field \in Fields |-> IF ScopeFor(field) = scope
                                     THEN row.doc[field] ELSE @[field]]]
        /\ UNCHANGED <<document, opState>>
    BY <1>4 DEF Receive
  <2>2. \A q \in Requests : seen'[q] = IF q = r THEN seen[q] \cup {scope} ELSE seen[q]
    BY <2>1 DEF TypeOK, LoadTyped
  <2>3. \A q \in Requests : \A field \in Fields : baseline'[q][field] =
          IF q = r /\ ScopeFor(field) = scope THEN row.doc[field]
                                               ELSE baseline[q][field]
    BY <2>1 DEF TypeOK, LoadTyped
  <2>4. Loaded(r, scope, row)
    BY <1>1, <1>2, <1>3, <1>4, <2>1, <2>3 DEF Loaded, Loading, FieldsOf
  <2>5. ASSUME NEW q \in Requests, NEW s \in Scopes, q # r \/ s # scope
        PROVE  Kept(q, s)
    BY <1>1, <1>2, <1>3, <2>1, <2>2, <2>3, <2>5 DEF Kept, FieldsOf, Writing
  <2> QED BY <2>4, <2>5
<1>5. CASE ~Loading(r, scope)
  <2>1. /\ document' = [document EXCEPT ![r] =
             [field \in Fields |->
                IF ScopeFor(field) = scope
                  THEN Resolve(row.doc, Requested(r), baseline[r],
                               Changed(r))[field]
                  ELSE @[field]]]
        /\ Mark(r, {scope}, "pending")
        /\ UNCHANGED <<seen, baseline>>
    BY <1>5 DEF Receive
  <2>2. \A q \in Requests, s \in Scopes : opState'[q][s] =
          IF q = r /\ s = scope THEN "pending" ELSE opState[q][s]
    BY <2>1 DEF Mark, TypeOK, SaveTyped, Items
  <2>3. \A q \in Requests : \A field \in Fields : document'[q][field] =
          IF q = r /\ ScopeFor(field) = scope
            THEN Resolve(row.doc, Requested(r), baseline[r], Changed(r))[field]
            ELSE document[q][field]
    <3> DEFINE merged == Resolve(row.doc, Requested(r), baseline[r], Changed(r))
    <3>1. document' = [document EXCEPT ![r] =
             [field \in Fields |->
                IF ScopeFor(field) = scope THEN merged[field] ELSE @[field]]]
      BY <2>1
    <3> HIDE DEF merged
    <3>2. \A q \in Requests : \A field \in Fields : document'[q][field] =
            IF q = r /\ ScopeFor(field) = scope THEN merged[field]
                                                ELSE document[q][field]
      BY <3>1 DEF TypeOK, SaveTyped
    <3> QED BY <3>2 DEF merged
  <2>4. opState[r][scope] = "reload" BY <1>5 DEF Reloading
  <2>5. Merged(r, scope, row)
    BY <1>1, <1>2, <1>3, <2>1, <2>2, <2>3, <2>4 DEF Merged, FieldsOf
  <2>6. ASSUME NEW q \in Requests, NEW s \in Scopes, q # r \/ s # scope
        PROVE  Kept(q, s)
    BY <1>1, <1>2, <1>3, <2>1, <2>2, <2>3, <2>6 DEF Kept, FieldsOf, Writing
  <2> QED BY <2>5, <2>6
<1> QED BY <1>4, <1>5

\* A step that changes neither what is loaded nor what is to be saved, and
\* moves a scope's operation only out of the retry loop, keeps what is held.
LEMMA NothingHeldChanges ==
  ASSUME UNCHANGED <<loadVars, seen, versions, baseline, document, editVars>>,
         NEW r \in Requests, NEW scope \in Scopes,
         opState'[r][scope] = "none" <=> opState[r][scope] = "none",
         Writing(r, scope)' => Writing(r, scope),
         pc'[r] = pc[r] \/ {pc[r], pc'[r]} \subseteq {"handled", "saving", "done"}
  PROVE  Kept(r, scope)
BY DEF Kept, EditKept, loadVars, editVars

\* Marking operations of a call out of pending keeps what every request holds.
LEMMA MarkedKept ==
  ASSUME TypeOK, NEW r \in Requests, NEW items, items \subseteq Ops(r),
         NEW state \in {"reload", "saved", "failed", "late"},
         Mark(r, items, state),
         state = "late" => \A item \in items : opState[r][item] = "pending",
         UNCHANGED <<pc, loadVars, seen, versions, baseline, document, editVars>>,
         NEW q \in Requests, NEW scope \in Scopes
  PROVE  Kept(q, scope)
<1>1. opState'[q][scope] = IF q = r /\ scope \in items THEN state ELSE opState[q][scope]
  BY DEF Mark, TypeOK, SaveTyped, Items
<1> QED BY <1>1, NothingHeldChanges DEF Writing, Ops

\* Every step keeps what a request holds of a scope, or is a read of it, or is
\* one of the request's steps between loading and saving.
LEMMA HeldStep ==
  ASSUME TypeOK, CommitInv, RowInv, [Next]_vars,
         NEW r \in Requests, NEW scope \in Scopes
  PROVE  \/ Kept(r, scope)
         \/ \E row : /\ Readable(scope, row)
                     /\ Loaded(r, scope, row) \/ Merged(r, scope, row)
         \/ Hydrate(r) \/ HydrateUnavailable(r) \/ BeginSave(r)
         \/ \E change \in Edits, at \in Times : Handle(r, change, at)
<1> DEFINE Goal == \/ Kept(r, scope)
                   \/ \E row : /\ Readable(scope, row)
                               /\ Loaded(r, scope, row) \/ Merged(r, scope, row)
                   \/ Hydrate(r) \/ HydrateUnavailable(r) \/ BeginSave(r)
                   \/ \E change \in Edits, at \in Times : Handle(r, change, at)
<1> HIDE DEF Goal
<1>1. CASE UNCHANGED vars
  BY <1>1, NothingHeldChanges
     DEF vars, readVars, saveVars, Writing, Goal
<1>2. ASSUME NEW q \in Requests, NEW s \in Scopes, ReadScope(q, s) PROVE Goal
  <2>1. PICK item \in Visible(s) :
          IF item.expired
            THEN /\ gate' = [gate EXCEPT ![q][s] = item.version]
                 /\ UNCHANGED <<seen, versions, baseline, document, opState>>
            ELSE Receive(q, s, item) /\ UNCHANGED gate
    BY <1>2 DEF ReadScope
  <2>2. Loading(q, s) \/ Reloading(q, s) BY <1>2 DEF ReadScope
  <2>3. UNCHANGED <<pc, loadVars, editVars>> BY <1>2 DEF ReadScope
  <2>4. CASE item.expired
    BY <2>1, <2>3, <2>4, NothingHeldChanges DEF Writing, Goal
  <2>5. CASE ~item.expired
    <3>1. Readable(s, item) BY <2>5 DEF Readable
    <3>2. Receive(q, s, item) BY <2>1, <2>5
    <3> QED BY <2>2, <2>3, <3>1, <3>2, ReceivedScope DEF Goal
  <2> QED BY <2>4, <2>5
<1>3. ASSUME NEW q \in Requests, NEW s \in Scopes, DeleteExpired(q, s) PROVE Goal
  <2> DEFINE deleted == store[s].version = gate[q][s]
  <2>1. PICK item \in Visible(s) :
          IF Loading(q, s) \/ Reloading(q, s)
            THEN Receive(q, s, IF deleted THEN Absent ELSE Refreshed(item))
            ELSE UNCHANGED <<seen, versions, baseline, document, opState>>
    BY <1>3 DEF DeleteExpired
  <2>2. UNCHANGED <<pc, loadVars, editVars>> BY <1>3 DEF DeleteExpired
  <2>3. CASE ~(Loading(q, s) \/ Reloading(q, s))
    BY <2>1, <2>2, <2>3, NothingHeldChanges DEF Writing, Goal
  <2>4. CASE Loading(q, s) \/ Reloading(q, s)
    <3>1. gate[q][s] > 0 BY <1>3 DEF DeleteExpired
    <3>2. s \notin LastingScopes BY <3>1 DEF RowInv, RowsOrdered, TypeOK, LoadTyped
    <3>3. PICK row : /\ row = (IF deleted THEN Absent ELSE Refreshed(item))
                     /\ Receive(q, s, row)
      BY <2>1, <2>4
    <3>4. Readable(s, row)
      <4>1. row \in Visible(s) \cup {Absent} BY <3>3 DEF Refreshed
      <4>2. ~row.expired BY <3>3 DEF Refreshed, Absent
      <4> QED BY <3>2, <4>1, <4>2 DEF Readable
    <3> QED BY <2>2, <2>4, <3>3, <3>4, ReceivedScope DEF Goal
  <2> QED BY <2>3, <2>4
<1>4. ASSUME NEW q \in Requests, NEW item \in Items,
             Save(q, item) \/ LateWrite(q, item)
      PROVE  Goal
  <2>1. opState[q][item] # "none" BY <1>4 DEF Save, LateWrite, Ready
  <2>2. UNCHANGED <<pc, loadVars, seen, versions, baseline, document, editVars>>
    BY <1>4 DEF Save, LateWrite, readVars
  <2>3. \E state \in {"saved", "failed"} : Mark(q, CallOf(q, item), state)
    BY <1>4 DEF Save, LateWrite
  <2> QED BY <2>1, <2>2, <2>3, CallFacts, MarkedKept DEF Goal
<1>5. ASSUME NEW q \in Requests, NEW item \in Items,
             Reject(q, item) \/ Exhaust(q, item) \/ CallError(q, item)
      PROVE  Goal
  <2>1. UNCHANGED <<pc, loadVars, seen, versions, baseline, document, editVars>>
    BY <1>5 DEF Reject, Exhaust, CallError, readVars
  <2>2. opState[q][item] # "none" BY <1>5 DEF Reject, Exhaust, CallError, Ready
  <2>3. \/ \E state \in {"reload", "failed"} : Mark(q, CallOf(q, item), state)
        \/ Ready(q, item) /\ Mark(q, CallOf(q, item), "late")
    BY <1>5 DEF Reject, Exhaust, CallError
  <2>4. Ready(q, item) => \A i \in CallOf(q, item) : opState[q][i] = "pending"
    BY DEF Ready, InState
  <2> QED BY <2>1, <2>2, <2>3, <2>4, CallFacts, MarkedKept DEF Goal
<1>6. ASSUME NEW q \in Requests, ReloadOutbox(q) PROVE Goal
  <2>1. Mark(q, {Outbox}, "pending") BY <1>6 DEF ReloadOutbox
  <2>2. opState'[r][scope] = opState[r][scope]
    BY <2>1, OutboxIsNoScope DEF Mark, TypeOK, SaveTyped, Items
  <2> QED BY <1>6, <2>2, NothingHeldChanges DEF ReloadOutbox, readVars, Writing, Goal
<1>7. ASSUME NEW q \in Requests, SkipSave(q) \/ FinishSave(q) PROVE Goal
  <2>1. pc'[r] = pc[r] \/ {pc[r], pc'[r]} \subseteq {"handled", "saving", "done"}
    BY <1>7 DEF SkipSave, FinishSave, Done, TypeOK, LoadTyped
  <2> QED BY <1>7, <2>1, NothingHeldChanges
          DEF SkipSave, FinishSave, readVars, saveVars, Writing, Goal
<1>8. ASSUME NEW q \in Requests, SaveTimeout(q) PROVE Goal
  <2>1. pc'[r] = pc[r] \/ {pc[r], pc'[r]} \subseteq {"handled", "saving", "done"}
    BY <1>8 DEF SaveTimeout, Done, TypeOK, LoadTyped
  <2>2. opState'[r][scope] = "none" <=> opState[r][scope] = "none"
    BY <1>8 DEF SaveTimeout, TypeOK, SaveTyped, Items
  <2>3. Writing(r, scope)' => Writing(r, scope)
    BY <1>8 DEF SaveTimeout, TypeOK, SaveTyped, Items, Writing
  <2> QED BY <1>8, <2>1, <2>2, <2>3, NothingHeldChanges
          DEF SaveTimeout, readVars, Goal
<1>9. ASSUME NEW q \in Requests,
             \/ Hydrate(q) \/ HydrateUnavailable(q) \/ BeginSave(q)
             \/ \E change \in Edits, at \in Times : Handle(q, change, at)
      PROVE  Goal
  <2>1. CASE q = r BY <1>9, <2>1 DEF Goal
  <2>2. CASE q # r
    <3>1. CASE Hydrate(q) \/ HydrateUnavailable(q)
      BY <2>2, <3>1
         DEF Hydrate, HydrateUnavailable, loadVars, editVars, saveVars, TypeOK,
             LoadTyped, Kept, EditKept, Writing, Goal
    <3>2. CASE BeginSave(q)
      <4>1. opState'[r] = opState[r] /\ document'[r] = document[r] /\ pc'[r] = pc[r]
        BY <2>2, <3>2 DEF BeginSave, Mark, TypeOK, SaveTyped, LoadTyped
      <4> QED BY <3>2, <4>1
              DEF BeginSave, loadVars, readVars, editVars, Kept, EditKept, Writing, Goal
    <3>3. ASSUME NEW change \in Edits, NEW at \in Times, Handle(q, change, at)
          PROVE  Goal
      <4>1. edit'[r] = edit[r] /\ eventAt'[r] = eventAt[r] /\ pc'[r] = pc[r]
        BY <2>2, <3>3 DEF Handle, TypeOK, LoadTyped
      <4> QED BY <3>3, <4>1
              DEF Handle, loadVars, readVars, saveVars, Kept, EditKept, Writing, Goal
    <3> QED BY <1>9, <3>1, <3>2, <3>3
  <2> QED BY <2>1, <2>2
<1>10. ASSUME NEW s \in Scopes, Expire(s) \/ TimeToLiveDelete(s) PROVE Goal
  BY <1>10, NothingHeldChanges
     DEF Expire, TimeToLiveDelete, readVars, saveVars, Writing, Goal
<1> QED
  BY <1>1, <1>2, <1>3, <1>4, <1>5, <1>6, <1>7, <1>8, <1>9, <1>10
     DEF Next, Proceed, Disturb, Goal

-----------------------------------------------------------------------------
(* Versions order the rows of a lasting scope *)

\* The row a write leaves has the next version and is live.
LEMMA RowAfterVersion ==
  ASSUME TypeOK, NEW r \in Requests, NEW scope \in Scopes
  PROVE  /\ RowAfter(r, scope).version = versions[r][scope] + 1
         /\ ~RowAfter(r, scope).expired
         /\ versions[r][scope] \in Nat
         /\ \A field \in Fields : RowAfter(r, scope).doc[field] =
              IF ScopeFor(field) = scope
                 /\ (versions[r][scope] = 0 \/ field \in Changed(r))
                THEN document[r][field] ELSE store[scope].doc[field]
BY DEF RowAfter, TypeOK, LoadTyped

\* A row a lasting scope yields is live, and is the current one or older.
LEMMA ReadableIsOrdered ==
  ASSUME TypeOK, RowInv, NEW scope \in LastingScopes, NEW row, Readable(scope, row)
  PROVE  /\ row = store[scope] \/ row.version < store[scope].version
         /\ row \in past[scope] \cup {store[scope]}
         /\ row.version \in Nat
<1>1. row \in past[scope] \cup {store[scope]} BY DEF Readable, Visible
<1>2. IsRow(row) BY <1>1 DEF TypeOK, RowsTyped, LastingScopes
<1> QED BY <1>1, <1>2 DEF RowInv, RowsOrdered, IsRow

\* Deleting the only expired rows: a lasting scope's gate stays closed.
LEMMA GateStaysClosed ==
  ASSUME TypeOK, RowInv, [Next]_vars, NEW r \in Requests, NEW scope \in LastingScopes
  PROVE  gate'[r][scope] = 0
<1>0. scope \in Scopes /\ gate[r][scope] = 0 BY DEF LastingScopes, RowInv, RowsOrdered
<1>1. ASSUME NEW q \in Requests, NEW s \in Scopes, ReadScope(q, s)
      PROVE  gate'[r][scope] = 0
  <2>1. PICK item \in Visible(s) :
          IF item.expired THEN gate' = [gate EXCEPT ![q][s] = item.version]
                          ELSE UNCHANGED gate
    BY <1>1 DEF ReadScope
  <2>2. s \in LastingScopes => ~item.expired
    BY DEF Visible, RowInv, RowsOrdered
  <2>3. CASE s = scope BY <1>0, <2>1, <2>2, <2>3
  <2>4. CASE s # scope
    <3>1. CASE UNCHANGED gate BY <1>0, <3>1
    <3>2. CASE \E version : gate' = [gate EXCEPT ![q][s] = version]
      BY <1>0, <2>4, <3>2 DEF TypeOK, LoadTyped
    <3> QED BY <2>1, <3>1, <3>2
  <2> QED BY <2>3, <2>4
<1>2. ASSUME NEW q \in Requests, NEW s \in Scopes, DeleteExpired(q, s)
      PROVE  gate'[r][scope] = 0
  BY <1>0, <1>2 DEF DeleteExpired, TypeOK, LoadTyped
<1>3. UNCHANGED gate \/ \E q \in Requests : \E s \in Scopes :
        ReadScope(q, s) \/ DeleteExpired(q, s)
  <2> DEFINE Goal == UNCHANGED gate \/ \E q \in Requests : \E s \in Scopes :
                       ReadScope(q, s) \/ DeleteExpired(q, s)
  <2> HIDE DEF Goal
  <2>1. CASE UNCHANGED vars BY <2>1 DEF vars, readVars, Goal
  <2>2. ASSUME NEW q \in Requests, NEW s \in Scopes,
               ReadScope(q, s) \/ DeleteExpired(q, s)
        PROVE  Goal
    BY <2>2 DEF Goal
  <2>3. ASSUME NEW q \in Requests, Hydrate(q) \/ HydrateUnavailable(q) PROVE Goal
    BY <2>3 DEF Hydrate, HydrateUnavailable, Goal
  <2>4. ASSUME NEW q \in Requests, NEW change \in Edits, NEW at \in Times,
               Handle(q, change, at)
        PROVE  Goal
    BY <2>4 DEF Handle, readVars, Goal
  <2>5. ASSUME NEW q \in Requests, \/ SkipSave(q) \/ BeginSave(q) \/ ReloadOutbox(q)
                                   \/ FinishSave(q) \/ SaveTimeout(q)
        PROVE  Goal
    BY <2>5 DEF SkipSave, BeginSave, ReloadOutbox, FinishSave, SaveTimeout, readVars, Goal
  <2>6. ASSUME NEW q \in Requests, NEW item \in Items,
               \/ Save(q, item) \/ Reject(q, item) \/ Exhaust(q, item)
               \/ CallError(q, item) \/ LateWrite(q, item)
        PROVE  Goal
    BY <2>6 DEF Save, Reject, Exhaust, CallError, LateWrite, readVars, Goal
  <2>7. ASSUME NEW s \in Scopes, Expire(s) \/ TimeToLiveDelete(s) PROVE Goal
    BY <2>7 DEF Expire, TimeToLiveDelete, readVars, Goal
  <2> QED BY <2>1, <2>2, <2>3, <2>4, <2>5, <2>6, <2>7
             DEF Next, Proceed, Disturb, Goal
<1> QED BY <1>0, <1>1, <1>2, <1>3

\* No step takes a lasting scope's version back.
LEMMA VersionsGrow ==
  ASSUME TypeOK, CommitInv, RowInv, [Next]_vars, NEW scope \in LastingScopes
  PROVE  /\ store[scope].version \in Nat
         /\ \/ RowStays(scope)
            \/ /\ store'[scope].version = store[scope].version + 1
               /\ \E r \in Requests : RowWritten(r, scope)
<1>1. scope \in Scopes /\ scope \notin ExpiringScopes BY DEF LastingScopes
<1>2. store[scope].version \in Nat BY <1>1 DEF TypeOK, RowsTyped, IsRow
<1>3. RowStays(scope) \/ \E r \in Requests : RowWritten(r, scope)
  BY <1>1, RowStep DEF RowLost
<1>4. ASSUME NEW r \in Requests, RowWritten(r, scope)
      PROVE  store'[scope].version = store[scope].version + 1
  BY <1>1, <1>4, RowAfterVersion DEF RowWritten
<1> QED BY <1>2, <1>3, <1>4

LEMMA RowInit == Init => RowInv
<1> SUFFICES ASSUME Init PROVE RowInv OBVIOUS
<1>1. \A scope \in Scopes : /\ past[scope] = {} /\ store[scope] = StartRow(scope)
  BY DEF Init
<1>2. \A scope \in Scopes : /\ ~StartRow(scope).expired
                            /\ StartRow(scope).version \in {0, 1}
                            /\ StartRow(scope).version = 0 => StartRow(scope) = Absent
  BY DEF StartRow, Absent
<1>3. BlankRows BY <1>1, <1>2 DEF BlankRows, Absent
<1>4. \A r \in Requests, scope \in Scopes : versions[r][scope] = 0 /\ gate[r][scope] = 0
  BY DEF Init
<1>5. \A scope \in Scopes : ~store[scope].expired /\ 0 <= store[scope].version
  BY <1>1, <1>2
<1>6. RowsOrdered BY <1>1, <1>4, <1>5 DEF RowsOrdered, LastingScopes
<1> QED BY <1>3, <1>6 DEF RowInv

\* Every step keeps the rows of lasting scopes ordered and empty rows blank.
LEMMA RowNext == TypeOK /\ CommitInv /\ RowInv /\ [Next]_vars => RowInv'
<1> SUFFICES ASSUME TypeOK, CommitInv, RowInv, [Next]_vars PROVE RowInv'
  OBVIOUS
<1>1. BlankRows'
  <2> SUFFICES ASSUME NEW scope \in Scopes, NEW row \in past'[scope] \cup {store'[scope]},
                      row.version = 0
               PROVE  row.doc = Blank
    BY DEF BlankRows
  <2>0. \A old \in past[scope] \cup {store[scope]} : old.version = 0 => old.doc = Blank
    BY DEF RowInv, BlankRows
  <2>1. CASE RowStays(scope) BY <2>0, <2>1 DEF RowStays
  <2>2. ASSUME NEW r \in Requests, RowWritten(r, scope) PROVE row.doc = Blank
    <3>1. row \in past[scope] \cup {store[scope], RowAfter(r, scope)}
      BY <2>2 DEF RowWritten
    <3>2. row # RowAfter(r, scope) BY RowAfterVersion
    <3> QED BY <2>0, <3>1, <3>2
  <2>3. CASE RowLost(scope)
    <3>1. CASE row \in past'[scope] BY <2>0, <2>3, <3>1 DEF RowLost
    <3>2. CASE row = store'[scope] /\ store'[scope] = Absent BY <3>2 DEF Absent
    <3>3. CASE /\ row = store'[scope] /\ store[scope].version > 0
               /\ store'[scope] = [store[scope] EXCEPT !.expired = TRUE]
      <4>1. IsRow(store[scope]) BY DEF TypeOK, RowsTyped
      <4>2. [store[scope] EXCEPT !.expired = TRUE].version = store[scope].version
        BY <4>1 DEF IsRow
      <4> QED BY <3>3, <4>1, <4>2 DEF IsRow
    <3> QED BY <2>3, <3>1, <3>2, <3>3 DEF RowLost
  <2> QED BY <2>1, <2>2, <2>3, RowStep
<1>2. RowsOrdered'
  <2> SUFFICES ASSUME NEW scope \in LastingScopes
               PROVE  /\ ~store'[scope].expired
                      /\ \A row \in past'[scope] :
                           ~row.expired /\ row.version < store'[scope].version
                      /\ \A r \in Requests :
                           /\ versions'[r][scope] <= store'[scope].version
                           /\ gate'[r][scope] = 0
    BY DEF RowsOrdered, LastingScopes
  <2>0. scope \in Scopes BY DEF LastingScopes
  <2>1. /\ ~store[scope].expired
        /\ \A row \in past[scope] :
             ~row.expired /\ row.version < store[scope].version
        /\ \A r \in Requests : versions[r][scope] <= store[scope].version
    BY DEF RowInv, RowsOrdered
  <2>2. \A row \in past[scope] \cup {store[scope]} : row.version \in Nat
    BY <2>0 DEF TypeOK, RowsTyped, IsRow
  <2>3. /\ ~store'[scope].expired
        /\ \A row \in past'[scope] :
             ~row.expired /\ row.version < store'[scope].version
    <3>1. CASE RowStays(scope) BY <2>1, <3>1 DEF RowStays
    <3>2. ASSUME NEW r \in Requests, RowWritten(r, scope)
          PROVE  /\ ~store'[scope].expired
                 /\ \A row \in past'[scope] :
                      ~row.expired /\ row.version < store'[scope].version
      <4>1. /\ store'[scope].version = store[scope].version + 1
            /\ ~store'[scope].expired
            /\ past'[scope] \subseteq past[scope] \cup {store[scope]}
        BY <2>0, <3>2, RowAfterVersion DEF RowWritten
      <4> QED BY <2>1, <2>2, <4>1
    <3> QED BY <3>1, <3>2, VersionsGrow
  <2>4. ASSUME NEW r \in Requests PROVE versions'[r][scope] <= store'[scope].version
    <3>1. store'[scope].version \in Nat /\ store[scope].version <= store'[scope].version
      BY VersionsGrow DEF RowStays
    <3>2. versions[r][scope] \in Nat BY <2>0 DEF TypeOK, LoadTyped
    <3>3. \/ versions'[r][scope] = versions[r][scope]
          \/ versions'[r][scope] = 0
          \/ \E row : Readable(scope, row) /\ versions'[r][scope] = row.version
      <4>1. CASE HydrateUnavailable(r)
        BY <2>0, <4>1 DEF HydrateUnavailable, TypeOK, LoadTyped
      <4>2. CASE Hydrate(r) \/ BeginSave(r)
        BY <4>2 DEF Hydrate, BeginSave, readVars
      <4>3. CASE \E change \in Edits, at \in Times : Handle(r, change, at)
        BY <4>3 DEF Handle, readVars
      <4> QED BY <2>0, <4>1, <4>2, <4>3, HeldStep DEF Kept, Loaded, Merged
    <3>4. ASSUME NEW row, Readable(scope, row) PROVE row.version <= store[scope].version
      BY <2>2, <3>4, ReadableIsOrdered
    <3>5. ASSUME NEW row, Readable(scope, row) PROVE row.version \in Nat
      BY <3>5, ReadableIsOrdered
    <3> QED BY <2>1, <2>2, <3>1, <3>2, <3>3, <3>4, <3>5
  <2>5. \A r \in Requests : gate'[r][scope] = 0 BY GateStaysClosed
  <2> QED BY <2>3, <2>4, <2>5
<1> QED BY <1>1, <1>2 DEF RowInv

-----------------------------------------------------------------------------
(* Plain fields: nothing stale is written *)

\* Before the save no operation has begun.
LEMMA NoOperationYet ==
  ASSUME CommitInv, NEW r \in Requests, pc[r] \in {"loading", "handling", "handled"},
         NEW scope \in Scopes
  PROVE  opState[r][scope] = "none" /\ ~Writing(r, scope)
<1>1. Ops(r) = {} BY DEF CommitInv, RequestInv, NothingBeforeSave
<1> QED BY <1>1 DEF Ops, Items, Writing

\* Every field is a field of its scope.
LEMMA FieldOfItsScope ==
  ASSUME NEW field \in Fields
  PROVE  ScopeFor(field) \in Scopes /\ field \in FieldsOf(ScopeFor(field))
BY DEF Scopes, FieldsOf

\* A row a read yields is typed, and blank when it has no version.
LEMMA ReadableIsRow ==
  ASSUME TypeOK, RowInv, NEW scope \in Scopes, NEW row, Readable(scope, row)
  PROVE  IsRow(row) /\ (row.version = 0 => row.doc = Blank)
<1>1. CASE row = Absent BY <1>1, AbsentTyped DEF Absent
<1>2. CASE row \in Visible(scope)
  BY <1>2 DEF Visible, TypeOK, RowsTyped, RowInv, BlankRows
<1> QED BY <1>1, <1>2 DEF Readable

\* The step with which a request begins to save.
LEMMA BegunSave ==
  ASSUME TypeOK, CommitInv, NEW r \in Requests, BeginSave(r), NEW scope \in Scopes
  PROVE  /\ pc[r] = "handled" /\ pc'[r] = "saving" /\ available[r] /\ ~NothingToSave(r)
         /\ document'[r] = Requested(r)
         /\ opState[r][scope] = "none"
         /\ opState'[r][scope] = IF scope \in Planned(r) THEN "pending" ELSE "none"
         /\ Writing(r, scope)' <=> scope \in Planned(r)
         /\ UNCHANGED <<rows, loadVars, readVars, editVars>>
<1>1. pc[r] = "handled" BY DEF BeginSave
<1>2. opState[r][scope] = "none" BY <1>1, NoOperationYet
<1>3. pc'[r] = "saving" /\ document'[r] = Requested(r)
  BY DEF BeginSave, TypeOK, LoadTyped, SaveTyped
<1>4. opState'[r][scope] = IF scope \in Planned(r) THEN "pending" ELSE opState[r][scope]
  BY DEF BeginSave, Mark, TypeOK, SaveTyped, Items
<1> QED BY <1>1, <1>2, <1>3, <1>4 DEF BeginSave, Writing

\* Steps between loading and saving: no operation has begun, before or after.
LEMMA NotSavingYet ==
  ASSUME TypeOK, CommitInv, NEW r \in Requests, NEW scope \in Scopes,
         \/ Hydrate(r) \/ HydrateUnavailable(r)
         \/ \E change \in Edits, at \in Times : Handle(r, change, at)
  PROVE  opState[r][scope] = "none" /\ ~Writing(r, scope) /\ UNCHANGED opState
<1>1. pc[r] \in {"loading", "handling", "handled"}
  BY DEF Hydrate, HydrateUnavailable, Handle
<1>2. UNCHANGED opState BY DEF Hydrate, HydrateUnavailable, Handle, saveVars
<1> QED BY <1>1, <1>2, NoOperationYet

LEMMA AliasInit == Init => AliasInv
BY DEF Init, AliasInv, AliasHeld

\* Every step keeps a copied document apart from what was ever read.
LEMMA AliasNext ==
  TypeOK /\ CommitInv /\ RowInv /\ AliasInv /\ [Next]_vars => AliasInv'
<1> SUFFICES ASSUME TypeOK, CommitInv, RowInv, AliasInv, [Next]_vars,
                    NEW r \in Requests, NEW scope \in Scopes
             PROVE  AliasHeld(r, scope)'
  BY DEF AliasInv
<1>0. AliasHeld(r, scope) BY DEF AliasInv
<1>1. CASE Kept(r, scope) BY <1>0, <1>1 DEF AliasHeld, Kept, EditKept
<1>2. ASSUME NEW row, Loaded(r, scope, row) PROVE AliasHeld(r, scope)'
  BY <1>0, <1>2 DEF AliasHeld, Loaded, EditKept
<1>3. ASSUME NEW row, Merged(r, scope, row) PROVE AliasHeld(r, scope)'
  BY <1>0, <1>3 DEF AliasHeld, Merged, EditKept
<1>4. CASE Hydrate(r)
  <2>1. pc[r] = "loading" /\ pc'[r] = "handling"
    BY <1>4 DEF Hydrate, TypeOK, LoadTyped
  <2>2. ~copying[r] BY <1>0, <2>1 DEF AliasHeld
  <2>3. UNCHANGED versions BY <1>4 DEF Hydrate
  <2>4. CASE (\E s \in Scopes : versions[r][s] > 0) \/ ~HasAlias
    <3>1. UNCHANGED copying BY <1>4, <2>4 DEF Hydrate
    <3> QED BY <2>2, <3>1 DEF AliasHeld
  <2>5. CASE ~(\E s \in Scopes : versions[r][s] > 0) /\ HasAlias
    <3>1. baseline'[r] = AliasDocument
      BY <1>4, <2>5 DEF Hydrate, TypeOK, LoadTyped
    <3>2. versions[r][scope] = 0 BY <2>5 DEF TypeOK, LoadTyped
    <3> QED BY <2>1, <2>3, <3>1, <3>2 DEF AliasHeld
  <2> QED BY <2>4, <2>5
<1>5. CASE HydrateUnavailable(r)
  BY <1>0, <1>5 DEF HydrateUnavailable, loadVars, AliasHeld
<1>6. CASE \E change \in Edits, at \in Times : Handle(r, change, at)
  BY <1>0, <1>6 DEF Handle, loadVars, readVars, saveVars, AliasHeld, TypeOK, LoadTyped
<1>7. CASE BeginSave(r)
  BY <1>0, <1>7, BegunSave DEF AliasHeld, loadVars, readVars
<1> QED BY <1>1, <1>2, <1>3, <1>4, <1>5, <1>6, <1>7, HeldStep

\* What a handler writes into a plain field, what a merge makes of it, and
\* what it holds by default.
LEMMA PlainRequested ==
  ASSUME NEW r \in Requests, NEW field \in Fields \cap PlainFields
  PROVE  Requested(r)[field] =
           IF field \in edit[r].fields THEN r ELSE baseline[r][field]
<1>1. field \in Fields /\ field \notin {"playCount", "activePlayback", "playHistory"}
  BY DEF PlainFields
<1>2. \A at, old : NewValue(r, at, field, old) = r BY <1>1 DEF NewValue
<1> QED BY <1>1, <1>2 DEF Requested

LEMMA PlainMerge ==
  ASSUME NEW latest, NEW requested, NEW original, NEW changed,
         NEW field \in Fields \cap PlainFields
  PROVE  Resolve(latest, requested, original, changed)[field] =
           IF field \in changed THEN requested[field] ELSE latest[field]
<1>1. field \in Fields /\ field \notin {"playCount", "activePlayback", "playHistory"}
  BY DEF PlainFields
<1>2. \A a, b, c : ResolveField(field, a, b, c) = b BY <1>1 DEF ResolveField
<1> QED BY <1>1, <1>2 DEF Resolve

LEMMA PlainDefaults ==
  ASSUME NEW field \in Fields \cap PlainFields
  PROVE  Blank[field] = NoWriter /\ AliasDocument[field] = Alias
BY DEF PlainFields, Blank, DefaultFor, AliasDocument

LEMMA PlainInit == Init => PlainInv
<1> SUFFICES ASSUME Init, NEW r \in Requests, NEW field \in Fields \cap PlainFields
             PROVE  PlainHeld(r, field)
  BY DEF PlainInv
<1>1. baseline[r][field] = NoWriter BY PlainDefaults DEF Init
<1>2. opState[r][ScopeFor(field)] = "none" BY FieldOfItsScope DEF Init, Items
<1> QED BY <1>1, <1>2 DEF PlainHeld, Writing

\* Every step keeps what a request is about to write into a plain field its
\* own or the alias' value.
LEMMA PlainNext ==
  TypeOK /\ CommitInv /\ RowInv /\ AliasInv /\ PlainInv /\ [Next]_vars => PlainInv'
<1> SUFFICES ASSUME TypeOK, CommitInv, RowInv, AliasInv, PlainInv, [Next]_vars,
                    NEW r \in Requests, NEW field \in Fields \cap PlainFields
             PROVE  PlainHeld(r, field)'
  BY DEF PlainInv
<1> DEFINE scope == ScopeFor(field)
<1>0. /\ scope \in Scopes /\ field \in FieldsOf(scope) /\ field \in Fields
      /\ PlainHeld(r, field) /\ AliasHeld(r, scope)
  BY FieldOfItsScope DEF PlainInv, AliasInv
<1> HIDE DEF scope
<1>a. ASSUME EditKept(r) PROVE Changed(r)' = Changed(r) BY <1>a DEF EditKept, Changed
<1>1. CASE Kept(r, scope)
  BY <1>0, <1>1, <1>a DEF PlainHeld, Kept, EditKept, scope
<1>2. ASSUME NEW row, Readable(scope, row), Loaded(r, scope, row)
      PROVE  PlainHeld(r, field)'
  <2>1. row.version = 0 => row.doc[field] = NoWriter
    BY <1>0, <1>2, ReadableIsRow, PlainDefaults
  <2>2. ~Writing(r, scope)'
    BY <1>0, <1>2, NoOperationYet DEF Loaded, Writing
  <2> QED BY <1>0, <1>2, <2>1, <2>2 DEF PlainHeld, Loaded, scope
<1>3. ASSUME NEW row, Readable(scope, row), Merged(r, scope, row)
      PROVE  PlainHeld(r, field)'
  <2>1. row.version = 0 => row.doc[field] = NoWriter
    BY <1>0, <1>3, ReadableIsRow, PlainDefaults
  <2>2. document'[r][field] = IF field \in Changed(r) THEN Requested(r)[field]
                                                      ELSE row.doc[field]
    <3>1. document'[r][field] =
            Resolve(row.doc, Requested(r), baseline[r], Changed(r))[field]
      BY <1>0, <1>3 DEF Merged
    <3>2. Resolve(row.doc, Requested(r), baseline[r], Changed(r))[field] =
            IF field \in Changed(r) THEN Requested(r)[field] ELSE row.doc[field]
      BY PlainMerge
    <3> QED BY <3>1, <3>2
  <2>3. Requested(r)[field] = IF field \in edit[r].fields THEN r ELSE baseline[r][field]
    BY PlainRequested
  <2>4. copying[r] => baseline[r][field] = Alias
    BY <1>0, PlainDefaults DEF AliasHeld
  <2>5. opState'[r][scope] = "pending" /\ versions'[r][scope] = row.version /\ EditKept(r)
    BY <1>3 DEF Merged
  <2> QED BY <1>0, <1>a, <2>1, <2>2, <2>3, <2>4, <2>5
          DEF PlainHeld, EditKept, Changed, scope
<1>4. CASE Hydrate(r)
  <2>1. opState[r][scope] = "none" /\ UNCHANGED opState BY <1>0, <1>4, NotSavingYet
  <2>2. pc[r] = "loading" /\ UNCHANGED versions BY <1>4 DEF Hydrate
  <2>3. ~copying[r] BY <1>0, <2>2 DEF AliasHeld
  <2>4. copying'[r] \/ UNCHANGED baseline
    BY <1>4 DEF Hydrate, TypeOK, LoadTyped
  <2> QED BY <1>0, <2>1, <2>2, <2>3, <2>4 DEF PlainHeld, Writing, scope
<1>5. CASE HydrateUnavailable(r)
  <2>1. opState[r][scope] = "none" /\ UNCHANGED opState BY <1>0, <1>5, NotSavingYet
  <2>2. baseline'[r][field] = NoWriter
    BY <1>0, <1>5, PlainDefaults DEF HydrateUnavailable, TypeOK, LoadTyped
  <2> QED BY <1>0, <2>1, <2>2 DEF PlainHeld, Writing, scope
<1>6. CASE \E change \in Edits, at \in Times : Handle(r, change, at)
  <2>1. opState[r][scope] = "none" /\ UNCHANGED opState BY <1>0, <1>6, NotSavingYet
  <2> QED BY <1>0, <1>6, <2>1
          DEF PlainHeld, Writing, Handle, loadVars, readVars, scope
<1>7. CASE BeginSave(r)
  <2>1. /\ document'[r] = Requested(r) /\ opState[r][scope] = "none"
        /\ UNCHANGED <<rows, loadVars, readVars, editVars>>
    BY <1>0, <1>7, BegunSave
  <2>2. Requested(r)[field] = IF field \in edit[r].fields THEN r ELSE baseline[r][field]
    BY PlainRequested
  <2>3. copying[r] => baseline[r][field] = Alias
    BY <1>0, PlainDefaults DEF AliasHeld
  <2> QED BY <1>0, <2>1, <2>2, <2>3
          DEF PlainHeld, loadVars, readVars, editVars, Changed, scope
<1> QED BY <1>0, <1>1, <1>2, <1>3, <1>4, <1>5, <1>6, <1>7, HeldStep

\* A write puts only the request's own value or the alias' value over a plain
\* field (UpdateExpression of the changed fields, or a whole new row).
LEMMA WrittenPlain ==
  ASSUME TypeOK, CommitInv, RowInv, AliasInv, PlainInv,
         NEW field \in Fields \cap PlainFields, NEW r \in Requests,
         RowWritten(r, ScopeFor(field))
  PROVE  LET before == store[ScopeFor(field)].doc[field]
             after  == store'[ScopeFor(field)].doc[field] IN
         \/ after = before
         \/ field \in edit[r].fields /\ after = r
         \/ copying[r] /\ after = Alias
<1> DEFINE scope == ScopeFor(field)
<1>0. /\ scope \in Scopes /\ field \in Fields /\ PlainHeld(r, field)
  BY FieldOfItsScope DEF PlainInv
<1>1. /\ store[scope].version = versions[r][scope]
      /\ store'[scope] = RowAfter(r, scope) /\ Writing(r, scope)
  BY DEF RowWritten
<1>2. store'[scope].doc[field] =
        IF versions[r][scope] = 0 \/ field \in Changed(r)
          THEN document[r][field] ELSE store[scope].doc[field]
  BY <1>0, <1>1, RowAfterVersion
<1>3. /\ field \in edit[r].fields => document[r][field] = r
      /\ (field \notin edit[r].fields /\ copying[r]) => document[r][field] = Alias
      /\ (field \notin Changed(r) /\ versions[r][scope] = 0) =>
            document[r][field] = NoWriter
  BY <1>0, <1>1 DEF PlainHeld
<1>4. store[scope].version = 0 => store[scope].doc[field] = NoWriter
  BY <1>0, PlainDefaults DEF RowInv, BlankRows
<1>5. field \in Changed(r) => field \in edit[r].fields \/ copying[r]
  BY DEF Changed
<1> HIDE DEF scope
<1>6. \/ store'[scope].doc[field] = store[scope].doc[field]
      \/ field \in edit[r].fields /\ store'[scope].doc[field] = r
      \/ copying[r] /\ store'[scope].doc[field] = Alias
  BY <1>1, <1>2, <1>3, <1>4, <1>5
<1> QED BY <1>6 DEF scope

LEMMA NoStaleStep ==
  ASSUME TypeOK, CommitInv, RowInv, AliasInv, PlainInv, [Next]_vars,
         NEW field \in Fields \cap PlainFields
  PROVE  LET before == store[ScopeFor(field)].doc[field]
             after  == store'[ScopeFor(field)].doc[field] IN
         \/ after = before
         \/ after = NoWriter /\ store'[ScopeFor(field)].version = 0
         \/ \E r \in Requests :
              /\ landed'[r] # landed[r]
              /\ \/ field \in edit[r].fields /\ after = r
                 \/ copying[r] /\ after = Alias
<1> DEFINE scope == ScopeFor(field)
<1>0. scope \in Scopes BY FieldOfItsScope
<1>1. CASE RowStays(scope) BY <1>1 DEF RowStays
<1>2. CASE RowLost(scope)
  <2>1. CASE store'[scope] = Absent
    <3>1. Absent.doc[field] = NoWriter BY PlainDefaults DEF Absent
    <3> QED BY <2>1, <3>1 DEF Absent
  <2>2. CASE store'[scope] = [store[scope] EXCEPT !.expired = TRUE]
    <3>1. IsRow(store[scope]) BY <1>0 DEF TypeOK, RowsTyped
    <3>2. [store[scope] EXCEPT !.expired = TRUE].doc = store[scope].doc
      BY <3>1 DEF IsRow
    <3> QED BY <2>2, <3>2
  <2> QED BY <1>2, <2>1, <2>2 DEF RowLost
<1>3. ASSUME NEW r \in Requests, RowWritten(r, scope)
      PROVE  \/ store'[scope].doc[field] = store[scope].doc[field]
             \/ /\ landed'[r] # landed[r]
                /\ \/ field \in edit[r].fields /\ store'[scope].doc[field] = r
                   \/ copying[r] /\ store'[scope].doc[field] = Alias
  <2>1. landed'[r] # landed[r] BY <1>3 DEF RowWritten
  <2> QED BY <1>3, <2>1, WrittenPlain
<1> HIDE DEF scope
<1>4. \/ store'[scope].doc[field] = store[scope].doc[field]
      \/ store'[scope].doc[field] = NoWriter /\ store'[scope].version = 0
      \/ \E r \in Requests :
           /\ landed'[r] # landed[r]
           /\ \/ field \in edit[r].fields /\ store'[scope].doc[field] = r
              \/ copying[r] /\ store'[scope].doc[field] = Alias
  <2>1. RowStays(scope) \/ RowLost(scope) \/ \E r \in Requests : RowWritten(r, scope)
    BY <1>0, RowStep
  <2> QED BY <1>1, <1>2, <1>3, <2>1 DEF scope
<1> QED BY <1>4 DEF scope

-----------------------------------------------------------------------------
(* A request that holds the current version holds the current row *)

\* A write leaves every request behind: who holds the current version
\* afterwards has just read it, or nothing was written.
LEMMA LeftBehind ==
  ASSUME TypeOK, CommitInv, RowInv, [Next]_vars, NEW scope \in LastingScopes,
         NEW r \in Requests, versions'[r][scope] = store'[scope].version
  PROVE  RowStays(scope)
<1> SUFFICES ASSUME NEW q \in Requests, RowWritten(q, scope),
                    store'[scope].version = store[scope].version + 1
             PROVE  FALSE
  BY VersionsGrow
<1>1. versions'[r][scope] = versions[r][scope] BY DEF RowWritten, readVars
<1>2. versions[r][scope] <= store[scope].version BY DEF RowInv, RowsOrdered
<1>3. store[scope].version \in Nat /\ versions[r][scope] \in Nat
  BY VersionsGrow DEF TypeOK, LoadTyped, LastingScopes
<1> QED BY <1>1, <1>2, <1>3

\* What a read yields with the current version is the current row.
LEMMA ReadCurrent ==
  ASSUME TypeOK, RowInv, NEW scope \in LastingScopes, NEW row,
         Readable(scope, row), row.version = store[scope].version
  PROVE  row = store[scope]
BY ReadableIsOrdered

\* An operation takes effect once, with its row if it has anything to write,
\* and what a request does is settled before.
LEMMA LandedStep ==
  ASSUME TypeOK, CommitInv, RowInv, [Next]_vars,
         NEW r \in Requests, NEW scope \in Scopes
  PROVE  /\ landed[r] \subseteq landed'[r]
         /\ scope \in landed'[r] \ landed[r] =>
              Writing(r, scope) /\ (Skipped(r, scope) \/ RowWritten(r, scope))
         /\ landed'[r] # {} => EditKept(r)
<1>1. ASSUME NEW q \in Requests, NEW item \in Items,
             Save(q, item) \/ LateWrite(q, item)
      PROVE  /\ landed[r] \subseteq landed'[r]
             /\ scope \in landed'[r] \ landed[r] =>
                  Writing(r, scope) /\ (Skipped(r, scope) \/ RowWritten(r, scope))
  <2>1. landed' = [landed EXCEPT ![q] = @ \cup CallOf(q, item)]
    BY <1>1 DEF Save, LateWrite, Land
  <2>2. CASE q = r
    <3>1. landed'[r] = landed[r] \cup CallOf(r, item)
      BY <2>1, <2>2 DEF TypeOK, SaveTyped
    <3> QED BY <1>1, <2>2, <3>1, CallRows
  <2>3. CASE q # r BY <2>1, <2>3 DEF TypeOK, SaveTyped
  <2> QED BY <2>2, <2>3
<1>2. landed' = landed \/ \E q \in Requests, item \in Items :
        Save(q, item) \/ LateWrite(q, item)
  <2> DEFINE Goal == landed' = landed \/ \E q \in Requests, item \in Items :
                       Save(q, item) \/ LateWrite(q, item)
  <2> HIDE DEF Goal
  <2>1. CASE UNCHANGED vars BY <2>1 DEF vars, Goal
  <2>2. ASSUME NEW q \in Requests, NEW s \in Scopes,
               ReadScope(q, s) \/ DeleteExpired(q, s)
        PROVE  Goal
    BY <2>2 DEF ReadScope, DeleteExpired, Goal
  <2>3. ASSUME NEW q \in Requests,
               \/ Hydrate(q) \/ HydrateUnavailable(q) \/ SkipSave(q) \/ BeginSave(q)
               \/ ReloadOutbox(q) \/ FinishSave(q) \/ SaveTimeout(q)
        PROVE  Goal
    BY <2>3 DEF Hydrate, HydrateUnavailable, SkipSave, BeginSave, ReloadOutbox,
                FinishSave, SaveTimeout, Goal
  <2>4. ASSUME NEW q \in Requests, NEW change \in Edits, NEW at \in Times,
               Handle(q, change, at)
        PROVE  Goal
    BY <2>4 DEF Handle, Goal
  <2>5. ASSUME NEW q \in Requests, NEW item \in Items,
               Reject(q, item) \/ Exhaust(q, item) \/ CallError(q, item)
        PROVE  Goal
    BY <2>5 DEF Reject, Exhaust, CallError, Goal
  <2>6. ASSUME NEW q \in Requests, NEW item \in Items,
               Save(q, item) \/ LateWrite(q, item)
        PROVE  Goal
    BY <2>6 DEF Goal
  <2>7. ASSUME NEW s \in Scopes, Expire(s) \/ TimeToLiveDelete(s) PROVE Goal
    BY <2>7 DEF Expire, TimeToLiveDelete, Goal
  <2> QED BY <2>1, <2>2, <2>3, <2>4, <2>5, <2>6, <2>7 DEF Next, Proceed, Disturb, Goal
<1>3. landed'[r] # {} => EditKept(r)
  <2>1. CASE \/ Hydrate(r) \/ HydrateUnavailable(r)
             \/ \E change \in Edits, at \in Times : Handle(r, change, at)
    <3>1. pc[r] \in {"loading", "handling"}
      BY <2>1 DEF Hydrate, HydrateUnavailable, Handle
    <3>2. landed'[r] = landed[r] BY <2>1 DEF Hydrate, HydrateUnavailable, Handle
    <3>3. landed[r] = {}
      BY <3>1 DEF CommitInv, RequestInv, NothingBeforeSave, LandedHasEnded, InState, Ops
    <3> QED BY <3>2, <3>3
  <2>2. CASE BeginSave(r)
    BY <2>2 DEF BeginSave, loadVars, editVars, EditKept
  <2> QED BY <2>1, <2>2, HeldStep DEF Kept, Loaded, Merged
<1> QED BY <1>1, <1>2, <1>3

-----------------------------------------------------------------------------
(* activePlayback *)

\* A playback value is None, at time 0, or the work of a request or the alias.
LEMMA PlaybackValues ==
  ASSUME NEW doc, IsDocument(doc), "activePlayback" \in Fields
  PROVE  /\ doc["activePlayback"].at \in Nat
         /\ doc["activePlayback"].by = NoWriter => doc["activePlayback"].at = 0
<1>1. doc["activePlayback"] \in PlaybackValue BY DEF IsDocument, ValuesOf
<1>2. NoWriter \notin Requests \cup {Alias} BY DocumentAssumption
<1> QED BY <1>1, <1>2 DEF PlaybackValue, NoPlayback

\* The playback a request wants to store, and what a merge makes of it: its
\* own event, unless the one that beat it is newer.
LEMMA PlaybackRequested ==
  ASSUME NEW r \in Requests, "activePlayback" \in Fields
  PROVE  Requested(r)["activePlayback"] =
           IF "activePlayback" \in edit[r].fields THEN [by |-> r, at |-> eventAt[r]]
                                                  ELSE baseline[r]["activePlayback"]
BY DEF Requested, NewValue

LEMMA PlaybackMerge ==
  ASSUME NEW latest, NEW requested, NEW original, NEW changed,
         "activePlayback" \in Fields
  PROVE  LET mine == requested["activePlayback"]
             now  == latest["activePlayback"] IN
         Resolve(latest, requested, original, changed)["activePlayback"] =
           IF /\ "activePlayback" \in changed
              /\ now.by = NoWriter \/ mine.by = NoWriter \/ mine.at >= now.at
             THEN mine ELSE now
<1>1. \A a, b, c : ResolveField("activePlayback", a, b, c) =
        IF a.by = NoWriter \/ b.by = NoWriter \/ b.at >= a.at THEN b ELSE a
  BY DEF ResolveField, IncomingPlaybackIsNewer
<1> QED BY <1>1 DEF Resolve

LEMMA PlaybackScope ==
  ASSUME "activePlayback" \in Fields
  PROVE  /\ ScopeFor("activePlayback") = Playback /\ Playback \in Scopes
         /\ "activePlayback" \in FieldsOf(Playback)
<1>1. ScopeFor("activePlayback") = Playback
  BY DEF ScopeFor, Core, Playback, Dialog, Cache
<1> QED BY <1>1, FieldOfItsScope

LEMMA PlaybackInit ==
  ASSUME "activePlayback" \in Fields PROVE Init => PlaybackInv
<1> SUFFICES ASSUME Init, NEW r \in Requests PROVE PlaybackHeld(r)
  BY DEF PlaybackInv
<1>1. Playback \in Scopes BY PlaybackScope
<1>2. opState[r][Playback] = "none" /\ pc[r] = "loading" /\ versions[r][Playback] = 0
  BY <1>1 DEF Init, Items
<1>3. baseline[r] = Blank /\ store[Playback] = StartRow(Playback)
  BY <1>1 DEF Init
<1>4. StartRow(Playback).version = 0 => StartRow(Playback).doc = Blank
  BY DEF StartRow, Absent
<1> QED BY <1>2, <1>3, <1>4 DEF PlaybackHeld, Writing

\* Every step keeps what a request holds of the current playback up to date:
\* accepts_event when it was loaded, incoming_playback_is_newer when it was
\* merged.
LEMMA PlaybackNext ==
  ASSUME "activePlayback" \in Fields, Playback \in LastingScopes
  PROVE  TypeOK /\ CommitInv /\ RowInv /\ AliasInv /\ PlaybackInv /\ [Next]_vars
           => PlaybackInv'
<1> SUFFICES ASSUME TypeOK, CommitInv, RowInv, AliasInv, PlaybackInv, [Next]_vars,
                    NEW r \in Requests
             PROVE  PlaybackHeld(r)'
  BY DEF PlaybackInv
<1> DEFINE act     == "activePlayback"
           current == store[Playback].doc[act]
           Accepts == (pc[r] \notin {"loading", "handling"} /\ edit[r].audio
                         /\ act \in edit[r].fields) =>
                        AcceptsEvent(baseline[r][act], eventAt[r])
           Held == versions[r][Playback] = store[Playback].version =>
             /\ (opState[r][Playback] = "none" /\ ~copying[r]) =>
                  baseline[r][act] = current
             /\ Writing(r, Playback) =>
                  \/ document[r][act] = current
                  \/ document[r][act].by = Alias
                  \/ /\ document[r][act].by = r
                     /\ edit[r].audio => document[r][act].at >= current.at
<1>0. /\ Playback \in Scopes /\ act \in FieldsOf(Playback)
      /\ Accepts /\ Held /\ AliasHeld(r, Playback)
  BY PlaybackScope DEF PlaybackInv, PlaybackHeld, AliasInv
<1>a. (versions'[r][Playback] = store'[Playback].version) => RowStays(Playback)
  BY LeftBehind
<1>b. IsRow(store[Playback]) /\ IsDocument(baseline[r]) /\ eventAt[r] \in Nat
  BY <1>0 DEF TypeOK, RowsTyped, LoadTyped
<1>c. current.at \in Nat /\ (current.by = NoWriter => current.at = 0)
  BY <1>b, PlaybackValues DEF IsRow
<1>d. Requested(r)[act] = IF act \in edit[r].fields THEN [by |-> r, at |-> eventAt[r]]
                                                    ELSE baseline[r][act]
  BY PlaybackRequested
<1>e. copying[r] => baseline[r][act] = [by |-> Alias, at |-> 0]
  BY <1>0 DEF AliasHeld, AliasDocument
<1>f. r # NoWriter /\ Alias # NoWriter BY DocumentAssumption
<1>1. CASE Kept(r, Playback)
  BY <1>0, <1>a, <1>1 DEF PlaybackHeld, Kept, EditKept, RowStays
<1>2. ASSUME NEW row, Readable(Playback, row), Loaded(r, Playback, row)
      PROVE  PlaybackHeld(r)'
  <2>1. ~Writing(r, Playback)'
    BY <1>0, <1>2, NoOperationYet DEF Loaded, Writing
  <2>2. row.version = store[Playback].version => row = store[Playback]
    BY <1>2, ReadCurrent
  <2> QED BY <1>0, <1>a, <1>2, <2>1, <2>2 DEF PlaybackHeld, Loaded, RowStays
<1>3. ASSUME NEW row, Readable(Playback, row), Merged(r, Playback, row)
      PROVE  PlaybackHeld(r)'
  <2>1. Accepts' BY <1>0, <1>3 DEF Merged, EditKept
  <2>2. Held'
    <3> SUFFICES ASSUME versions'[r][Playback] = store'[Playback].version
                 PROVE  \/ document'[r][act] = current'
                        \/ document'[r][act].by = Alias
                        \/ /\ document'[r][act].by = r
                           /\ edit'[r].audio => document'[r][act].at >= current'.at
      BY <1>3 DEF Merged
    <3>1. row = store[Playback] /\ current' = current
      BY <1>a, <1>3, ReadCurrent DEF Merged, RowStays
    <3>2. document'[r][act] =
            Resolve(store[Playback].doc, Requested(r), baseline[r], Changed(r))[act]
      BY <1>0, <1>3, <3>1 DEF Merged
    <3>3. document'[r][act] =
            IF /\ act \in Changed(r)
               /\ \/ current.by = NoWriter \/ Requested(r)[act].by = NoWriter
                  \/ Requested(r)[act].at >= current.at
              THEN Requested(r)[act] ELSE current
      BY <3>2, PlaybackMerge
    <3>4. CASE act \in edit[r].fields
      <4>1. Requested(r)[act].by = r /\ Requested(r)[act].at \in Nat
        BY <1>b, <1>d, <3>4
      <4> QED BY <1>c, <1>f, <3>1, <3>3, <4>1
    <3>5. CASE act \notin edit[r].fields
      <4>1. act \in Changed(r) => Requested(r)[act].by = Alias
        BY <1>d, <1>e, <3>5 DEF Changed
      <4> QED BY <3>1, <3>3, <4>1
    <3> QED BY <3>4, <3>5
  <2> QED BY <2>1, <2>2 DEF PlaybackHeld
<1>4. CASE Hydrate(r)
  <2>1. UNCHANGED <<opState, versions>> /\ ~Writing(r, Playback)
    BY <1>0, <1>4, NotSavingYet DEF Hydrate
  <2>2. copying'[r] \/ UNCHANGED <<baseline, copying>>
    BY <1>4 DEF Hydrate, TypeOK, LoadTyped
  <2>3. pc'[r] = "handling" BY <1>4 DEF Hydrate, TypeOK, LoadTyped
  <2> QED BY <1>0, <1>a, <2>1, <2>2, <2>3 DEF PlaybackHeld, Writing, RowStays
<1>5. CASE HydrateUnavailable(r)
  <2>1. UNCHANGED opState /\ ~Writing(r, Playback)
    BY <1>0, <1>5, NotSavingYet
  <2>2. pc'[r] = "handling" /\ baseline'[r] = Blank /\ versions'[r][Playback] = 0
    BY <1>0, <1>5 DEF HydrateUnavailable, TypeOK, LoadTyped
  <2>3. store[Playback].version = 0 => store[Playback].doc = Blank
    BY <1>0 DEF RowInv, BlankRows
  <2> QED BY <1>a, <2>1, <2>2, <2>3 DEF PlaybackHeld, Writing, RowStays
<1>6. ASSUME NEW change \in Edits, NEW at \in Times, Handle(r, change, at)
      PROVE  PlaybackHeld(r)'
  <2>1. UNCHANGED opState /\ ~Writing(r, Playback) BY <1>0, <1>6, NotSavingYet
  <2>2. UNCHANGED <<loadVars, readVars>> BY <1>6 DEF Handle
  <2>3. eventAt'[r] = at BY <1>6 DEF Handle, TypeOK, LoadTyped
  <2>4. edit'[r] = IF change.audio /\ act \in change.fields
                      /\ ~AcceptsEvent(baseline[r][act], at)
                     THEN NoEdit ELSE change
    BY <1>6 DEF Handle, TypeOK, LoadTyped
  <2>5. Accepts' BY <2>2, <2>3, <2>4 DEF readVars, NoEdit
  <2> QED BY <1>0, <1>a, <2>1, <2>2, <2>5
          DEF PlaybackHeld, Writing, loadVars, readVars, RowStays
<1>7. CASE BeginSave(r)
  <2>1. /\ document'[r] = Requested(r) /\ opState[r][Playback] = "none"
        /\ pc[r] = "handled"
        /\ UNCHANGED <<rows, loadVars, readVars, editVars>>
    BY <1>0, <1>7, BegunSave
  <2>2. Accepts' BY <1>0, <2>1 DEF readVars, editVars
  <2>3. Held'
    <3> SUFFICES ASSUME versions[r][Playback] = store[Playback].version
                 PROVE  /\ ~copying[r] => baseline[r][act] = current
                        /\ \/ document'[r][act] = current
                           \/ document'[r][act].by = Alias
                           \/ /\ document'[r][act].by = r
                              /\ edit[r].audio => document'[r][act].at >= current.at
      BY <2>1 DEF rows, loadVars, readVars, editVars
    <3>1. ~copying[r] => baseline[r][act] = current BY <1>0, <2>1
    <3>2. CASE act \notin edit[r].fields
      BY <1>d, <1>e, <2>1, <3>1, <3>2
    <3>3. CASE act \in edit[r].fields /\ copying[r]
      <4>1. store[Playback].version = 0 BY <1>0, <2>1, <3>3 DEF AliasHeld
      <4>2. current.at = 0
        <5>1. store[Playback].doc = Blank BY <1>0, <4>1 DEF RowInv, BlankRows
        <5>2. Blank[act] = NoPlayback BY DEF Blank, DefaultFor
        <5> QED BY <5>1, <5>2 DEF NoPlayback
      <4> QED BY <1>b, <1>d, <2>1, <3>1, <3>3, <4>2
    <3>4. CASE act \in edit[r].fields /\ ~copying[r]
      <4>1. edit[r].audio => current.at = 0 \/ eventAt[r] >= current.at
        BY <1>0, <2>1, <3>1, <3>4 DEF AcceptsEvent
      <4> QED BY <1>b, <1>d, <2>1, <3>1, <3>4, <4>1
    <3> QED BY <3>2, <3>3, <3>4
  <2> QED BY <2>2, <2>3 DEF PlaybackHeld
<1> QED BY <1>0, <1>1, <1>2, <1>3, <1>4, <1>5, <1>6, <1>7, HeldStep

\* A write of PLAYBACK by an AudioPlayer event leaves a later or equal time.
LEMMA PlaybackStep ==
  ASSUME "activePlayback" \in Fields, Playback \in LastingScopes,
         TypeOK, CommitInv, RowInv, AliasInv, PlaybackInv, [Next]_vars,
         NEW r \in Requests
  PROVE  LET before == store[Playback].doc["activePlayback"]
             after  == store'[Playback].doc["activePlayback"] IN
         (after # before /\ after.by = r /\ edit[r].audio) => after.at >= before.at
<1>1. Playback \in Scopes /\ ScopeFor("activePlayback") = Playback BY PlaybackScope
<1>2. CASE RowStays(Playback) BY <1>2 DEF RowStays
<1>3. ASSUME NEW q \in Requests, RowWritten(q, Playback)
      PROVE  LET before == store[Playback].doc["activePlayback"]
                 after  == store'[Playback].doc["activePlayback"] IN
             (after # before /\ after.by = r /\ edit[r].audio) => after.at >= before.at
  <2> DEFINE before == store[Playback].doc["activePlayback"]
             after  == store'[Playback].doc["activePlayback"]
             mine   == document[q]["activePlayback"]
  <2>1. after = mine \/ after = before
    BY <1>1, <1>3, RowAfterVersion DEF RowWritten
  <2>2. \/ mine = before
        \/ mine.by = Alias
        \/ mine.by = q /\ (edit[q].audio => mine.at >= before.at)
    BY <1>3 DEF RowWritten, PlaybackInv, PlaybackHeld
  <2>3. r # Alias BY DocumentAssumption
  <2> HIDE DEF before, after, mine
  <2>4. (after # before /\ after.by = r /\ edit[r].audio) => after.at >= before.at
    BY <2>1, <2>2, <2>3
  <2> QED BY <2>4 DEF before, after
<1> QED BY <1>2, <1>3, VersionsGrow

-----------------------------------------------------------------------------
(* playHistory *)

LEMMA HistoryScope ==
  ASSUME "playHistory" \in Fields
  PROVE  /\ ScopeFor("playHistory") = Cache /\ Cache \in Scopes
         /\ "playHistory" \in FieldsOf(Cache)
         /\ Blank["playHistory"] = {}
<1>1. ScopeFor("playHistory") = Cache
  BY DEF ScopeFor, Core, Playback, Dialog, Cache
<1> QED BY <1>1, FieldOfItsScope DEF Blank, DefaultFor

\* A request adds its play to the history it loaded, and a merge adds what it
\* loaded and its own play to the latest history.
LEMMA HistoryRequested ==
  ASSUME NEW r \in Requests, "playHistory" \in Fields
  PROVE  Requested(r)["playHistory"] =
           IF "playHistory" \in edit[r].fields THEN baseline[r]["playHistory"] \cup {r}
                                               ELSE baseline[r]["playHistory"]
BY DEF Requested, NewValue

LEMMA HistoryMerge ==
  ASSUME NEW latest, NEW requested, NEW original, NEW changed, "playHistory" \in Fields,
         original["playHistory"] \subseteq requested["playHistory"]
  PROVE  LET merged == Resolve(latest, requested, original, changed)["playHistory"] IN
         /\ latest["playHistory"] \subseteq merged
         /\ "playHistory" \in changed => requested["playHistory"] \subseteq merged
<1>1. \A a, b, c : ResolveField("playHistory", a, b, c) = (b \cup a) \ (c \ b)
  BY DEF ResolveField, MergeCollection
<1> QED BY <1>1 DEF Resolve

LEMMA HistoryInit ==
  ASSUME "playHistory" \in Fields PROVE Init => HistoryInv
<1> SUFFICES ASSUME Init PROVE HistoryInv OBVIOUS
<1>1. Cache \in Scopes BY HistoryScope
<1>2. \A r \in Requests : /\ opState[r][Cache] = "none" /\ versions[r][Cache] = 0
                          /\ landed[r] = {}
  BY <1>1 DEF Init, Items
<1>3. store[Cache] = StartRow(Cache) BY <1>1 DEF Init
<1>4. StartRow(Cache).version = 0 => StartRow(Cache).doc["playHistory"] = {}
  BY HistoryScope DEF StartRow, Absent
<1> QED BY <1>2, <1>3, <1>4 DEF HistoryInv, HistoryHeld, HistoryKeepsAdds, Writing

\* A write of CACHE loses no play of the history it replaces, and adds the play
\* of the request that writes it.
LEMMA HistoryWritten ==
  ASSUME TypeOK, HistoryInv, NEW q \in Requests, RowWritten(q, Cache),
         "playHistory" \in Fields
  PROVE  /\ store[Cache].doc["playHistory"] \subseteq store'[Cache].doc["playHistory"]
         /\ "playHistory" \in edit[q].fields => q \in store'[Cache].doc["playHistory"]
<1>1. /\ Cache \in Scopes /\ ScopeFor("playHistory") = Cache BY HistoryScope
<1>2. store'[Cache].doc["playHistory"] =
        IF versions[q][Cache] = 0 \/ "playHistory" \in Changed(q)
          THEN document[q]["playHistory"] ELSE store[Cache].doc["playHistory"]
  BY <1>1, RowAfterVersion DEF RowWritten
<1>3. store[Cache].doc["playHistory"] \subseteq document[q]["playHistory"]
  BY DEF HistoryInv, HistoryHeld, RowWritten
<1>4. "playHistory" \in edit[q].fields =>
        q \in document[q]["playHistory"] /\ "playHistory" \in Changed(q)
  BY DEF HistoryInv, HistoryHeld, RowWritten, Changed
<1> QED BY <1>2, <1>3, <1>4

\* A play that is stored stays stored.
LEMMA HistoryKept ==
  ASSUME "playHistory" \in Fields, Cache \in LastingScopes,
         TypeOK, CommitInv, RowInv, HistoryInv, [Next]_vars
  PROVE  HistoryKeepsAdds'
<1> SUFFICES ASSUME NEW r \in Requests, Cache \in landed'[r],
                    "playHistory" \in edit'[r].fields
             PROVE  r \in store'[Cache].doc["playHistory"]
  BY DEF HistoryKeepsAdds
<1>1. Cache \in Scopes BY HistoryScope
<1>2. edit'[r] = edit[r] BY <1>1, LandedStep DEF EditKept
<1>3. store[Cache].doc["playHistory"] \subseteq store'[Cache].doc["playHistory"]
  BY VersionsGrow, HistoryWritten DEF RowStays
<1>4. CASE Cache \in landed[r]
  BY <1>2, <1>3, <1>4 DEF HistoryInv, HistoryKeepsAdds
<1>5. CASE Cache \notin landed[r]
  <2>1. Writing(r, Cache) /\ (Skipped(r, Cache) \/ RowWritten(r, Cache))
    BY <1>1, <1>5, LandedStep
  <2>2. r \in document[r]["playHistory"]
    BY <1>2, <2>1 DEF HistoryInv, HistoryHeld
  <2>3. ~Skipped(r, Cache)
    <3>1. "playHistory" \in FieldsOf(Cache) /\ DefaultFor("playHistory") = {}
      BY HistoryScope DEF DefaultFor
    <3> QED BY <2>2, <3>1 DEF Skipped
  <2> QED BY <1>2, <2>1, <2>3, HistoryWritten
<1> QED BY <1>4, <1>5

\* Every step keeps what a request holds of the current history at least as
\* large as the history, and with its own play.
LEMMA HistoryNext ==
  ASSUME "playHistory" \in Fields, Cache \in LastingScopes
  PROVE  TypeOK /\ CommitInv /\ RowInv /\ HistoryInv /\ [Next]_vars => HistoryInv'
<1> SUFFICES ASSUME TypeOK, CommitInv, RowInv, HistoryInv, [Next]_vars,
                    NEW r \in Requests
             PROVE  HistoryHeld(r)'
  BY HistoryKept DEF HistoryInv
<1> DEFINE plays   == "playHistory"
           current == store[Cache].doc[plays]
<1>0. /\ Cache \in Scopes /\ plays \in FieldsOf(Cache) /\ HistoryHeld(r)
      /\ Blank[plays] = {}
  BY HistoryScope DEF HistoryInv
<1>a. (versions'[r][Cache] = store'[Cache].version) => RowStays(Cache)
  BY LeftBehind
<1>b. Requested(r)[plays] = IF plays \in edit[r].fields THEN baseline[r][plays] \cup {r}
                                                        ELSE baseline[r][plays]
  BY HistoryRequested
<1>c. EditKept(r) => Changed(r)' = Changed(r) BY DEF EditKept, Changed
<1>1. CASE Kept(r, Cache)
  BY <1>0, <1>a, <1>1 DEF HistoryHeld, Kept, EditKept, RowStays
<1>2. ASSUME NEW row, Readable(Cache, row), Loaded(r, Cache, row)
      PROVE  HistoryHeld(r)'
  <2>1. ~Writing(r, Cache)'
    BY <1>0, <1>2, NoOperationYet DEF Loaded, Writing
  <2>2. row.version = store[Cache].version => row = store[Cache]
    BY <1>2, ReadCurrent
  <2> QED BY <1>0, <1>a, <1>2, <2>1, <2>2 DEF HistoryHeld, Loaded, RowStays
<1>3. ASSUME NEW row, Readable(Cache, row), Merged(r, Cache, row)
      PROVE  HistoryHeld(r)'
  <2>1. /\ row.doc[plays] \subseteq document'[r][plays]
        /\ plays \in edit[r].fields => r \in document'[r][plays]
    <3>1. document'[r][plays] =
            Resolve(row.doc, Requested(r), baseline[r], Changed(r))[plays]
      BY <1>0, <1>3 DEF Merged
    <3>2. baseline[r][plays] \subseteq Requested(r)[plays] BY <1>b
    <3>3. /\ row.doc[plays] \subseteq document'[r][plays]
          /\ plays \in Changed(r) => Requested(r)[plays] \subseteq document'[r][plays]
      BY <3>1, <3>2, HistoryMerge
    <3> QED BY <1>b, <3>3 DEF Changed
  <2>2. row.version = store[Cache].version => row = store[Cache]
    BY <1>3, ReadCurrent
  <2> QED BY <1>0, <1>a, <1>3, <2>1, <2>2 DEF HistoryHeld, Merged, EditKept, RowStays
<1>4. CASE Hydrate(r)
  <2>1. UNCHANGED <<opState, versions, store>> /\ opState[r][Cache] = "none"
    BY <1>0, <1>4, NotSavingYet DEF Hydrate, rows
  <2>2. UNCHANGED baseline \/ versions[r][Cache] = 0
    BY <1>0, <1>4 DEF Hydrate, TypeOK, LoadTyped
  <2>3. store[Cache].version = 0 => current = {}
    BY <1>0 DEF RowInv, BlankRows
  <2> QED BY <1>0, <2>1, <2>2, <2>3 DEF HistoryHeld, Writing
<1>5. CASE HydrateUnavailable(r)
  <2>1. UNCHANGED <<opState, store>> /\ opState[r][Cache] = "none"
    BY <1>0, <1>5, NotSavingYet DEF HydrateUnavailable, rows
  <2>2. versions'[r][Cache] = 0
    BY <1>0, <1>5 DEF HydrateUnavailable, TypeOK, LoadTyped
  <2>3. store[Cache].version = 0 => current = {}
    BY <1>0 DEF RowInv, BlankRows
  <2> QED BY <1>0, <2>1, <2>2, <2>3 DEF HistoryHeld, Writing
<1>6. CASE \E change \in Edits, at \in Times : Handle(r, change, at)
  <2>1. opState[r][Cache] = "none" /\ UNCHANGED opState BY <1>0, <1>6, NotSavingYet
  <2> QED BY <1>0, <1>6, <2>1 DEF HistoryHeld, Writing, Handle, readVars, rows
<1>7. CASE BeginSave(r)
  <2>1. /\ document'[r] = Requested(r) /\ opState[r][Cache] = "none"
        /\ UNCHANGED <<rows, loadVars, readVars, editVars>>
    BY <1>0, <1>7, BegunSave
  <2>2. baseline[r][plays] \subseteq Requested(r)[plays] BY <1>b
  <2> QED BY <1>0, <1>b, <2>1, <2>2 DEF HistoryHeld, rows, readVars, editVars
<1> QED BY <1>0, <1>1, <1>2, <1>3, <1>4, <1>5, <1>6, <1>7, HeldStep

-----------------------------------------------------------------------------
(* playCount *)

LEMMA CountScope ==
  ASSUME "playCount" \in Fields
  PROVE  ScopeFor("playCount") = Core /\ Core \in Scopes /\ "playCount" \in FieldsOf(Core)
<1>1. ScopeFor("playCount") = Core BY DEF ScopeFor
<1> QED BY <1>1, FieldOfItsScope

LEMMA CountIsNat ==
  ASSUME NEW doc, IsDocument(doc), "playCount" \in Fields
  PROVE  doc["playCount"] \in Nat
BY DEF IsDocument, ValuesOf

\* A request counts one play on top of what it loaded, and a merge counts it
\* on top of the latest count instead.
LEMMA CountRequested ==
  ASSUME NEW r \in Requests, "playCount" \in Fields
  PROVE  Requested(r)["playCount"] =
           IF "playCount" \in edit[r].fields THEN baseline[r]["playCount"] + 1
                                             ELSE baseline[r]["playCount"]
BY DEF Requested, NewValue

LEMMA CountMerge ==
  ASSUME NEW latest, NEW requested, NEW original, NEW changed, "playCount" \in Fields
  PROVE  Resolve(latest, requested, original, changed)["playCount"] =
           IF "playCount" \in changed
             THEN MergeCounter(latest["playCount"], requested["playCount"],
                               original["playCount"])
             ELSE latest["playCount"]
BY DEF Resolve, ResolveField

\* Counted requests are finitely many.
LEMMA CountedFinite == IsFiniteSet(Counted) /\ Cardinality(Counted) \in Nat
<1>1. Counted \subseteq Requests BY DEF Counted
<1>2. IsFiniteSet(Counted) BY <1>1, DocumentAssumption, FS_Subset
<1> QED BY <1>2, FS_CardinalityType

LEMMA CountInit ==
  ASSUME "playCount" \in Fields, StartCount > 0
  PROVE  Init => CountInv
<1> SUFFICES ASSUME Init PROVE CountInv OBVIOUS
<1>1. Core \in Scopes BY CountScope
<1>2. Core \in StartScopes BY StoreAssumption
<1>3. /\ store[Core] = StartRow(Core) /\ past[Core] = {}
  BY <1>1 DEF Init
<1>4. StartRow(Core).version = 1 /\ StartRow(Core).doc["playCount"] = StartCount
  BY <1>2 DEF StartRow
<1>5. CoreIsCounted BY <1>3, <1>4 DEF CoreIsCounted
<1>6. \A r \in Requests : CountHeld(r)
  BY <1>1, <1>3, <1>4 DEF Init, CountHeld, Writing, Items
<1>7. CountExact
  <2>1. Counted = {} BY DEF Init, Counted
  <2>2. Cardinality(Counted) = 0 BY <2>1, FS_EmptySet
  <2> QED BY <1>3, <1>4, <2>2, DocumentAssumption DEF CountExact, BaseCount
<1> QED BY <1>5, <1>6, <1>7 DEF CountInv

\* A write of CORE adds the play of its request to the current count.
LEMMA CountWritten ==
  ASSUME TypeOK, CountInv, NEW q \in Requests, RowWritten(q, Core), "playCount" \in Fields
  PROVE  /\ store'[Core].version > 0
         /\ store'[Core].doc["playCount"] =
              IF "playCount" \in edit[q].fields THEN store[Core].doc["playCount"] + 1
                                                ELSE store[Core].doc["playCount"]
<1>1. Core \in Scopes /\ ScopeFor("playCount") = Core BY CountScope
<1>2. store'[Core] = RowAfter(q, Core) /\ store[Core].version = versions[q][Core]
  BY DEF RowWritten
<1>3. /\ store'[Core].version = versions[q][Core] + 1 /\ versions[q][Core] \in Nat
      /\ store'[Core].doc["playCount"] =
           IF versions[q][Core] = 0 \/ "playCount" \in Changed(q)
             THEN document[q]["playCount"] ELSE store[Core].doc["playCount"]
  BY <1>1, <1>2, RowAfterVersion
<1>4. document[q]["playCount"] =
        IF "playCount" \in edit[q].fields THEN store[Core].doc["playCount"] + 1
                                          ELSE store[Core].doc["playCount"]
  BY DEF CountInv, CountHeld, RowWritten
<1>5. "playCount" \in edit[q].fields => "playCount" \in Changed(q) BY DEF Changed
<1> QED BY <1>3, <1>4, <1>5

\* CORE rows stay counted.
LEMMA CoreStaysCounted ==
  ASSUME "playCount" \in Fields, Core \in LastingScopes,
         TypeOK, CommitInv, RowInv, CountInv, [Next]_vars
  PROVE  CoreIsCounted'
<1>1. \A row \in past[Core] \cup {store[Core]} :
        row.version > 0 /\ row.doc["playCount"] > 0
  BY DEF CountInv, CoreIsCounted
<1>2. CASE RowStays(Core) BY <1>1, <1>2 DEF CoreIsCounted, RowStays
<1>3. ASSUME NEW q \in Requests, RowWritten(q, Core) PROVE CoreIsCounted'
  <2>1. past'[Core] \subseteq past[Core] \cup {store[Core]} BY <1>3 DEF RowWritten
  <2>2. store[Core].doc["playCount"] \in Nat
    BY CountScope, CountIsNat DEF TypeOK, RowsTyped, IsRow
  <2>3. store'[Core].version > 0 /\ store'[Core].doc["playCount"] > 0
    BY <1>1, <1>3, <2>2, CountWritten
  <2> QED BY <1>1, <2>1, <2>3 DEF CoreIsCounted
<1> QED BY <1>2, <1>3, VersionsGrow

\* Exactly the requests whose CORE write takes effect are counted.
LEMMA CountStaysExact ==
  ASSUME "playCount" \in Fields, Core \in LastingScopes,
         TypeOK, CommitInv, RowInv, CountInv, [Next]_vars
  PROVE  CountExact'
<1>0. Core \in Scopes BY CountScope
<1>1. /\ store[Core].version > 0
      /\ store[Core].doc["playCount"] = BaseCount + Cardinality(Counted)
  BY <1>0 DEF CountInv, CoreIsCounted, CountExact
<1>2. ASSUME NEW p \in Requests, Core \in landed'[p], Core \notin landed[p]
      PROVE  RowWritten(p, Core)
  <2>1. Writing(p, Core) /\ (Skipped(p, Core) \/ RowWritten(p, Core))
    BY <1>0, <1>2, LandedStep
  <2>2. available[p] BY <2>1 DEF Writing, CountInv, CountHeld
  <2>3. versions[p][Core] > 0 BY <2>2 DEF CountInv, CountHeld
  <2> QED BY <2>1, <2>3 DEF Skipped
<1>3. \A p \in Requests : /\ landed[p] \subseteq landed'[p]
                          /\ landed'[p] # {} => edit'[p] = edit[p]
  BY <1>0, LandedStep DEF EditKept
<1>4. CASE RowStays(Core)
  <2>1. \A p \in Requests : Core \in landed'[p] <=> Core \in landed[p]
    <3>1. ASSUME NEW p \in Requests, RowWritten(p, Core) PROVE FALSE
      BY <1>0, <1>4, <3>1, RowAfterVersion DEF RowWritten, RowStays
    <3> QED BY <1>2, <1>3, <3>1
  <2>2. Counted' = Counted BY <1>3, <2>1 DEF Counted
  <2> QED BY <1>1, <1>4, <2>2 DEF CountExact, RowStays, BaseCount
<1>5. ASSUME NEW q \in Requests, RowWritten(q, Core) PROVE CountExact'
  <2>1. \A p \in Requests \ {q} : Core \in landed'[p] <=> Core \in landed[p]
    <3>1. ASSUME NEW p \in Requests \ {q}, RowWritten(p, Core) PROVE FALSE
      <4>1. opState'[q] = opState[q] BY <3>1 DEF RowWritten
      <4> QED BY <1>5, <4>1 DEF RowWritten, Writing
    <3> QED BY <1>2, <1>3, <3>1
  <2>2. Core \notin landed[q] /\ Core \in landed'[q] BY <1>5 DEF RowWritten
  <2>3. q \notin Counted BY <2>2 DEF Counted
  <2>4. edit'[q] = edit[q] BY <1>3, <2>2
  <2>5. /\ store'[Core].version > 0
        /\ store'[Core].doc["playCount"] =
             IF "playCount" \in edit[q].fields THEN store[Core].doc["playCount"] + 1
                                               ELSE store[Core].doc["playCount"]
    BY <1>5, CountWritten
  <2>6. BaseCount \in Nat /\ Cardinality(Counted) \in Nat
    BY CountedFinite, DocumentAssumption DEF BaseCount
  <2>7. CASE "playCount" \in edit[q].fields
    <3>1. Counted' = Counted \cup {q} BY <1>3, <2>1, <2>2, <2>4, <2>7 DEF Counted
    <3>2. Cardinality(Counted') = Cardinality(Counted) + 1
      BY <2>3, <3>1, CountedFinite, FS_AddElement
    <3> QED BY <1>1, <2>5, <2>6, <2>7, <3>2 DEF CountExact, BaseCount
  <2>8. CASE "playCount" \notin edit[q].fields
    <3>1. Counted' = Counted BY <1>3, <2>1, <2>2, <2>4, <2>8 DEF Counted
    <3> QED BY <1>1, <2>5, <2>8, <3>1 DEF CountExact, BaseCount
  <2> QED BY <2>7, <2>8
<1> QED BY <1>4, <1>5, VersionsGrow

\* Every step keeps what a request holds of the current count up to date.
LEMMA CountNext ==
  ASSUME "playCount" \in Fields, Core \in LastingScopes
  PROVE  TypeOK /\ CommitInv /\ RowInv /\ CountInv /\ [Next]_vars => CountInv'
<1> SUFFICES ASSUME TypeOK, CommitInv, RowInv, CountInv, [Next]_vars,
                    NEW r \in Requests
             PROVE  CountHeld(r)'
  BY CoreStaysCounted, CountStaysExact DEF CountInv
<1> DEFINE count   == "playCount"
           current == store[Core].doc[count]
<1>0. Core \in Scopes /\ count \in FieldsOf(Core) /\ CountHeld(r)
  BY CountScope DEF CountInv
<1>a. (versions'[r][Core] = store'[Core].version) => RowStays(Core)
  BY LeftBehind
<1>b. Requested(r)[count] = IF count \in edit[r].fields THEN baseline[r][count] + 1
                                                        ELSE baseline[r][count]
  BY CountRequested
<1>c. \A row : Readable(Core, row) => row.version > 0 /\ row.doc[count] > 0
  BY ReadableIsOrdered DEF CountInv, CoreIsCounted
<1>d. \A row : Readable(Core, row) /\ row.version = store[Core].version => row = store[Core]
  BY ReadCurrent
<1>e. store[Core].version > 0 BY DEF CountInv, CoreIsCounted
<1>f. current \in Nat /\ baseline[r][count] \in Nat
  BY <1>0, CountIsNat DEF TypeOK, RowsTyped, IsRow, LoadTyped
<1>1. CASE Kept(r, Core)
  BY <1>0, <1>a, <1>1 DEF CountHeld, Kept, EditKept, RowStays
<1>2. ASSUME NEW row, Readable(Core, row), Loaded(r, Core, row)
      PROVE  CountHeld(r)'
  <2>1. ~Writing(r, Core)' /\ opState'[r][Core] = "none"
    BY <1>0, <1>2, NoOperationYet DEF Loaded, Writing
  <2> QED BY <1>0, <1>a, <1>c, <1>d, <1>2, <2>1
          DEF CountHeld, Loaded, EditKept, RowStays
<1>3. ASSUME NEW row, Readable(Core, row), Merged(r, Core, row)
      PROVE  CountHeld(r)'
  <2>1. available[r] /\ baseline[r][count] > 0
    BY <1>0, <1>3 DEF CountHeld, Merged
  <2>2. row.version = store[Core].version =>
          document'[r][count] = IF count \in edit[r].fields THEN current + 1 ELSE current
    <3> SUFFICES ASSUME row.version = store[Core].version
                 PROVE  document'[r][count] =
                          IF count \in edit[r].fields THEN current + 1 ELSE current
      OBVIOUS
    <3>1. row = store[Core] BY <1>d, <1>3
    <3>2. document'[r][count] =
            Resolve(store[Core].doc, Requested(r), baseline[r], Changed(r))[count]
      BY <1>0, <1>3, <3>1 DEF Merged
    <3>3. document'[r][count] =
            IF count \in Changed(r)
              THEN MergeCounter(current, Requested(r)[count], baseline[r][count])
              ELSE current
      BY <3>2, CountMerge
    <3>4. Changed(r) = edit[r].fields BY <1>0 DEF CountHeld, Changed
    <3>5. MergeCounter(current, baseline[r][count] + 1, baseline[r][count]) = current + 1
      BY <1>f, <2>1, CounterDelta
    <3> QED BY <1>b, <3>3, <3>4, <3>5
  <2>3. EditKept(r) /\ pc'[r] = pc[r] /\ available'[r] = available[r]
        /\ opState'[r][Core] = "pending" /\ versions'[r][Core] = row.version
        /\ baseline'[r] = baseline[r]
    BY <1>3 DEF Merged
  <2>4. row.version > 0 BY <1>c, <1>3
  <2> QED BY <1>0, <1>a, <2>1, <2>2, <2>3, <2>4 DEF CountHeld, EditKept, RowStays
<1>4. CASE Hydrate(r)
  <2>1. /\ UNCHANGED <<opState, versions, store>>
        /\ opState[r][Core] = "none" /\ ~Writing(r, Core)
    BY <1>0, <1>4, NotSavingYet DEF Hydrate, rows
  <2>2. pc[r] = "loading" /\ Core \in seen[r] BY <1>0, <1>4 DEF Hydrate
  <2>3. versions[r][Core] > 0 /\ baseline[r][count] > 0 BY <1>0, <2>2 DEF CountHeld
  <2>4. UNCHANGED <<baseline, copying>> BY <1>0, <1>4, <2>3 DEF Hydrate
  <2>5. pc'[r] = "handling" /\ available'[r] = TRUE
    BY <1>4 DEF Hydrate, TypeOK, LoadTyped
  <2> QED BY <1>0, <2>1, <2>3, <2>4, <2>5 DEF CountHeld, Writing
<1>5. CASE HydrateUnavailable(r)
  <2>1. /\ UNCHANGED <<opState, store, available, copying>>
        /\ opState[r][Core] = "none"
    BY <1>0, <1>5, NotSavingYet DEF HydrateUnavailable, rows, loadVars
  <2>2. versions'[r][Core] = 0 /\ pc[r] = "loading" /\ pc'[r] = "handling"
    BY <1>0, <1>5 DEF HydrateUnavailable, TypeOK, LoadTyped
  <2>3. ~available[r] BY <1>0, <2>2 DEF CountHeld
  <2> QED BY <1>0, <1>e, <2>1, <2>2, <2>3 DEF CountHeld
<1>6. ASSUME NEW change \in Edits, NEW at \in Times, Handle(r, change, at)
      PROVE  CountHeld(r)'
  <2>1. opState[r][Core] = "none" /\ UNCHANGED opState BY <1>0, <1>6, NotSavingYet
  <2>2. pc[r] = "handling" /\ pc'[r] = "handled"
    BY <1>6 DEF Handle, TypeOK, LoadTyped
  <2>3. UNCHANGED <<rows, loadVars, readVars>> BY <1>6 DEF Handle
  <2> QED BY <1>0, <2>1, <2>2, <2>3 DEF CountHeld, Writing, loadVars, readVars, rows
<1>7. CASE BeginSave(r)
  <2>1. /\ document'[r] = Requested(r) /\ opState[r][Core] = "none" /\ available[r]
        /\ pc[r] = "handled" /\ pc'[r] = "saving"
        /\ UNCHANGED <<rows, loadVars, readVars, editVars>>
    BY <1>0, <1>7, BegunSave
  <2> QED BY <1>0, <1>b, <2>1 DEF CountHeld, rows, loadVars, readVars, editVars
<1> QED BY <1>0, <1>1, <1>2, <1>3, <1>4, <1>5, <1>6, <1>7, HeldStep

-----------------------------------------------------------------------------
(* What the rows hold *)

\* The invariants of the rows hold in every reachable state.
LEMMA RowInvariant == Spec => [](TypeOK /\ CommitInv /\ RowInv /\ AliasInv /\ PlainInv)
<1> DEFINE I == TypeOK /\ CommitInv /\ RowInv /\ AliasInv /\ PlainInv
<1>1. Init => I BY TypeInit, CommitInit, RowInit, AliasInit, PlainInit
<1>2. I /\ [Next]_vars => I' BY TypeNext, CommitNext, RowNext, AliasNext, PlainNext
<1> QED BY <1>1, <1>2, PTL DEF Spec

\* A write changes a plain field only to what a request put there: no stale
\* value returns over a newer one, for any number of requests, conflicts,
\* expiries and late writes (changed_fields and the per-field UpdateExpression).
THEOREM NoStaleValues == Spec => NoStaleOverwrite
<1> DEFINE I == TypeOK /\ CommitInv /\ RowInv /\ AliasInv /\ PlainInv
           Step == \A field \in Fields \cap PlainFields :
             LET before == store[ScopeFor(field)].doc[field]
                 after  == store'[ScopeFor(field)].doc[field] IN
             \/ after = before
             \/ after = NoWriter /\ store'[ScopeFor(field)].version = 0
             \/ \E r \in Requests :
                  /\ landed'[r] # landed[r]
                  /\ \/ field \in edit[r].fields /\ after = r
                     \/ copying[r] /\ after = Alias
<1>1. I /\ [Next]_vars => [Step]_vars BY NoStaleStep
<1>2. NoStaleOverwrite <=> [][Step]_vars BY DEF NoStaleOverwrite
<1> HIDE DEF Step
<1> QED BY <1>1, <1>2, RowInvariant, PTL DEF Spec

\* A request comes to hold a version only by reading a live row of that version.
LEMMA LiveStep ==
  ASSUME TypeOK, CommitInv, RowInv, [Next]_vars,
         NEW r \in Requests, NEW scope \in Scopes,
         versions'[r][scope] # versions[r][scope], versions'[r][scope] > 0
  PROVE  \E row \in Visible(scope) : row.version = versions'[r][scope] /\ ~row.expired
<1>1. ASSUME NEW row, Readable(scope, row), versions'[r][scope] = row.version
      PROVE  row \in Visible(scope) /\ ~row.expired
  BY <1>1 DEF Readable, Absent
<1>2. ~HydrateUnavailable(r) BY DEF HydrateUnavailable, TypeOK, LoadTyped
<1>3. ~Hydrate(r) /\ ~BeginSave(r) BY DEF Hydrate, BeginSave, readVars
<1>4. ~\E change \in Edits, at \in Times : Handle(r, change, at)
  BY DEF Handle, readVars
<1> QED BY <1>1, <1>2, <1>3, <1>4, HeldStep DEF Kept, Loaded, Merged

\* Neither loading nor a merge brings back an expired document, also when the
\* row expires, is deleted or is written again between the read, the
\* conditional delete and the second read (_live_scope_item).
THEOREM ExpiredRowsStayGone == Spec => ExpiredNeverRead
<1> DEFINE I == TypeOK /\ CommitInv /\ RowInv /\ AliasInv /\ PlainInv
           Step == \A r \in Requests, scope \in Scopes :
             (versions'[r][scope] # versions[r][scope] /\ versions'[r][scope] > 0)
               => \E row \in Visible(scope) :
                    row.version = versions'[r][scope] /\ ~row.expired
<1>1. I /\ [Next]_vars => [Step]_vars BY LiveStep
<1>2. ExpiredNeverRead <=> [][Step]_vars BY DEF ExpiredNeverRead
<1> HIDE DEF Step
<1> QED BY <1>1, <1>2, RowInvariant, PTL DEF Spec

\* While the PLAYBACK row lives, an AudioPlayer event never takes
\* activePlayback back to an earlier time.
THEOREM AudioEventsAdvance ==
  ASSUME "activePlayback" \in Fields, Playback \in LastingScopes
  PROVE  Spec => AudioEventNeverRegresses
<1> DEFINE I == TypeOK /\ CommitInv /\ RowInv /\ AliasInv /\ PlainInv
           Step == \A r \in Requests :
             LET before == store[Playback].doc["activePlayback"]
                 after  == store'[Playback].doc["activePlayback"] IN
             (after # before /\ after.by = r /\ edit[r].audio) => after.at >= before.at
<1>1. Init => PlaybackInv BY PlaybackInit
<1>2. I /\ PlaybackInv /\ [Next]_vars => PlaybackInv' BY PlaybackNext
<1>3. I /\ PlaybackInv /\ [Next]_vars => [Step]_vars BY PlaybackStep
<1>4. AudioEventNeverRegresses <=> [][Step]_vars BY DEF AudioEventNeverRegresses
<1> HIDE DEF Step
<1> QED BY <1>1, <1>2, <1>3, <1>4, RowInvariant, PTL DEF Spec

\* While the CACHE row lives, every play whose write took effect stays in
\* playHistory (DynamoConflictMerge.collection).
THEOREM HistoryKeepsPlays ==
  ASSUME "playHistory" \in Fields, Cache \in LastingScopes
  PROVE  Spec => []HistoryKeepsAdds
<1> DEFINE I == TypeOK /\ CommitInv /\ RowInv /\ AliasInv /\ PlainInv
<1>1. Init => HistoryInv BY HistoryInit
<1>2. I /\ HistoryInv /\ [Next]_vars => HistoryInv' BY HistoryNext
<1>3. HistoryInv => HistoryKeepsAdds BY DEF HistoryInv
<1> QED BY <1>1, <1>2, <1>3, RowInvariant, PTL DEF Spec

LEMMA CountInvariant ==
  ASSUME "playCount" \in Fields, StartCount > 0, Core \in LastingScopes
  PROVE  Spec => [](TypeOK /\ CommitInv /\ RowInv /\ CountInv)
<1> DEFINE I == TypeOK /\ CommitInv /\ RowInv /\ AliasInv /\ PlainInv
<1>1. Init => CountInv BY CountInit
<1>2. I /\ CountInv /\ [Next]_vars => CountInv' BY CountNext
<1> QED BY <1>1, <1>2, RowInvariant, PTL DEF Spec

\* While the CORE row lives, playCount is the earlier count plus one for every
\* request whose CORE write took effect, if the earlier count is positive: a
\* count loaded as 0 has no baseline and its delta is lost (MergeCounter).
THEOREM CountIsExact ==
  ASSUME "playCount" \in Fields, StartCount > 0, Core \in LastingScopes
  PROVE  Spec => []CountExact
<1>1. CountInv => CountExact BY DEF CountInv
<1> QED BY <1>1, CountInvariant, PTL

-----------------------------------------------------------------------------
(* The store implements ListenerCommits *)

LEMMA AnswerInit == Init => AnswerInv
<1> SUFFICES ASSUME Init, NEW r \in Requests PROVE AnsweredOnce(r)
  BY DEF AnswerInv
<1>1. Ops(r) = {} BY DEF Init, Ops
<1> QED BY <1>1 DEF Init, AnsweredOnce

\* Steps that neither move nor answer a request keep what it says.
LEMMA NotAnswered ==
  ASSUME AnswerInv, NEW r \in Requests, pc'[r] = pc[r], status'[r] = status[r],
         edit'[r] = edit[r], copying'[r] = copying[r], Ops(r)' = Ops(r)
  PROVE  AnsweredOnce(r)'
BY DEF AnswerInv, AnsweredOnce, NothingToSave, Changed

\* Marking operations of a request keeps its operations.
LEMMA MarkedOps ==
  ASSUME TypeOK, NEW q \in Requests, NEW items, items \subseteq Ops(q),
         NEW state \in {"pending", "reload", "saved", "failed", "late"},
         Mark(q, items, state), NEW r \in Requests
  PROVE  Ops(r)' = Ops(r)
<1>1. \A item \in Items : opState'[r][item] =
        IF q = r /\ item \in items THEN state ELSE opState[r][item]
  BY DEF Mark, TypeOK, SaveTyped
<1> QED BY <1>1 DEF Ops

LEMMA AnswerNext == TypeOK /\ CommitInv /\ AnswerInv /\ [Next]_vars => AnswerInv'
<1> SUFFICES ASSUME TypeOK, CommitInv, AnswerInv, [Next]_vars, NEW r \in Requests
             PROVE  AnsweredOnce(r)'
  BY DEF AnswerInv
<1>0. AnsweredOnce(r) BY DEF AnswerInv
<1>a. opState' = opState => Ops(r)' = Ops(r) BY DEF Ops
<1>1. CASE UNCHANGED vars
  BY <1>1, <1>a, NotAnswered DEF vars, loadVars, editVars, saveVars
<1>2. ASSUME NEW q \in Requests, NEW s \in Scopes, ReadScope(q, s) \/ DeleteExpired(q, s)
      PROVE  AnsweredOnce(r)'
  <2>1. UNCHANGED <<pc, status, edit, copying>>
    BY <1>2 DEF ReadScope, DeleteExpired, loadVars, editVars
  <2>2. \/ UNCHANGED opState
        \/ /\ Loading(q, s) \/ Reloading(q, s)
           /\ \E row : Receive(q, s, row)
    BY <1>2 DEF ReadScope, DeleteExpired
  <2>3. CASE UNCHANGED opState BY <1>a, <2>1, <2>3, NotAnswered
  <2>4. CASE opState' # opState
    <3>1. Mark(q, {s}, "pending") /\ ~Loading(q, s) BY <2>2, <2>4 DEF Receive
    <3>2. opState[q][s] = "reload" BY <2>2, <2>4, <3>1 DEF Reloading
    <3>3. {s} \subseteq Ops(q) BY <3>2 DEF Ops, Items
    <3> QED BY <2>1, <3>1, <3>3, MarkedOps, NotAnswered
  <2> QED BY <2>3, <2>4
<1>3. ASSUME NEW q \in Requests, Hydrate(q) \/ HydrateUnavailable(q)
      PROVE  AnsweredOnce(r)'
  <2>1. UNCHANGED <<opState, status, edit>>
    BY <1>3 DEF Hydrate, HydrateUnavailable, saveVars, editVars
  <2>2. CASE q = r
    <3>1. pc[r] = "loading" /\ pc'[r] = "handling"
      BY <1>3, <2>2 DEF Hydrate, HydrateUnavailable, TypeOK, LoadTyped
    <3>2. Ops(r) = {} BY <3>1 DEF CommitInv, RequestInv, NothingBeforeSave
    <3> QED BY <1>0, <1>a, <2>1, <3>1, <3>2 DEF AnsweredOnce
  <2>3. CASE q # r
    <3>1. pc'[r] = pc[r] /\ copying'[r] = copying[r]
      BY <1>3, <2>3 DEF Hydrate, HydrateUnavailable, loadVars, TypeOK, LoadTyped
    <3> QED BY <1>a, <2>1, <3>1, NotAnswered
  <2> QED BY <2>2, <2>3
<1>4. ASSUME NEW q \in Requests, NEW change \in Edits, NEW at \in Times,
             Handle(q, change, at)
      PROVE  AnsweredOnce(r)'
  <2>1. UNCHANGED <<opState, status, copying>> BY <1>4 DEF Handle, saveVars, loadVars
  <2>2. CASE q = r
    <3>1. /\ pc[r] = "handling" /\ pc'[r] = "handled"
          /\ edit'[r] \in {NoEdit, change}
      BY <1>4, <2>2 DEF Handle, TypeOK, LoadTyped
    <3>2. Ops(r) = {} BY <3>1 DEF CommitInv, RequestInv, NothingBeforeSave
    <3> QED BY <1>0, <1>a, <2>1, <3>1, <3>2 DEF AnsweredOnce
  <2>3. CASE q # r
    <3>1. pc'[r] = pc[r] /\ edit'[r] = edit[r]
      BY <1>4, <2>3 DEF Handle, TypeOK, LoadTyped
    <3> QED BY <1>a, <2>1, <3>1, NotAnswered
  <2> QED BY <2>2, <2>3
<1>5. ASSUME NEW q \in Requests, BeginSave(q) PROVE AnsweredOnce(r)'
  <2>1. UNCHANGED <<status, edit, copying>> /\ ~NothingToSave(q)
    BY <1>5 DEF BeginSave, editVars, loadVars
  <2>2. CASE q = r
    <3>1. pc[r] = "handled" /\ pc'[r] = "saving"
      BY <1>5, <2>2 DEF BeginSave, TypeOK, LoadTyped
    <3>2. ~NothingToSave(r)' BY <2>1, <2>2 DEF NothingToSave, Changed
    <3> QED BY <1>0, <2>1, <3>1, <3>2 DEF AnsweredOnce
  <2>3. CASE q # r
    <3>1. pc'[r] = pc[r] /\ opState'[r] = opState[r]
      BY <1>5, <2>3 DEF BeginSave, Mark, TypeOK, LoadTyped, SaveTyped
    <3>2. Ops(r)' = Ops(r) BY <3>1 DEF Ops
    <3> QED BY <2>1, <3>1, <3>2, NotAnswered
  <2> QED BY <2>2, <2>3
<1>6. ASSUME NEW q \in Requests, NEW item \in Items,
             \/ Save(q, item) \/ Reject(q, item) \/ Exhaust(q, item)
             \/ CallError(q, item) \/ LateWrite(q, item)
      PROVE  AnsweredOnce(r)'
  <2>1. UNCHANGED <<pc, status, edit, copying>>
    BY <1>6 DEF Save, Reject, Exhaust, CallError, LateWrite, loadVars, editVars
  <2>2. opState[q][item] # "none"
    BY <1>6 DEF Save, Reject, Exhaust, CallError, LateWrite, Ready
  <2>3. \E state \in {"reload", "saved", "failed", "late"} :
          Mark(q, CallOf(q, item), state)
    BY <1>6 DEF Save, Reject, Exhaust, CallError, LateWrite
  <2> QED BY <2>1, <2>2, <2>3, CallFacts, MarkedOps, NotAnswered
<1>7. ASSUME NEW q \in Requests, ReloadOutbox(q) PROVE AnsweredOnce(r)'
  <2>1. Mark(q, {Outbox}, "pending") BY <1>7 DEF ReloadOutbox
  <2>2. {Outbox} \subseteq Ops(q) BY <1>7 DEF ReloadOutbox, InState, Ops
  <2>3. UNCHANGED <<pc, status, edit, copying>>
    BY <1>7 DEF ReloadOutbox, loadVars, editVars
  <2> QED BY <2>1, <2>2, <2>3, MarkedOps, NotAnswered
<1>8. ASSUME NEW q \in Requests, SkipSave(q) \/ FinishSave(q) \/ SaveTimeout(q)
      PROVE  AnsweredOnce(r)'
  <2>1. UNCHANGED <<edit, copying>>
    BY <1>8 DEF SkipSave, FinishSave, SaveTimeout, loadVars, editVars
  <2>2. Ops(r)' = Ops(r)
    BY <1>8 DEF SkipSave, FinishSave, SaveTimeout, saveVars, Ops, TypeOK, SaveTyped
  <2>3. CASE q = r
    <3>1. pc[r] \in {"handled", "saving"} /\ pc'[r] = "done"
      BY <1>8, <2>3 DEF SkipSave, FinishSave, SaveTimeout, Done, TypeOK, LoadTyped
    <3> QED BY <1>0, <2>1, <2>2, <3>1 DEF AnsweredOnce, NothingToSave, Changed
  <2>4. CASE q # r
    <3>1. pc'[r] = pc[r] /\ status'[r] = status[r]
      BY <1>8, <2>4
         DEF SkipSave, FinishSave, SaveTimeout, Done, TypeOK, LoadTyped, SaveTyped
    <3> QED BY <2>1, <2>2, <3>1, NotAnswered
  <2> QED BY <2>3, <2>4
<1>9. ASSUME NEW s \in Scopes, Expire(s) \/ TimeToLiveDelete(s)
      PROVE  AnsweredOnce(r)'
  BY <1>9, <1>a, NotAnswered
     DEF Expire, TimeToLiveDelete, loadVars, editVars, saveVars
<1> QED
  BY <1>1, <1>2, <1>3, <1>4, <1>5, <1>6, <1>7, <1>8, <1>9 DEF Next, Proceed, Disturb

Applied == {r \in Requests : landed[r] # {}}

\* One call of an essential request is its whole commit: the request takes
\* effect, its play is counted and its events are handed over.
LEMMA LandingApplies ==
  ASSUME "playCount" \in Fields, Core \in LastingScopes, EssentialEdits,
         TypeOK, CommitInv, RowInv, CountInv, AnswerInv, [Next]_vars,
         NEW q \in Requests, NEW item \in Items, Save(q, item) \/ LateWrite(q, item)
  PROVE  Commits!Apply(q)
<1>0. RequestInv(q) /\ AnsweredOnce(q) /\ ~copying[q]
  BY DEF CommitInv, AnswerInv, CountInv, CountHeld
<1>1. /\ opState[q][item] \in {"pending", "late"} /\ Land(q, CallOf(q, item))
      /\ UNCHANGED <<status, edit>>
  BY DEF Save, LateWrite, Ready, editVars
<1>2. item \in Ops(q) /\ item \in CallOf(q, item)
  BY <1>1, CallFacts DEF Ops
<1>3. Essential(q)
  <2>1. ~NothingToSave(q) BY <1>0, <1>2 DEF AnsweredOnce
  <2>2. Changed(q) = edit[q].fields BY <1>0 DEF Changed
  <2>3. edit[q] \in Edits BY <1>0, <2>1, <2>2 DEF AnsweredOnce, NoEdit, NothingToSave
  <2> QED BY <2>1, <2>2, <2>3 DEF EssentialEdits, Essential, NothingToSave
<1>4. landed[q] = {}
  <2>1. item \notin landed[q]
    BY <1>0, <1>1 DEF RequestInv, LandedHasEnded, InState
  <2> QED BY <1>2, <1>3, <2>1, AllOrNothingHolds DEF AllOrNothing
<1>5. /\ landed'[q] # {}
      /\ \A r \in Requests \ {q} : landed'[r] = landed[r]
  BY <1>1, <1>2 DEF Land, TypeOK, SaveTyped
<1>6. Applied' = Applied \cup {q} BY <1>5 DEF Applied
<1>7. status[q] \notin {"saved", "unchanged"}
  <2>1. status[q] # "saved" BY <1>0, <1>1, <1>2 DEF RequestInv, StatusIsTrue
  <2>2. status[q] # "unchanged" BY <1>0, <1>2 DEF RequestInv, StatusIsTrue, AnsweredOnce
  <2> QED BY <2>1, <2>2
<1>8. \E events \in SUBSET Events : outbox' = outbox \cup events
  <2>1. unsent[q] \in SUBSET Events BY DEF TypeOK, SaveTyped
  <2>2. outbox' = outbox \cup unsent[q] \/ outbox' = outbox \cup {}
    BY <1>1 DEF Land
  <2> QED BY <2>1, <2>2
<1>9. /\ store[Core].version > 0 /\ store'[Core].version > 0
      /\ \E played \in {0, 1} :
           store'[Core].doc["playCount"] = store[Core].doc["playCount"] + played
  <2>1. /\ store[Core].version > 0
        /\ store[Core].doc["playCount"] \in Nat
    BY CountScope, CountIsNat DEF CountInv, CoreIsCounted, TypeOK, RowsTyped, IsRow
  <2>2. CASE RowStays(Core) BY <2>1, <2>2 DEF RowStays
  <2>3. ASSUME NEW r \in Requests, RowWritten(r, Core)
        PROVE  /\ store'[Core].version > 0
               /\ \/ store'[Core].doc["playCount"] = store[Core].doc["playCount"]
                  \/ store'[Core].doc["playCount"] = store[Core].doc["playCount"] + 1
    BY <2>3, CountWritten
  <2> QED BY <2>1, <2>2, <2>3, VersionsGrow
<1> QED
  BY <1>1, <1>4, <1>5, <1>6, <1>7, <1>8, <1>9
  DEF Commits!Apply, Applied

\* Plays are counted by a landing call only.
LEMMA NoPlayCounted ==
  ASSUME Core \in LastingScopes, TypeOK, CommitInv, RowInv, [Next]_vars, landed' = landed
  PROVE  store'[Core] = store[Core]
<1>1. \A r \in Requests : ~RowWritten(r, Core) BY DEF RowWritten
<1> QED BY <1>1, VersionsGrow DEF RowStays

\* The interceptor's return answers its request, and truly.
LEMMA DoneAnswers ==
  ASSUME Core \in LastingScopes, EssentialEdits,
         TypeOK, CommitInv, RowInv, CountInv, AnswerInv, [Next]_vars,
         NEW q \in Requests, SkipSave(q) \/ FinishSave(q) \/ SaveTimeout(q)
  PROVE  \E a \in Commits!Answers \ {"none"} : Commits!Answer(q, a)
<1>0. RequestInv(q) /\ AnsweredOnce(q)
  BY DEF CommitInv, AnswerInv
<1>1. UNCHANGED <<outbox, landed>> /\ pc[q] \in {"handled", "saving"}
  BY DEF SkipSave, FinishSave, SaveTimeout, rows
<1>2. store'[Core] = store[Core] BY <1>1, NoPlayCounted
<1>3. status[q] = "none" BY <1>0, <1>1 DEF AnsweredOnce
<1>4. PICK result \in {"unchanged", "load_unavailable", "deadline_exceeded",
                       "saved", "failed"} : Done(q, result)
  BY DEF SkipSave, FinishSave, SaveTimeout
<1>5. /\ status'[q] = result
      /\ \A r \in Requests \ {q} : status'[r] = status[r]
  BY <1>4 DEF Done, TypeOK, SaveTyped
<1>6. result = "saved" => q \in Applied
  <2> SUFFICES ASSUME result = "saved" PROVE q \in Applied OBVIOUS
  <2>1. FinishSave(q) /\ InState(q, "saved") = Ops(q)
    BY <1>5 DEF SkipSave, FinishSave, SaveTimeout, Done, TypeOK, SaveTyped
  <2>2. Ops(q) \subseteq landed[q] BY <1>0, <2>1 DEF RequestInv, LandedHasEnded
  <2>3. ~NothingToSave(q) BY <1>0, <2>1 DEF AnsweredOnce, FinishSave
  <2>4. Ops(q) # {}
    BY <1>0, <2>1, <2>3 DEF RequestInv, OpsCoverEdit, FinishSave, NothingToSave
  <2> QED BY <2>2, <2>4 DEF Applied
<1>7. result = "unchanged" => q \notin Applied
  <2> SUFFICES ASSUME result = "unchanged" PROVE q \notin Applied OBVIOUS
  <2>1. SkipSave(q)
    BY <1>5 DEF SkipSave, FinishSave, SaveTimeout, Done, TypeOK, SaveTyped
  <2>2. Ops(q) = {} BY <1>0, <2>1 DEF SkipSave, RequestInv, NothingBeforeSave
  <2>3. landed[q] \subseteq Ops(q)
    BY <1>0 DEF RequestInv, LandedHasEnded, InState, Ops
  <2> QED BY <2>2, <2>3 DEF Applied
<1> DEFINE a == IF result \in {"saved", "unchanged"} THEN result ELSE "refused"
<1>8. a \in Commits!Answers \ {"none"} BY DEF Commits!Answers
<1>9. Commits!Answer(q, a)
  BY <1>1, <1>2, <1>3, <1>4, <1>5, <1>6, <1>7 DEF Commits!Answer, Applied
<1> QED BY <1>8, <1>9

\* Every other step is invisible.
LEMMA OthersStutter ==
  ASSUME Core \in LastingScopes, TypeOK, CommitInv, RowInv, [Next]_vars,
         UNCHANGED <<outbox, status, landed>>
  PROVE  UNCHANGED Commits!vars
<1>1. store'[Core] = store[Core] BY NoPlayCounted
<1> QED BY <1>1 DEF Commits!vars

LEMMA CommitsStart ==
  ASSUME "playCount" \in Fields, StartCount > 0
  PROVE  Init => Commits!Init
<1> SUFFICES ASSUME Init PROVE Commits!Init OBVIOUS
<1>1. CountInv /\ BaseCount = StartCount BY CountInit DEF BaseCount
<1>2. store[Core].version > 0 /\ store[Core].doc["playCount"] = BaseCount
  <2>1. Counted = {} BY DEF Init, Counted
  <2>2. Cardinality(Counted) = 0 BY <2>1, FS_EmptySet
  <2> QED BY <1>1, <2>2, CountScope, DocumentAssumption
          DEF CountInv, CoreIsCounted, CountExact
<1> QED BY <1>2 DEF Init, Commits!Init

LEMMA CommitsStep ==
  ASSUME "playCount" \in Fields, Core \in LastingScopes, EssentialEdits,
         TypeOK, CommitInv, RowInv, CountInv, AnswerInv, [Next]_vars
  PROVE  [Commits!Next]_(Commits!vars)
<1> DEFINE Goal == [Commits!Next]_(Commits!vars)
<1>a. ASSUME UNCHANGED <<outbox, status, landed>> PROVE Goal
  BY <1>a, OthersStutter
<1>b. ASSUME NEW q \in Requests, Commits!Apply(q) PROVE Goal
  BY <1>b DEF Commits!Next
<1>c. ASSUME NEW q \in Requests, SkipSave(q) \/ FinishSave(q) \/ SaveTimeout(q)
      PROVE  Goal
  BY <1>c, DoneAnswers DEF Commits!Next
<1> HIDE DEF Goal
<1>1. CASE UNCHANGED vars BY <1>1, <1>a DEF vars, rows, Goal
<1>2. ASSUME NEW q \in Requests, Proceed(q) \/ Disturb(q) PROVE Goal
  <2>1. ASSUME NEW scope \in Scopes, ReadScope(q, scope) \/ DeleteExpired(q, scope)
        PROVE  Goal
    BY <1>a, <2>1 DEF ReadScope, DeleteExpired, rows
  <2>2. CASE Hydrate(q) \/ HydrateUnavailable(q)
    BY <1>a, <2>2 DEF Hydrate, HydrateUnavailable, rows
  <2>3. ASSUME NEW change \in Edits, NEW at \in Times, Handle(q, change, at) PROVE Goal
    BY <1>a, <2>3 DEF Handle, rows
  <2>4. CASE BeginSave(q) \/ ReloadOutbox(q)
    BY <1>a, <2>4 DEF BeginSave, ReloadOutbox, rows
  <2>5. ASSUME NEW item \in Items, Reject(q, item) \/ Exhaust(q, item) \/ CallError(q, item)
        PROVE  Goal
    BY <1>a, <2>5 DEF Reject, Exhaust, CallError, rows
  <2>6. ASSUME NEW item \in Items, Save(q, item) \/ LateWrite(q, item) PROVE Goal
    BY <1>b, <2>6, LandingApplies
  <2> QED BY <1>2, <1>c, <2>1, <2>2, <2>3, <2>4, <2>5, <2>6 DEF Proceed, Disturb
<1>3. ASSUME NEW scope \in Scopes, Expire(scope) \/ TimeToLiveDelete(scope) PROVE Goal
  BY <1>3, <1>a DEF Expire, TimeToLiveDelete
<1> QED BY <1>1, <1>2, <1>3 DEF Next, Goal

\* The store implements ListenerCommits: every request whose handler makes
\* essential changes takes effect in one moment or never, its play and its
\* events together, and is told "saved" only afterwards and "unchanged" only if
\* it never does, for any number of requests, conflicts, retries, timeouts and
\* late writes (_save_coupled, SavePersistenceInterceptor).
THEOREM StoreImplementsCommits ==
  ASSUME "playCount" \in Fields, StartCount > 0, Core \in LastingScopes, EssentialEdits
  PROVE  Spec => CommitsAtomically
<1> DEFINE I == TypeOK /\ CommitInv /\ RowInv /\ CountInv
<1>1. Init => Commits!Init BY CommitsStart
<1>2. I /\ AnswerInv /\ [Next]_vars => [Commits!Next]_(Commits!vars) BY CommitsStep
<1>3. Init => AnswerInv BY AnswerInit
<1>4. I /\ AnswerInv /\ [Next]_vars => AnswerInv' BY AnswerNext
<1>5. Spec => []I BY CountInvariant
<1> QED BY <1>1, <1>2, <1>3, <1>4, <1>5, PTL DEF Spec, CommitsAtomically, Commits!Spec

=============================================================================
