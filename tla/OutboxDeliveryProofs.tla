------------------------- MODULE OutboxDeliveryProofs -------------------------
(***************************************************************************)
(* Whatever fails, crashes or is repeated: every variable keeps its type,  *)
(* an item is marked SENT only after the queue accepted its envelope, an   *)
(* item that is gone never comes back, and the recovery delivers in time   *)
(* what the relay missed.                                                  *)
(***************************************************************************)
EXTENDS OutboxDelivery, TLAPS, FiniteSetTheorems

\* The inductive invariant.
Inv == TypeOK /\ DeliveryInv

\* The oldest of some events are among them.
LEMMA FirstAmong == ASSUME NEW n, NEW events PROVE First(n, events) \subseteq events
BY DEF First

\* A worker goes on marking the same item while others store theirs.
LEMMA MarkingStable ==
  ASSUME NEW w \in Workers, NEW e,
         todo'[w] = todo[w], step'[w] = step[w],
         \A d \in todo[w] : createdAt'[d] = createdAt[d],
         Marking(w, e)'
  PROVE  Marking(w, e)
<1> DEFINE Before == {d \in todo[w] : createdAt[d] < createdAt[e]}
<1>1. e \in todo[w] BY DEF Marking, First
<1>2. {d \in todo'[w] : createdAt'[d] < createdAt'[e]} = Before
  BY <1>1
<1> QED BY <1>1, <1>2 DEF Marking, First

-----------------------------------------------------------------------------
(* Types *)

\* What a started worker reads are events.
LEMMA ReadTyped ==
  ASSUME TypeOK PROVE Queried \subseteq Events /\ \A n : First(n, stream) \subseteq Events
BY FirstAmong DEF TypeOK, Queried, Indexed, First

\* The failure of a batch keeps the relay's variables typed.
LEMMA BatchFailsTyped ==
  ASSUME TypeOK, NEW reported, BatchFails(reported)
  PROVE  stream' \subseteq Events /\ held' \subseteq Events /\ retries' \in 0 .. MaxRetries
<1>1. CASE Exhausted
  BY <1>1, OutboxAssumption DEF TypeOK, BatchFails
<1>2. CASE ~Exhausted
  BY <1>2, OutboxAssumption DEF TypeOK, BatchFails, Exhausted, Counted
<1> QED BY <1>1, <1>2

\* Finishing an item keeps the worker's variables typed.
LEMMA FinishTyped ==
  ASSUME TypeOK, NEW w \in Workers, NEW e \in Events, NEW delivered,
         Finish(w, e, delivered)
  PROVE  /\ stream' \subseteq Events /\ held' \subseteq Events
         /\ retries' \in 0 .. MaxRetries /\ failed' \subseteq Events
         /\ step' \in [Workers -> {"idle", "deliver", "mark"}]
         /\ todo' \in [Workers -> SUBSET Events]
BY DEF TypeOK, Finish

\* Every step keeps every variable in its type: one case per action.
LEMMA TypeNext == TypeOK /\ [Next]_vars => TypeOK'
<1> SUFFICES ASSUME TypeOK, [Next]_vars PROVE TypeOK'
  OBVIOUS
<1>1. ASSUME NEW e \in Events, Store(e) PROVE TypeOK'
  <2>1. IsFiniteSet(Stored)
    BY OutboxAssumption, FS_Subset DEF Stored
  <2>2. Cardinality(Stored) + 1 \in Nat BY <2>1, FS_CardinalityType
  <2> QED BY <1>1, <2>2 DEF Store, TypeOK
<1>2. ASSUME NEW e \in Events, TimeToLiveDelete(e) PROVE TypeOK'
  BY <1>2 DEF TimeToLiveDelete, TypeOK, table, relaying
<1>3. CASE RelayStart
  <2>1. held' \subseteq Events
    BY <1>3, ReadTyped DEF RelayStart, TypeOK
  <2> QED BY <1>3, <2>1 DEF RelayStart, TypeOK, table, Workers
<1>4. CASE RecoveryStart
  <2>1. lived' \in [Events -> Nat]
    BY <1>4 DEF RecoveryStart, TypeOK
  <2> QED BY <1>4, <2>1, ReadTyped DEF RecoveryStart, TypeOK, relaying, Workers
<1>5. ASSUME NEW w \in Workers, NEW e \in Events, RejectEnvelope(w, e) PROVE TypeOK'
  BY <1>5, FinishTyped DEF RejectEnvelope, TypeOK, table
<1>6. ASSUME NEW w \in Workers, NEW e \in Events, Send(w, e) PROVE TypeOK'
  BY <1>6 DEF Send, TypeOK, table, relaying
<1>7. ASSUME NEW w \in Workers, NEW e \in Events, SendFails(w, e) PROVE TypeOK'
  <2>1. accepted' \subseteq Events /\ faults' \in 0 .. MaxFaults
    BY <1>7, OutboxAssumption DEF SendFails, Fault, TypeOK
  <2>2. UNCHANGED <<item, createdAt, valid, lived>>
    BY <1>7 DEF SendFails, table
  <2> QED BY <1>7, <2>1, <2>2, FinishTyped DEF SendFails, TypeOK
<1>8. ASSUME NEW w \in Workers, NEW e \in Events, Mark(w, e) PROVE TypeOK'
  <2>1. item' \in [Events -> {"none", "PENDING", "SENT", "gone"}]
    BY <1>8 DEF Mark, TypeOK
  <2>2. UNCHANGED <<createdAt, valid, lived, accepted, faults>>
    BY <1>8 DEF Mark
  <2> QED BY <1>8, <2>1, <2>2, FinishTyped DEF Mark, TypeOK
<1>9. ASSUME NEW w \in Workers, NEW e \in Events, MarkFails(w, e) PROVE TypeOK'
  <2>1. item' \in [Events -> {"none", "PENDING", "SENT", "gone"}]
    BY <1>9 DEF MarkFails, TypeOK
  <2>2. UNCHANGED <<createdAt, valid, lived, accepted>> /\ faults' \in 0 .. MaxFaults
    BY <1>9, OutboxAssumption DEF MarkFails, Fault, TypeOK
  <2> QED BY <1>9, <2>1, <2>2, FinishTyped DEF MarkFails, TypeOK
<1>10. CASE RelayEnd
  <2>1. stream' \subseteq Events /\ held' \subseteq Events /\ retries' \in 0 .. MaxRetries
    BY <1>10, BatchFailsTyped, OutboxAssumption DEF RelayEnd, TypeOK
  <2> QED BY <1>10, <2>1 DEF RelayEnd, TypeOK, table
<1>11. CASE RecoveryEnd
  BY <1>11 DEF RecoveryEnd, TypeOK, table, relaying
<1>12. ASSUME NEW w \in Workers, Crash(w) PROVE TypeOK'
  <2>1. /\ stream' \subseteq Events /\ held' \subseteq Events
        /\ retries' \in 0 .. MaxRetries /\ failed' \subseteq Events
    BY <1>12, BatchFailsTyped DEF Crash, TypeOK, relaying
  <2>2. faults' \in 0 .. MaxFaults
    BY <1>12, OutboxAssumption DEF Crash, Fault, TypeOK
  <2> QED BY <1>12, <2>1, <2>2 DEF Crash, TypeOK, table
<1>13. CASE UNCHANGED vars
  BY <1>13 DEF vars, table, relaying, TypeOK
<1> QED
  BY <1>1, <1>2, <1>3, <1>4, <1>5, <1>6, <1>7, <1>8, <1>9, <1>10, <1>11, <1>12,
     <1>13 DEF Next, Relay, Recovery, Work, Workers

-----------------------------------------------------------------------------
(* Delivery *)

\* Only one stored item is the oldest.
LEMMA OneOldest ==
  ASSUME TypeOK, CreationOrder, NEW events \in SUBSET Stored,
         NEW d \in First(1, events), NEW e \in First(1, events)
  PROVE  d = e
<1>1. d \in Stored /\ e \in Stored /\ d \in events /\ e \in events BY DEF First
<1>2. createdAt[d] \in Nat /\ createdAt[e] \in Nat BY <1>1 DEF TypeOK, Stored
<1> DEFINE Older(a) == {b \in events : createdAt[b] < createdAt[a]}
<1>3. ASSUME NEW a \in First(1, events) PROVE Older(a) = {}
  <2>1. IsFiniteSet(Older(a))
    <3>1. Older(a) \subseteq Events BY DEF Stored
    <3> QED BY <3>1, OutboxAssumption, FS_Subset
  <2>2. Cardinality(Older(a)) \in Nat BY <2>1, FS_CardinalityType
  <2>3. Cardinality(Older(a)) < 1 BY DEF First
  <2>4. Cardinality(Older(a)) = 0 BY <2>2, <2>3
  <2> QED BY <2>1, <2>4, FS_EmptySet
<1>4. ~(createdAt[e] < createdAt[d]) /\ ~(createdAt[d] < createdAt[e])
  BY <1>1, <1>3
<1>5. createdAt[d] = createdAt[e] BY <1>2, <1>4
<1> QED BY <1>1, <1>5 DEF CreationOrder

\* The newly stored item is the youngest.
LEMMA StoreKeepsOrder ==
  ASSUME TypeOK, CreationOrder, NEW e \in Events, Store(e)
  PROVE  CreationOrder' /\ Stored' = Stored \cup {e} /\ e \notin Stored
<1>1. e \notin Stored BY DEF Store, Stored
<1>2. Stored' = Stored \cup {e} BY DEF Store, Stored, TypeOK
<1>3. IsFiniteSet(Stored) BY OutboxAssumption, FS_Subset DEF Stored
<1>4. Cardinality(Stored) \in Nat /\ Cardinality(Stored') = Cardinality(Stored) + 1
  BY <1>1, <1>2, <1>3, FS_AddElement, FS_CardinalityType
<1>5. createdAt'[e] = Cardinality(Stored) + 1 BY DEF Store, TypeOK
<1>6. \A d \in Stored : createdAt'[d] = createdAt[d] /\ createdAt[d] \in Nat
  BY <1>1 DEF Store, TypeOK, Stored
<1>7. \A d \in Stored : createdAt[d] <= Cardinality(Stored) BY DEF CreationOrder
<1>8. \A d \in Stored' : createdAt'[d] <= Cardinality(Stored')
  BY <1>2, <1>4, <1>5, <1>6, <1>7
<1>9. ASSUME NEW a \in Stored', NEW b \in Stored', createdAt'[a] = createdAt'[b]
      PROVE a = b
  <2>1. CASE a \in Stored /\ b \in Stored BY <1>6, <1>9, <2>1 DEF CreationOrder
  <2>2. CASE a = e \/ b = e BY <1>2, <1>4, <1>5, <1>6, <1>7, <1>9, <2>2
  <2> QED BY <1>2, <2>1, <2>2
<1> QED BY <1>1, <1>2, <1>8, <1>9 DEF CreationOrder

\* A step that stores nothing keeps the order of what is stored.
LEMMA SameStoredSameOrder ==
  ASSUME CreationOrder, Stored' = Stored, UNCHANGED createdAt PROVE CreationOrder'
BY DEF CreationOrder

\* The failure of a batch leaves the relay nothing it had not read.
LEMMA BatchFailsShrinks ==
  ASSUME NEW reported, BatchFails(reported)
  PROVE  stream' \subseteq stream /\ held' \subseteq held
<1>1. CASE Exhausted BY <1>1 DEF BatchFails
<1>2. CASE ~Exhausted BY <1>2 DEF BatchFails
<1> QED BY <1>1, <1>2

\* Finishing an item leaves the worker no item it had not read, and nothing
\* between send and mark.
LEMMA FinishDelivers ==
  ASSUME Inv, NEW w \in Workers, NEW e \in Events, NEW delivered,
         Finish(w, e, delivered), UNCHANGED createdAt, accepted \subseteq accepted'
  PROVE  /\ \A v \in Workers, d \in Events : Marking(v, d)' => d \in accepted'
         /\ \A v \in Workers : todo'[v] \subseteq todo[v]
         /\ UNCHANGED <<stream, held>>
<1>1. \A v \in Workers : v # w => todo'[v] = todo[v] /\ step'[v] = step[v]
  BY DEF Finish, Inv, TypeOK
<1>2. step'[w] = "deliver" /\ todo'[w] = todo[w] \ {e}
  BY DEF Finish, Inv, TypeOK
<1>3. ASSUME NEW v \in Workers, NEW d \in Events, Marking(v, d)'
      PROVE d \in accepted'
  <2>1. v # w BY <1>2, <1>3 DEF Marking
  <2>2. Marking(v, d) BY <1>1, <1>3, <2>1, MarkingStable
  <2> QED BY <2>2 DEF Inv, DeliveryInv
<1> QED BY <1>1, <1>2, <1>3 DEF Finish

\* Every step keeps DeliveryInv: one case per action.
LEMMA DeliveryNext == Inv /\ TypeOK' /\ [Next]_vars => DeliveryInv'
<1> SUFFICES ASSUME Inv, TypeOK', [Next]_vars PROVE DeliveryInv'
  OBVIOUS
<1> USE DEF Inv
<1>1. ASSUME NEW e \in Events, Store(e) PROVE DeliveryInv'
  <2>1. CreationOrder' /\ Stored' = Stored \cup {e} /\ e \notin Stored
    BY <1>1, StoreKeepsOrder DEF DeliveryInv
  <2>2. \A d \in Stored : createdAt'[d] = createdAt[d]
    BY <1>1, <2>1 DEF Store, TypeOK, Stored
  <2>3. ASSUME NEW w \in Workers, NEW d \in Events, Marking(w, d)' PROVE d \in accepted'
    <3>1. todo'[w] = todo[w] /\ step'[w] = step[w] /\ accepted' = accepted
      BY <1>1 DEF Store
    <3>2. Marking(w, d) BY <2>2, <2>3, <3>1, MarkingStable DEF DeliveryInv
    <3> QED BY <3>1, <3>2 DEF DeliveryInv
  <2>4. SentWasAccepted' BY <1>1 DEF Store, TypeOK, DeliveryInv, SentWasAccepted
  <2>5. stream' \subseteq Stored' /\ held' \subseteq Stored'
    BY <1>1, <2>1 DEF Store, DeliveryInv
  <2>6. \A w \in Workers : todo'[w] \subseteq Stored'
    BY <1>1, <2>1 DEF Store, DeliveryInv
  <2> QED BY <2>1, <2>3, <2>4, <2>5, <2>6 DEF DeliveryInv
<1>2. ASSUME NEW e \in Events, TimeToLiveDelete(e) PROVE DeliveryInv'
  <2>1. /\ UNCHANGED <<createdAt, stream, held, step, todo, accepted>>
        /\ item' = [item EXCEPT ![e] = "gone"] /\ item[e] # "none"
    BY <1>2 DEF TimeToLiveDelete, relaying, Indexed
  <2>2. Stored' = Stored BY <2>1 DEF Stored, TypeOK
  <2>3. SentWasAccepted' BY <2>1 DEF SentWasAccepted, DeliveryInv, TypeOK
  <2>4. CreationOrder' BY <2>1, <2>2, SameStoredSameOrder DEF DeliveryInv
  <2>5. \A w \in Workers, d \in Events : Marking(w, d)' => d \in accepted'
    BY <2>1, MarkingStable DEF DeliveryInv
  <2> QED BY <2>1, <2>2, <2>3, <2>4, <2>5 DEF DeliveryInv
<1>3. CASE RelayStart
  <2>1. UNCHANGED <<item, createdAt, stream, accepted>> BY <1>3 DEF RelayStart, table
  <2>2. Stored' = Stored BY <2>1 DEF Stored
  <2>3. held' \subseteq Stored
    BY <1>3, FirstAmong DEF RelayStart, DeliveryInv
  <2>4. /\ todo'["relay"] = held' /\ step'["relay"] = "deliver"
        /\ todo'["recovery"] = todo["recovery"] /\ step'["recovery"] = step["recovery"]
    BY <1>3 DEF RelayStart, TypeOK, Workers
  <2>5. ASSUME NEW w \in Workers, NEW d \in Events, Marking(w, d)' PROVE d \in accepted'
    <3>1. w = "recovery" BY <2>4, <2>5 DEF Marking, Workers
    <3>2. Marking(w, d) BY <2>1, <2>4, <2>5, <3>1, MarkingStable
    <3> QED BY <2>1, <3>2 DEF DeliveryInv
  <2>6. CreationOrder' BY <2>1, <2>2, SameStoredSameOrder DEF DeliveryInv
  <2>7. SentWasAccepted' BY <2>1 DEF SentWasAccepted, DeliveryInv
  <2>8. \A w \in Workers : todo'[w] \subseteq Stored'
    BY <2>2, <2>3, <2>4 DEF DeliveryInv, Workers
  <2> QED BY <2>1, <2>2, <2>3, <2>5, <2>6, <2>7, <2>8 DEF DeliveryInv
<1>4. CASE RecoveryStart
  <2>1. UNCHANGED <<item, createdAt, stream, held, accepted>>
    BY <1>4 DEF RecoveryStart, relaying
  <2>2. Stored' = Stored BY <2>1 DEF Stored
  <2>3. Queried \subseteq Stored
    BY FirstAmong DEF Queried, Indexed, Stored
  <2>4. /\ todo'["recovery"] = Queried /\ step'["recovery"] = "deliver"
        /\ todo'["relay"] = todo["relay"] /\ step'["relay"] = step["relay"]
    BY <1>4 DEF RecoveryStart, TypeOK, Workers
  <2>5. ASSUME NEW w \in Workers, NEW d \in Events, Marking(w, d)' PROVE d \in accepted'
    <3>1. w = "relay" BY <2>4, <2>5 DEF Marking, Workers
    <3>2. Marking(w, d) BY <2>1, <2>4, <2>5, <3>1, MarkingStable
    <3> QED BY <2>1, <3>2 DEF DeliveryInv
  <2>6. CreationOrder' BY <2>1, <2>2, SameStoredSameOrder DEF DeliveryInv
  <2>7. SentWasAccepted' BY <2>1 DEF SentWasAccepted, DeliveryInv
  <2>8. \A w \in Workers : todo'[w] \subseteq Stored'
    BY <2>2, <2>3, <2>4 DEF DeliveryInv, Workers
  <2> QED BY <2>1, <2>2, <2>5, <2>6, <2>7, <2>8 DEF DeliveryInv
<1>5. ASSUME NEW w \in Workers, NEW e \in Events, NEW delivered,
             Finish(w, e, delivered), UNCHANGED createdAt,
             accepted \subseteq accepted', Stored' = Stored, SentWasAccepted'
      PROVE  DeliveryInv'
  <2>1. CreationOrder' BY <1>5, SameStoredSameOrder DEF DeliveryInv
  <2> QED BY <1>5, <2>1, FinishDelivers DEF DeliveryInv
<1>6. ASSUME NEW w \in Workers, NEW e \in Events,
             RejectEnvelope(w, e) \/ SendFails(w, e)
      PROVE  DeliveryInv'
  <2>1. /\ Finish(w, e, FALSE) /\ UNCHANGED <<item, createdAt>>
        /\ accepted \subseteq accepted'
    BY <1>6 DEF RejectEnvelope, SendFails, table
  <2>2. Stored' = Stored /\ SentWasAccepted'
    BY <2>1 DEF Stored, SentWasAccepted, DeliveryInv
  <2> QED BY <1>5, <2>1, <2>2
<1>7. ASSUME NEW w \in Workers, NEW e \in Events, Send(w, e) PROVE DeliveryInv'
  <2>1. /\ UNCHANGED <<item, createdAt, stream, held, todo>>
        /\ accepted' = accepted \cup {e} /\ step' = [step EXCEPT ![w] = "mark"]
    BY <1>7 DEF Send, table, relaying
  <2>2. Stored' = Stored BY <2>1 DEF Stored
  <2>3. ASSUME NEW v \in Workers, NEW d \in Events, Marking(v, d)' PROVE d \in accepted'
    <3>1. CASE v = w
      <4>1. e \in First(1, todo[w]) /\ d \in First(1, todo[w])
        BY <1>7, <2>1, <2>3, <3>1 DEF Send, Delivering, Marking, First
      <4>2. d = e
        BY <4>1, OneOldest DEF DeliveryInv
      <4> QED BY <2>1, <4>2
    <3>2. CASE v # w
      <4>1. step'[v] = step[v] BY <2>1, <3>2 DEF TypeOK
      <4>2. Marking(v, d) BY <2>1, <2>3, <4>1, MarkingStable
      <4> QED BY <2>1, <4>2 DEF DeliveryInv
    <3> QED BY <3>1, <3>2
  <2>4. SentWasAccepted' /\ CreationOrder'
    BY <2>1, <2>2, SameStoredSameOrder DEF SentWasAccepted, DeliveryInv
  <2> QED BY <2>1, <2>2, <2>3, <2>4 DEF DeliveryInv
<1>8. ASSUME NEW w \in Workers, NEW e \in Events, Mark(w, e) \/ MarkFails(w, e)
      PROVE  DeliveryInv'
  <2>1. /\ UNCHANGED <<createdAt, accepted>>
        /\ \/ UNCHANGED item
           \/ item[e] = "PENDING" /\ item' = [item EXCEPT ![e] = "SENT"]
        /\ e \in accepted
    BY <1>8 DEF Mark, MarkFails, DeliveryInv
  <2>2. Stored' = Stored BY <2>1 DEF Stored, TypeOK
  <2>3. SentWasAccepted' BY <2>1 DEF SentWasAccepted, DeliveryInv, TypeOK
  <2>4. PICK delivered \in BOOLEAN : Finish(w, e, delivered)
    BY <1>8 DEF Mark, MarkFails
  <2> QED BY <1>5, <2>1, <2>2, <2>3, <2>4
<1>9. ASSUME UNCHANGED <<item, createdAt, accepted>>,
             stream' \subseteq stream, held' \subseteq held,
             \A w \in Workers : todo'[w] \subseteq todo[w],
             \A w \in Workers : \/ step'[w] = "idle"
                               \/ (step'[w] = step[w] /\ todo'[w] = todo[w])
      PROVE  DeliveryInv'
  <2>1. Stored' = Stored BY <1>9 DEF Stored
  <2>2. ASSUME NEW w \in Workers, NEW d \in Events, Marking(w, d)' PROVE d \in accepted'
    <3>1. step'[w] # "idle" BY <2>2 DEF Marking
    <3>2. Marking(w, d) BY <1>9, <2>2, <3>1, MarkingStable
    <3> QED BY <1>9, <3>2 DEF DeliveryInv
  <2>3. SentWasAccepted' /\ CreationOrder'
    BY <1>9, <2>1, SameStoredSameOrder DEF SentWasAccepted, DeliveryInv
  <2> QED BY <1>9, <2>1, <2>2, <2>3 DEF DeliveryInv
<1>10. CASE RelayEnd
  <2>1. stream' \subseteq stream /\ held' \subseteq held
    BY <1>10, BatchFailsShrinks DEF RelayEnd
  <2>2. \A w \in Workers : step'[w] = "idle" \/ step'[w] = step[w]
    BY <1>10 DEF RelayEnd, TypeOK
  <2>3. UNCHANGED <<item, createdAt, accepted, todo>> BY <1>10 DEF RelayEnd, table
  <2> QED BY <1>9, <2>1, <2>2, <2>3
<1>11. CASE RecoveryEnd
  <2>1. \A w \in Workers : step'[w] = "idle" \/ step'[w] = step[w]
    BY <1>11 DEF RecoveryEnd, TypeOK
  <2>2. UNCHANGED <<item, createdAt, accepted, todo, stream, held>>
    BY <1>11 DEF RecoveryEnd, table, relaying
  <2> QED BY <1>9, <2>1, <2>2
<1>12. ASSUME NEW w \in Workers, Crash(w) PROVE DeliveryInv'
  <2>1. stream' \subseteq stream /\ held' \subseteq held
    BY <1>12, BatchFailsShrinks DEF Crash, relaying
  <2>2. /\ step'[w] = "idle" /\ todo'[w] = {}
        /\ \A v \in Workers : v # w => step'[v] = step[v] /\ todo'[v] = todo[v]
    BY <1>12 DEF Crash, TypeOK
  <2>3. UNCHANGED <<item, createdAt, accepted>> BY <1>12 DEF Crash, table
  <2>4. \A v \in Workers : todo'[v] \subseteq todo[v]
    BY <2>2
  <2>5. \A v \in Workers : step'[v] = "idle" \/ (step'[v] = step[v] /\ todo'[v] = todo[v])
    BY <2>2
  <2> QED BY <1>9, <2>1, <2>3, <2>4, <2>5
<1>13. CASE UNCHANGED vars
  BY <1>9, <1>13 DEF vars, table, relaying
<1> QED
  BY <1>1, <1>2, <1>3, <1>4, <1>6, <1>7, <1>8, <1>10, <1>11, <1>12, <1>13
     DEF Next, Relay, Recovery, Work, Workers

-----------------------------------------------------------------------------
(* The specification *)

\* Both parts hold at the start.
LEMMA InvInit == Init => Inv
<1> SUFFICES ASSUME Init PROVE Inv OBVIOUS
<1>1. TypeOK BY OutboxAssumption DEF Init, TypeOK
<1>2. Stored = {} BY DEF Init, Stored
<1>3. CreationOrder BY <1>2 DEF CreationOrder
<1>4. DeliveryInv BY <1>3 DEF Init, DeliveryInv, SentWasAccepted, Marking
<1> QED BY <1>1, <1>4 DEF Inv

\* An item that is gone is neither stored nor marked again by any step.
LEMMA GoneStep ==
  ASSUME TypeOK, [Next]_vars, NEW e \in Events, item[e] = "gone"
  PROVE  item'[e] = "gone"
<1>1. ASSUME NEW d \in Events, Store(d) PROVE item'[e] = "gone"
  BY <1>1 DEF Store, TypeOK
<1>2. ASSUME NEW d \in Events, TimeToLiveDelete(d) PROVE item'[e] = "gone"
  BY <1>2 DEF TimeToLiveDelete, TypeOK
<1>3. ASSUME NEW w \in Workers, NEW d \in Events, Mark(w, d) \/ MarkFails(w, d)
      PROVE  item'[e] = "gone"
  BY <1>3 DEF Mark, MarkFails, TypeOK
<1>4. ASSUME NEW w \in Workers, NEW d \in Events,
             RejectEnvelope(w, d) \/ Send(w, d) \/ SendFails(w, d)
      PROVE  item'[e] = "gone"
  BY <1>4 DEF RejectEnvelope, Send, SendFails, table
<1>5. CASE RelayStart \/ RelayEnd \/ RecoveryStart \/ RecoveryEnd \/ UNCHANGED vars
  BY <1>5 DEF RelayStart, RelayEnd, RecoveryStart, RecoveryEnd, vars, table
<1>6. ASSUME NEW w \in Workers, Crash(w) PROVE item'[e] = "gone"
  BY <1>6 DEF Crash, table
<1> QED
  BY <1>1, <1>2, <1>3, <1>4, <1>5, <1>6 DEF Next, Relay, Recovery, Work, Workers

\* Every variable keeps its type in every behaviour of the relay, the
\* recovery, the table and their faults.
THEOREM OutboxTypeCorrect == Spec => []TypeOK
<1>1. Init => TypeOK BY InvInit DEF Inv
<1> QED BY <1>1, TypeNext, PTL DEF Spec

\* The inductive invariant holds.
LEMMA InvHolds == Spec => []Inv
<1>1. Inv /\ [Next]_vars => Inv' BY TypeNext, DeliveryNext DEF Inv
<1> QED BY <1>1, InvInit, PTL DEF Spec

\* For any number of events, batch size, retries, recovery limit and faults,
\* an item is marked SENT only if the queue accepted its envelope (_deliver).
THEOREM SentOnlyIfAccepted == Spec => []SentWasAccepted
<1>1. Inv => SentWasAccepted BY DEF Inv, DeliveryInv
<1> QED BY <1>1, InvHolds, PTL

\* For any of these values, no late mark brings back an item that the time to
\* live has removed (the condition of _deliver's update).
THEOREM GoneIsGone == Spec => GoneStaysGone
<1>1. TypeOK /\ [Next]_vars
        => [\A e \in Events : item[e] = "gone" => item'[e] = "gone"]_vars
  BY GoneStep
<1> QED BY <1>1, OutboxTypeCorrect, PTL DEF Spec, GoneStaysGone

-----------------------------------------------------------------------------
(* Recovery *)

\* A query whose limit exceeds the number of events misses no item.
LEMMA QueryMissesNothing ==
  ASSUME TypeOK, Limit >= Cardinality(Events) PROVE Queried = Indexed
<1> SUFFICES ASSUME NEW e \in Indexed PROVE e \in First(Limit, Indexed)
  BY FirstAmong DEF Queried
<1> DEFINE Older == {d \in Indexed : createdAt[d] < createdAt[e]}
<1>1. e \in Events /\ Older \subseteq Events BY DEF Indexed
<1>2. IsFiniteSet(Events) BY OutboxAssumption
<1>3. Cardinality(Events) \in Nat BY <1>2, FS_CardinalityType
<1>4. Older \subseteq Events \ {e} BY <1>1 DEF TypeOK
<1>5. Cardinality(Older) < Limit
  <2>2. /\ IsFiniteSet(Events \ {e})
        /\ Cardinality(Events \ {e}) = Cardinality(Events) - 1
    BY <1>1, <1>2, FS_RemoveElement
  <2>3. Cardinality(Older) \in Nat /\ Cardinality(Older) <= Cardinality(Events \ {e})
    BY <1>4, <2>2, FS_Subset, FS_CardinalityType
  <2> QED BY <1>3, <2>2, <2>3, OutboxAssumption
<1> QED BY <1>5 DEF First

\* A step that lets the recovery drop an item without sending it costs a fault.
LEMMA DroppedForAFault ==
  ASSUME Inv, RecoveryInv, TypeOK',
         UNCHANGED <<valid, lived>>, accepted \subseteq accepted', faults <= faults',
         \A e \in Events : item'[e] = item[e] \/ (e \in Indexed /\ item'[e] = "SENT"),
         step'["recovery"] = "idle" => todo'["recovery"] = {},
         \A e \in todo["recovery"] \ todo'["recovery"] :
           e \in accepted' \/ e \notin valid \/ faults' = faults + 1
  PROVE  RecoveryInv'
<1>1. ExpiredWasAccepted'
  BY DEF RecoveryInv, ExpiredWasAccepted, Inv, TypeOK
<1>2. \A e \in Events : item'[e] = "none" => lived'[e] = 0 BY DEF RecoveryInv
<1>3. ASSUME NEW e \in (Indexed' \cap valid') \ accepted'
      PROVE  lived'[e] <= faults' + (IF e \in todo'["recovery"] THEN 1 ELSE 0)
  <2>1. e \in (Indexed \cap valid) \ accepted BY <1>3 DEF Indexed
  <2>2. lived[e] <= faults + (IF e \in todo["recovery"] THEN 1 ELSE 0)
    BY <2>1 DEF RecoveryInv
  <2>3. lived[e] \in Nat /\ faults \in Nat /\ faults' \in Nat
    BY <2>1, OutboxAssumption DEF Inv, TypeOK, Indexed
  <2>4. CASE e \in todo["recovery"] \ todo'["recovery"]
    BY <1>3, <2>2, <2>3, <2>4
  <2>5. CASE e \notin todo["recovery"] \ todo'["recovery"]
    BY <2>2, <2>3, <2>5
  <2> QED BY <2>4, <2>5
<1> QED BY <1>1, <1>2, <1>3 DEF RecoveryInv

\* A worker that is done with an item drops this one only.
LEMMA FinishDrops ==
  ASSUME Inv, NEW w \in Workers, NEW e \in Events, NEW delivered,
         Finish(w, e, delivered), RecoveryInv
  PROVE  /\ step'["recovery"] = "idle" => todo'["recovery"] = {}
         /\ todo["recovery"] \ todo'["recovery"] \subseteq {e}
         /\ w # "recovery" => todo'["recovery"] = todo["recovery"]
<1>1. "recovery" \in Workers BY DEF Workers
<1>2. CASE w = "recovery" BY <1>1, <1>2 DEF Finish, Inv, TypeOK
<1>3. CASE w # "recovery" BY <1>1, <1>3 DEF Finish, Inv, TypeOK, RecoveryInv
<1> QED BY <1>2, <1>3

\* Every step keeps RecoveryInv: one case per action.
LEMMA RecoveryNext ==
  ASSUME Limit >= Cardinality(Events), Lifetime >= MaxFaults + 2
  PROVE  Inv /\ RecoveryInv /\ TypeOK' /\ [Next]_vars => RecoveryInv'
<1> SUFFICES ASSUME Inv, RecoveryInv, TypeOK', [Next]_vars PROVE RecoveryInv'
  OBVIOUS
<1> DEFINE mine == todo["recovery"]
<1>a. "recovery" \in Workers BY DEF Workers
<1>1. ASSUME NEW e \in Events, Store(e) PROVE RecoveryInv'
  <2>1. /\ item[e] = "none" /\ item'[e] = "PENDING" /\ lived'[e] = 0
        /\ \A d \in Events \ {e} : item'[d] = item[d] /\ (d \in valid' <=> d \in valid)
        /\ UNCHANGED <<lived, step, todo, accepted, faults>>
    BY <1>1 DEF Store, Inv, TypeOK, RecoveryInv
  <2>2. ExpiredWasAccepted'
    BY <2>1 DEF RecoveryInv, ExpiredWasAccepted, Inv, TypeOK
  <2>3. ASSUME NEW d \in (Indexed' \cap valid') \ accepted'
        PROVE  lived'[d] <= faults' + (IF d \in todo'["recovery"] THEN 1 ELSE 0)
    <3>1. CASE d = e BY <2>1, <3>1, OutboxAssumption DEF Inv, TypeOK
    <3>2. CASE d # e
      <4>1. d \in (Indexed \cap valid) \ accepted BY <2>1, <2>3, <3>2 DEF Indexed
      <4> QED BY <2>1, <4>1 DEF RecoveryInv
    <3> QED BY <3>1, <3>2
  <2> QED BY <2>1, <2>2, <2>3 DEF RecoveryInv
<1>2. ASSUME NEW e \in Events, TimeToLiveDelete(e) PROVE RecoveryInv'
  <2>1. /\ e \in Indexed /\ lived[e] >= Lifetime /\ item'[e] = "gone"
        /\ \A d \in Events \ {e} : item'[d] = item[d]
        /\ UNCHANGED <<valid, lived, step, todo, accepted, faults>>
    BY <1>2 DEF TimeToLiveDelete, relaying, Inv, TypeOK
  <2>2. e \in valid => e \in accepted
    <3>1. lived[e] \in Nat /\ faults \in Nat /\ faults <= MaxFaults
      BY OutboxAssumption DEF Inv, TypeOK
    <3>2. e \in valid \ accepted => lived[e] <= faults + 1
      BY <2>1, <3>1 DEF RecoveryInv
    <3> QED BY <2>1, <3>1, <3>2, OutboxAssumption
  <2>3. ExpiredWasAccepted' BY <2>1, <2>2 DEF RecoveryInv, ExpiredWasAccepted, Inv, TypeOK
  <2>4. Indexed' \subseteq Indexed BY <2>1 DEF Indexed
  <2> QED BY <2>1, <2>3, <2>4 DEF RecoveryInv
<1>3. CASE RelayStart
  <2>1. todo'["recovery"] = mine /\ step'["recovery"] = step["recovery"]
    BY <1>3 DEF RelayStart, Inv, TypeOK, Workers
  <2> QED BY <1>3, <2>1, DroppedForAFault DEF RelayStart, table, RecoveryInv, Inv, TypeOK
<1>4. CASE RecoveryStart
  <2>1. /\ UNCHANGED <<item, valid, accepted, faults>> /\ mine = {}
        /\ todo'["recovery"] = Queried /\ step'["recovery"] = "deliver"
        /\ \A d \in Events : lived'[d] = IF d \in Indexed /\ lived[d] < Lifetime
                                           THEN lived[d] + 1 ELSE lived[d]
    BY <1>4, <1>a DEF RecoveryStart, RecoveryInv, Inv, TypeOK
  <2>2. ExpiredWasAccepted' BY <2>1 DEF RecoveryInv, ExpiredWasAccepted
  <2>3. \A d \in Events : item'[d] = "none" => lived'[d] = 0
    BY <2>1 DEF RecoveryInv, Indexed
  <2>4. ASSUME NEW d \in (Indexed' \cap valid') \ accepted'
        PROVE  lived'[d] <= faults' + (IF d \in todo'["recovery"] THEN 1 ELSE 0)
    <3>1. d \in (Indexed \cap valid) \ accepted /\ d \in Events BY <2>1, <2>4 DEF Indexed
    <3>2. d \in todo'["recovery"] BY <2>1, <3>1, QueryMissesNothing DEF Inv
    <3>3. lived[d] <= faults BY <2>1, <3>1, OutboxAssumption DEF RecoveryInv, Inv, TypeOK
    <3>4. lived[d] \in Nat /\ faults \in Nat BY <3>1, OutboxAssumption DEF Inv, TypeOK
    <3>5. lived'[d] <= faults + 1 BY <2>1, <3>1, <3>3, <3>4
    <3> QED BY <2>1, <3>2, <3>5
  <2> QED BY <2>1, <2>2, <2>3, <2>4 DEF RecoveryInv
<1>5. ASSUME NEW w \in Workers, NEW e \in Events, RejectEnvelope(w, e) PROVE RecoveryInv'
  <2>1. /\ Finish(w, e, FALSE) /\ e \notin valid
        /\ UNCHANGED <<item, valid, lived, accepted, faults>>
    BY <1>5 DEF RejectEnvelope, table
  <2>2. /\ step'["recovery"] = "idle" => todo'["recovery"] = {}
        /\ mine \ todo'["recovery"] \subseteq {e}
    BY <2>1, FinishDrops
  <2>3. faults <= faults' BY <2>1, OutboxAssumption DEF Inv, TypeOK
  <2> QED BY <2>1, <2>2, <2>3, DroppedForAFault
<1>6. ASSUME NEW w \in Workers, NEW e \in Events, Send(w, e) PROVE RecoveryInv'
  <2>1. /\ UNCHANGED <<item, valid, lived, todo, faults>> /\ accepted \subseteq accepted'
        /\ step'["recovery"] \in {step["recovery"], "mark"}
    BY <1>6, <1>a DEF Send, table, relaying, Inv, TypeOK
  <2> QED BY <2>1, DroppedForAFault DEF RecoveryInv, Inv, TypeOK
<1>7. ASSUME NEW w \in Workers, NEW e \in Events, SendFails(w, e) PROVE RecoveryInv'
  <2>1. /\ Finish(w, e, FALSE) /\ faults' = faults + 1
        /\ UNCHANGED <<item, valid, lived>> /\ accepted \subseteq accepted'
    BY <1>7 DEF SendFails, Fault, table
  <2>2. step'["recovery"] = "idle" => todo'["recovery"] = {} BY <2>1, FinishDrops
  <2>3. faults <= faults' BY <2>1, OutboxAssumption DEF Inv, TypeOK
  <2> QED BY <2>1, <2>2, <2>3, DroppedForAFault
<1>8. ASSUME NEW w \in Workers, NEW e \in Events, Mark(w, e) \/ MarkFails(w, e)
      PROVE  RecoveryInv'
  <2>1. PICK delivered \in BOOLEAN : Finish(w, e, delivered)
    BY <1>8 DEF Mark, MarkFails
  <2>2. e \in accepted BY <1>8 DEF Mark, MarkFails, Inv, DeliveryInv
  <2>3. /\ UNCHANGED <<valid, lived, accepted>> /\ faults' \in {faults, faults + 1}
        /\ \A d \in Events : item'[d] = item[d] \/ (d \in Indexed /\ item'[d] = "SENT")
    BY <1>8 DEF Mark, MarkFails, Fault, Indexed, Inv, TypeOK
  <2> QED BY <2>1, <2>2, <2>3, FinishDrops, DroppedForAFault, OutboxAssumption DEF Inv, TypeOK
<1>9. CASE RelayEnd \/ RecoveryEnd
  <2>1. /\ UNCHANGED <<item, valid, lived, todo, accepted, faults>>
        /\ step'["recovery"] = "idle" => mine = {}
    BY <1>9, <1>a DEF RelayEnd, RecoveryEnd, table, RecoveryInv, Inv, TypeOK
  <2> QED BY <2>1, DroppedForAFault DEF Inv, TypeOK
<1>10. ASSUME NEW w \in Workers, Crash(w) PROVE RecoveryInv'
  <2>1. /\ UNCHANGED <<item, valid, lived, accepted>> /\ faults' = faults + 1
        /\ step'["recovery"] = "idle" => todo'["recovery"] = {}
    BY <1>10, <1>a DEF Crash, Fault, table, RecoveryInv, Inv, TypeOK
  <2> QED BY <2>1, DroppedForAFault, OutboxAssumption DEF Inv, TypeOK
<1>11. CASE UNCHANGED vars
  BY <1>11, DroppedForAFault DEF vars, table, RecoveryInv, Inv, TypeOK
<1> QED
  BY <1>1, <1>2, <1>3, <1>4, <1>5, <1>6, <1>7, <1>8, <1>9, <1>10, <1>11
     DEF Next, Relay, Recovery, Work, Workers

\* When the recovery reads at least as many items as there are and an item
\* lives through more recovery runs than there are faults, no valid item
\* reaches its time to live before its envelope was handed to the queue,
\* whatever the stream's retries gave up (recover_pending).
THEOREM RecoveredInTime ==
  ASSUME Limit >= Cardinality(Events), Lifetime >= MaxFaults + 2
  PROVE  Spec => []ExpiredWasAccepted
<1>1. Init => RecoveryInv
  <2> SUFFICES ASSUME Init PROVE RecoveryInv OBVIOUS
  <2>1. Indexed = {} BY DEF Init, Indexed
  <2> QED BY <2>1 DEF Init, RecoveryInv, ExpiredWasAccepted, Workers
<1>2. Inv /\ Inv' /\ RecoveryInv /\ [Next]_vars => RecoveryInv'
  BY RecoveryNext DEF Inv
<1>3. RecoveryInv => ExpiredWasAccepted BY DEF RecoveryInv
<1> QED BY <1>1, <1>2, <1>3, InvHolds, PTL DEF Spec

=============================================================================
