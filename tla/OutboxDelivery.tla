---------------------------- MODULE OutboxDelivery ----------------------------
(***************************************************************************)
(* Delivery of the outbox items that ListenerStore commits: the relay      *)
(* Lambda consumes the table's stream in batches, the recovery Lambda      *)
(* queries the pending index every five minutes, and both hand an item's   *)
(* envelope to the outbound queue before they mark the item SENT           *)
(* (OutboxRelayService).  Sends and marks fail, Lambdas crash, and items   *)
(* reach expiresAt.  The stream's retry rules are those of template.yaml.  *)
(***************************************************************************)
EXTENDS Naturals, FiniteSets

CONSTANTS
  Events,      \* identities of event envelopes
  Malformed,   \* those whose envelope may be one that the relay rejects
  BatchSize,   \* BatchSize of the stream source
  MaxRetries,  \* MaximumRetryAttempts of the stream source
  Limit,       \* HEAR_OUTBOX_RECOVERY_LIMIT
  Lifetime,    \* recovery runs an item lives through: HEAR_OUTBOX_TTL_DAYS
  MaxFaults    \* bound on failed calls and crashes

ASSUME OutboxAssumption ==
  /\ IsFiniteSet(Events)
  /\ Malformed \subseteq Events
  /\ BatchSize \in Nat \ {0}
  /\ MaxRetries \in Nat
  /\ Limit \in Nat \ {0}
  /\ Lifetime \in Nat
  /\ MaxFaults \in Nat

Workers == {"relay", "recovery"}

VARIABLES
  item,      \* outboxStatus of each item, "none" before and "gone" after its life
  createdAt, \* createdAt of each item
  valid,     \* items with an envelope that BackendEventEnvelope accepts
  lived,     \* recovery runs since the item was stored
  stream,    \* stream records the relay has not got past
  held,      \* the relay's current batch of records, across its retries
  retries,   \* retries of this batch
  step,      \* what each worker does
  todo,      \* items each worker has read and not finished
  failed,    \* records of the batch reported in batchItemFailures
  accepted,  \* history: events the outbound queue accepted
  faults     \* faults so far

table    == <<item, createdAt, valid, lived>>
relaying == <<stream, held, retries, failed>>
vars     == <<table, relaying, step, todo, accepted, faults>>

Stored == {e \in Events : item[e] # "none"}

\* The n oldest of these events: the order of the stream and of the index.
First(n, events) ==
  {e \in events : Cardinality({d \in events : createdAt[d] < createdAt[e]}) < n}

\* The items with outboxKey PENDING.  Marking an item changes its
\* outboxStatus, never its outboxKey, so that a sent item stays in the index.
Indexed == {e \in Events : item[e] \in {"PENDING", "SENT"}}

\* Mutant: one item too few.
QueriedButOne == First(Limit - 1, Indexed)

\* What recover_pending's query returns.
Queried == First(Limit, Indexed)

-----------------------------------------------------------------------------
(* The table *)

\* A transaction of the listener store puts the item; the stream carries it.
\* The envelope is not validated before it is stored.
Store(e) ==
  /\ item[e] = "none"
  /\ item' = [item EXCEPT ![e] = "PENDING"]
  /\ createdAt' = [createdAt EXCEPT ![e] = Cardinality(Stored) + 1]
  /\ \/ valid' = valid \cup {e}
     \/ e \in Malformed /\ UNCHANGED valid
  /\ stream' = stream \cup {e}
  /\ UNCHANGED <<lived, held, retries, failed, step, todo, accepted, faults>>

\* DynamoDB deletes the item some time after expiresAt, in no order.  Its
\* stream record has reached MaximumRecordAgeInSeconds long before.
TimeToLiveDelete(e) ==
  /\ e \in Indexed
  /\ e \notin stream
  /\ lived[e] >= Lifetime
  /\ item' = [item EXCEPT ![e] = "gone"]
  /\ UNCHANGED <<createdAt, valid, lived, relaying, step, todo, accepted, faults>>

-----------------------------------------------------------------------------
(* Starting a worker *)

\* The stream source invokes the relay with the oldest records, or once more
\* with a batch that failed.
RelayStart ==
  /\ step["relay"] = "idle"
  /\ stream # {}
  /\ IF held = {}
       THEN \E n \in 1 .. BatchSize : held' = First(n, stream)
       ELSE UNCHANGED held
  /\ todo' = [todo EXCEPT !["relay"] = held']
  /\ step' = [step EXCEPT !["relay"] = "deliver"]
  /\ failed' = {}
  /\ UNCHANGED <<table, stream, retries, accepted, faults>>

\* recover_pending queries the oldest items of the index.
RecoveryStart ==
  /\ step["recovery"] = "idle"
  /\ todo' = [todo EXCEPT !["recovery"] = Queried]
  /\ step' = [step EXCEPT !["recovery"] = "deliver"]
  /\ lived' = [e \in Events |-> IF e \in Indexed /\ lived[e] < Lifetime
                                  THEN lived[e] + 1 ELSE lived[e]]
  /\ UNCHANGED <<item, createdAt, valid, relaying, accepted, faults>>

-----------------------------------------------------------------------------
(* _deliver, one item at a time, oldest first *)

Delivering(w, e) ==
  step[w] = "deliver" /\ e \in First(1, todo[w])
Marking(w, e) ==
  step[w] = "mark" /\ e \in First(1, todo[w])

\* _deliver returns: relay reports what was not delivered.
Finish(w, e, delivered) ==
  /\ todo' = [todo EXCEPT ![w] = @ \ {e}]
  /\ step' = [step EXCEPT ![w] = "deliver"]
  /\ failed' = IF w = "relay" /\ ~delivered THEN failed \cup {e} ELSE failed
  /\ UNCHANGED <<stream, held, retries>>

Fault == faults < MaxFaults /\ faults' = faults + 1

\* The envelope does not validate.
RejectEnvelope(w, e) ==
  /\ Delivering(w, e)
  /\ e \notin valid
  /\ Finish(w, e, FALSE)
  /\ UNCHANGED <<table, accepted, faults>>

\* SqsEventClient.send returns True.
Send(w, e) ==
  /\ Delivering(w, e)
  /\ e \in valid
  /\ accepted' = accepted \cup {e}
  /\ step' = [step EXCEPT ![w] = "mark"]
  /\ UNCHANGED <<table, relaying, todo, faults>>

\* Mutant: what send returns is ignored.
SendIgnored(w, e) ==
  /\ Delivering(w, e)
  /\ e \in valid
  /\ Fault
  /\ step' = [step EXCEPT ![w] = "mark"]
  /\ UNCHANGED <<table, relaying, todo, accepted>>

\* SqsEventClient.send returns False: the queue refused the envelope, or only
\* its answer was lost.
SendFails(w, e) ==
  /\ Delivering(w, e)
  /\ e \in valid
  /\ Fault
  /\ accepted' \in {accepted, accepted \cup {e}}
  /\ Finish(w, e, FALSE)
  /\ UNCHANGED table

\* Mutant: the update has no condition.
MarkAlways(w, e) ==
  /\ Marking(w, e)
  /\ item' = [item EXCEPT ![e] = "SENT"]
  /\ Finish(w, e, TRUE)
  /\ UNCHANGED <<createdAt, valid, lived, accepted, faults>>

\* The item is marked SENT if it is PENDING.  If it is not, because the other
\* worker or an earlier attempt was first or because it is gone, the condition
\* fails and the item counts as not delivered.
Mark(w, e) ==
  /\ Marking(w, e)
  /\ item' = IF item[e] = "PENDING" THEN [item EXCEPT ![e] = "SENT"] ELSE item
  /\ Finish(w, e, item[e] = "PENDING")
  /\ UNCHANGED <<createdAt, valid, lived, accepted, faults>>

\* The update fails, or only its answer is lost.
MarkFails(w, e) ==
  /\ Marking(w, e)
  /\ Fault
  /\ \/ UNCHANGED item
     \/ item[e] = "PENDING" /\ item' = [item EXCEPT ![e] = "SENT"]
  /\ Finish(w, e, FALSE)
  /\ UNCHANGED <<createdAt, valid, lived, accepted>>

-----------------------------------------------------------------------------
(* Ending a worker's run *)

\* Mutant: one retry too many.
ExhaustedLate == retries > MaxRetries

Exhausted == retries = MaxRetries

\* Mutant: the retries are not counted.
Uncounted == retries

Counted == retries + 1

\* The batch failed.  It is retried, from the first reported record on or as
\* a whole; or its retries are used up and its records are discarded.
BatchFails(reported) ==
  IF Exhausted
    THEN /\ stream' = stream \ held
         /\ held' = {}
         /\ retries' = 0
    ELSE /\ retries' = Counted
         /\ \E again \in {held, {e \in held : \E f \in reported :
                                            createdAt[f] <= createdAt[e]}} :
              /\ held' = again
              /\ stream' = stream \ (held \ again)

\* relay returns batchItemFailures.
RelayEnd ==
  /\ step["relay"] = "deliver"
  /\ todo["relay"] = {}
  /\ step' = [step EXCEPT !["relay"] = "idle"]
  /\ IF failed = {}
       THEN /\ stream' = stream \ held
            /\ held' = {}
            /\ retries' = 0
       ELSE BatchFails(failed)
  /\ failed' = {}
  /\ UNCHANGED <<table, todo, accepted, faults>>

RecoveryEnd ==
  /\ step["recovery"] = "deliver"
  /\ todo["recovery"] = {}
  /\ step' = [step EXCEPT !["recovery"] = "idle"]
  /\ UNCHANGED <<table, relaying, todo, accepted, faults>>

\* A Lambda raises, times out or dies.  The relay then reports its whole
\* batch, a recovery run is lost.
Crash(w) ==
  /\ step[w] # "idle"
  /\ Fault
  /\ step' = [step EXCEPT ![w] = "idle"]
  /\ todo' = [todo EXCEPT ![w] = {}]
  /\ IF w = "relay"
       THEN BatchFails(held) /\ failed' = {}
       ELSE UNCHANGED relaying
  /\ UNCHANGED <<table, accepted>>

-----------------------------------------------------------------------------
Init ==
  /\ item = [e \in Events |-> "none"]
  /\ createdAt = [e \in Events |-> 0]
  /\ valid = {}
  /\ lived = [e \in Events |-> 0]
  /\ stream = {}
  /\ held = {}
  /\ retries = 0
  /\ step = [w \in Workers |-> "idle"]
  /\ todo = [w \in Workers |-> {}]
  /\ failed = {}
  /\ accepted = {}
  /\ faults = 0

Work(w) == \E e \in Events : RejectEnvelope(w, e) \/ Send(w, e) \/ Mark(w, e)
Relay    == RelayStart \/ Work("relay") \/ RelayEnd
Recovery == RecoveryStart \/ Work("recovery") \/ RecoveryEnd

Next ==
  \/ \E e \in Events : Store(e) \/ TimeToLiveDelete(e)
  \/ Relay
  \/ Recovery
  \/ \E w \in Workers, e \in Events : SendFails(w, e) \/ MarkFails(w, e)
  \/ \E w \in Workers : Crash(w)

\* The stream source and the schedule go on invoking their Lambdas.
Spec == Init /\ [][Next]_vars /\ WF_vars(Relay) /\ WF_vars(Recovery)

-----------------------------------------------------------------------------
(* Properties *)

\* Every variable has its type.
TypeOK ==
  /\ item \in [Events -> {"none", "PENDING", "SENT", "gone"}]
  /\ createdAt \in [Events -> Nat]
  /\ valid \subseteq Events
  /\ lived \in [Events -> Nat]
  /\ stream \subseteq Events
  /\ held \subseteq Events
  /\ retries \in 0 .. MaxRetries
  /\ step \in [Workers -> {"idle", "deliver", "mark"}]
  /\ todo \in [Workers -> SUBSET Events]
  /\ failed \subseteq Events
  /\ accepted \subseteq Events
  /\ faults \in 0 .. MaxFaults

\* An item is marked SENT only if the outbound queue accepted its envelope,
\* whichever worker marked it and whatever crashed or was repeated in between
\* (_deliver sends before it marks).
SentWasAccepted == \A e \in Events : item[e] = "SENT" => e \in accepted

\* No item outlives its time to live before its envelope was handed to the
\* queue: the recovery of what the relay missed comes in time
\* (recover_pending).
ExpiredWasAccepted ==
  \A e \in valid : item[e] = "gone" => e \in accepted

\* An item that is gone does not come back: a late mark creates no row.
GoneStaysGone ==
  [][\A e \in Events : item[e] = "gone" => item'[e] = "gone"]_vars

\* Every stored event is handed to the queue, by the relay or, when the relay
\* gave up on it, by the recovery.
EveryEventAccepted ==
  \A e \in Events : e \in valid ~> e \in accepted

\* The relay gets past every record, also past one that can never succeed: an
\* invalid envelope, or an item that is marked SENT already.
RelayGetsPast == \A e \in Events : e \in stream ~> e \notin stream

-----------------------------------------------------------------------------
(* Inductive invariants, used by the proofs *)

\* createdAt orders the stored items.
CreationOrder ==
  /\ \A e \in Stored : createdAt[e] <= Cardinality(Stored)
  /\ \A d, e \in Stored : createdAt[d] = createdAt[e] => d = e

\* A worker between send and mark has had its item accepted, and workers only
\* read items that exist, whose createdAt no longer changes.
DeliveryInv ==
  /\ SentWasAccepted
  /\ CreationOrder
  /\ \A w \in Workers, e \in Events : Marking(w, e) => e \in accepted
  /\ stream \subseteq Stored
  /\ held \subseteq Stored
  /\ \A w \in Workers : todo[w] \subseteq Stored

\* Every recovery run that an item lives through hands its envelope over, is
\* about to, or meets a fault.
RecoveryInv ==
  /\ ExpiredWasAccepted
  /\ step["recovery"] = "idle" => todo["recovery"] = {}
  /\ \A e \in Events : item[e] = "none" => lived[e] = 0
  /\ \A e \in (Indexed \cap valid) \ accepted :
       lived[e] <= faults + (IF e \in todo["recovery"] THEN 1 ELSE 0)

=============================================================================
