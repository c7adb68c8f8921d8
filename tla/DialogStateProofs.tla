--------------------------- MODULE DialogStateProofs ---------------------------
(***************************************************************************)
(* Loading a document leaves one question in it: dialogue, flags and       *)
(* subject agree, whatever the handlers of earlier requests have written,  *)
(* and the next request finds the same question, the one that was opened.  *)
(***************************************************************************)
EXTENDS DialogState, Sequences, WellFoundedInduction, TLAPS

\* The fields that a dialogue is read from, in any state: the three parts need not
\* agree.
IsDocument(s, Contexts) ==
  /\ {"active", "flags", "pending", "topic", "stage", "onboarded"} \subseteq DOMAIN s
  /\ NoContext \in Contexts
  /\ s.active \in [type : DialogTypes \union {"none"}, context : Contexts, left : Nat]
  /\ s.flags \subseteq Flagged
  /\ s.pending \in [Held -> Contexts]

\* One question, in the dialogue, its flag and its subject.
Agrees(s) ==
  /\ ~Expired(s.active)
  /\ s.flags = {s.active.type} \intersect Flagged
  /\ s.active.type \in Copied => s.pending[s.active.type] = s.active.context
  /\ s.active.type = "none" => s.pending = [k \in Held |-> NoContext]

-----------------------------------------------------------------------------
(* Which dialogue the older fields stand for.                              *)

LEMMA LegacyTypes ==
  \A i \in DOMAIN LegacyOrder : LegacyOrder[i] \in DialogTypes /\ LegacyOrder[i] # "none"
BY DEF LegacyOrder, DialogTypes, Flagged, Held, Transient

\* A dialogue that the older fields stand for is of a type that they ask about, new,
\* and an onboarding dialogue has a stage.
LEMMA FirstIsAsked ==
  ASSUME NEW s, NEW asking \in SUBSET DOMAIN LegacyOrder, asking # {},
         \A i \in asking : LegacyAsks(s, LegacyOrder[i])
  PROVE  \E i \in asking :
           FirstLegacy(s, asking) = Fresh(LegacyOrder[i], LegacyContext(s, LegacyOrder[i]))
<1>1. DOMAIN LegacyOrder = 1..10
  BY DEF LegacyOrder
<1>2. \E i \in asking : \A j \in asking : i <= j
  <2>1. asking \subseteq Nat
    BY <1>1
  <2>2. PICK i \in asking : \A j \in asking : ~(<<j, i>> \in OpToRel(<, Nat))
    BY <2>1, NatLessThanWellFounded, WFMin
  <2>3. \A j \in asking : ~(j < i)
    BY <2>1, <2>2 DEF OpToRel
  <2> QED BY <2>1, <2>3
<1> DEFINE first == CHOOSE i \in asking : \A j \in asking : i <= j
<1>3. first \in asking
  BY <1>2
<1>4. FirstLegacy(s, asking) = Fresh(LegacyOrder[first], LegacyContext(s, LegacyOrder[first]))
  BY DEF FirstLegacy
<1> QED BY <1>3, <1>4

LEMMA LegacyIsLive ==
  ASSUME NEW s
  PROVE  LET d == LegacyDialog(s)
         IN  \/ /\ d = NoDialog
                /\ \A i \in DOMAIN LegacyOrder : ~LegacyAsks(s, LegacyOrder[i])
             \/ /\ \E k \in DialogTypes \ {"none"} : d = Fresh(k, LegacyContext(s, k))
                /\ d.type = "onboarding" => s.stage # "none"
<1> DEFINE asking == {i \in DOMAIN LegacyOrder : LegacyAsks(s, LegacyOrder[i])}
<1>1. LegacyDialog(s) = FirstLegacy(s, asking)
  BY DEF LegacyDialog
<1>2. CASE asking = {}
  BY <1>1, <1>2 DEF FirstLegacy
<1>3. CASE asking # {}
  <2>1. asking \in SUBSET DOMAIN LegacyOrder OBVIOUS
  <2>2. \A i \in asking : LegacyAsks(s, LegacyOrder[i]) OBVIOUS
  <2> HIDE DEF asking
  <2>3. PICK i \in asking :
          FirstLegacy(s, asking) = Fresh(LegacyOrder[i], LegacyContext(s, LegacyOrder[i]))
    BY <1>3, <2>1, <2>2, FirstIsAsked
  <2> DEFINE k == LegacyOrder[i]
  <2>4. k \in DialogTypes \ {"none"} BY <2>1, LegacyTypes
  <2>5. LegacyAsks(s, k) BY <2>2
  <2> HIDE DEF k
  <2>6. k = "onboarding" => s.stage # "none" BY <2>5 DEF LegacyAsks
  <2>7. Fresh(k, LegacyContext(s, k)).type = k BY DEF Fresh
  <2>8. LegacyDialog(s) = Fresh(k, LegacyContext(s, k)) BY <1>1, <2>3 DEF k
  <2> QED BY <2>4, <2>6, <2>7, <2>8
<1> QED BY <1>2, <1>3

-----------------------------------------------------------------------------
(* Loading.                                                                *)

\* What is left of an expired dialogue is not expired.
LEMMA Dropped ==
  ASSUME NEW s, NEW Contexts, IsDocument(s, Contexts)
  PROVE  IsDocument(DropExpired(s), Contexts) /\ ~Expired(DropExpired(s).active)
<1>1. CASE Expired(s.active)
  <2>1. DropExpired(s) = [s EXCEPT !.active = NoDialog, !.flags = {}]
    BY <1>1 DEF DropExpired
  <2>2. /\ DropExpired(s).active = NoDialog /\ DropExpired(s).flags = {}
        /\ DropExpired(s).pending = s.pending
        /\ DOMAIN DropExpired(s) = DOMAIN s
    BY <2>1 DEF IsDocument
  <2>3. NoDialog \in [type : DialogTypes \union {"none"}, context : Contexts, left : Nat]
    BY DEF NoDialog, IsDocument
  <2>4. ~Expired(NoDialog)
    BY DEF Expired, NoDialog
  <2> QED BY <2>2, <2>3, <2>4 DEF IsDocument
<1>2. CASE ~Expired(s.active)
  BY <1>2 DEF DropExpired
<1> QED BY <1>1, <1>2

\* The live dialogue of a document without an expired one.
LEMMA LiveDialogue ==
  ASSUME NEW s, NEW Contexts, IsDocument(s, Contexts), ~Expired(s.active)
  PROVE  LET d == ActiveDialog(s)
         IN  /\ d.type = "none" => /\ d = NoDialog
                                   /\ \A i \in DOMAIN LegacyOrder : ~LegacyAsks(s, LegacyOrder[i])
             /\ d.type # "none" =>
                  /\ d \in [type : DialogTypes, context : Contexts, left : Nat]
                  /\ ~Expired(d)
                  /\ d.type = "onboarding" => s.stage # "none"
<1> DEFINE d == ActiveDialog(s)
<1>1. CASE s.active.type = "none" \/ (s.active.type = "onboarding" /\ s.stage = "none")
  <2>1. d = LegacyDialog(s)
    BY <1>1 DEF ActiveDialog
  <2>2. CASE d = NoDialog /\ \A i \in DOMAIN LegacyOrder : ~LegacyAsks(s, LegacyOrder[i])
    BY <2>2 DEF NoDialog
  <2>3. CASE /\ \E k \in DialogTypes \ {"none"} : d = Fresh(k, LegacyContext(s, k))
             /\ d.type = "onboarding" => s.stage # "none"
    <3>1. PICK k \in DialogTypes \ {"none"} : d = Fresh(k, LegacyContext(s, k))
      BY <2>3
    <3>2. Lifetime[k] \in Nat \ {0}
      BY DialogAssumption
    <3>3. LegacyContext(s, k) \in Contexts
      BY DEF LegacyContext, IsDocument
    <3>4. d.type = k /\ d.left = Lifetime[k]
      BY <3>1 DEF Fresh
    <3>5. d \in [type : DialogTypes, context : Contexts, left : Nat]
      BY <3>1, <3>2, <3>3 DEF Fresh
    <3>6. ~Expired(d)
      BY <3>2, <3>4 DEF Expired
    <3> QED BY <2>3, <3>4, <3>5, <3>6
  <2> QED BY <2>1, <2>2, <2>3, LegacyIsLive
<1>2. CASE ~(s.active.type = "none" \/ (s.active.type = "onboarding" /\ s.stage = "none"))
  <2>1. d = s.active
    BY <1>2 DEF ActiveDialog
  <2>2. s.active.type \in DialogTypes /\ s.active.type # "none"
    BY <1>2 DEF IsDocument
  <2>3. s.active \in [type : DialogTypes, context : Contexts, left : Nat]
    BY <2>2 DEF IsDocument
  <2> QED BY <1>2, <2>1, <2>2, <2>3
<1> QED BY <1>1, <1>2

\* However the handlers of earlier requests have left dialogue, flags and subjects,
\* and however long ago, the document that a request loads asks one question, of
\* which all three agree, and a later load finds the same one
\* (DialogStateManager.migrate_dialog).
THEOREM OneQuestionLoaded ==
  ASSUME NEW s, NEW Contexts, IsDocument(s, Contexts)
  PROVE  Agrees(Migrate(s)) /\ ActiveDialog(Migrate(s)) = Migrate(s).active
<1> DEFINE f == DropExpired(s)
           d == ActiveDialog(f)
           m == Migrate(s)
<1>1. IsDocument(f, Contexts) /\ ~Expired(f.active)
  BY Dropped
<1>2. m = MigrateTo(f, d)
  BY DEF Migrate
<1> HIDE DEF f, m
<1>3. CASE d.type = "none"
  <2>1. m = [f EXCEPT !.active = NoDialog, !.flags = {}, !.pending = [k \in Held |-> NoContext],
                      !.topic = NoSearch]
    BY <1>2, <1>3 DEF MigrateTo, Forgotten
  <2>2. /\ m.active = NoDialog /\ m.flags = {} /\ m.pending = [k \in Held |-> NoContext]
        /\ m.stage = f.stage /\ m.onboarded = f.onboarded
    BY <1>1, <2>1 DEF IsDocument
  <2>3. NoDialog.type = "none" /\ "none" \notin Flagged \union Copied
    BY DEF NoDialog, Flagged, Copied, Held
  <2>4. Agrees(m)
    BY <2>2, <2>3 DEF Agrees, Expired
  <2>5. \A i \in DOMAIN LegacyOrder : ~LegacyAsks(f, LegacyOrder[i])
    BY <1>1, <1>3, LiveDialogue
  <2>6. \A k \in DialogTypes : LegacyAsks(m, k) => LegacyAsks(f, k)
    BY <2>2 DEF LegacyAsks, Held
  <2>7. \A i \in DOMAIN LegacyOrder : ~LegacyAsks(m, LegacyOrder[i])
    BY <2>5, <2>6, LegacyTypes
  <2>8. LegacyDialog(m) = NoDialog
    BY <2>7 DEF LegacyDialog, FirstLegacy
  <2>9. m.active.type = "none" /\ ~Expired(m.active)
    BY <2>2, <2>3 DEF Expired
  <2>10. ActiveDialog(m) = m.active
    BY <2>2, <2>8, <2>9 DEF ActiveDialog
  <2> QED BY <2>4, <2>10 DEF m
<1>4. CASE d.type # "none"
  <2> DEFINE c == Context(f, d)
  <2>1. /\ d \in [type : DialogTypes, context : Contexts, left : Nat]
        /\ ~Expired(d)
        /\ d.type = "onboarding" => f.stage # "none"
    BY <1>1, <1>4, LiveDialogue
  <2>2. m = Agreeing(f, d, c)
    BY <1>2, <1>4 DEF MigrateTo
  <2> HIDE DEF c, d
  <2>3. /\ m.active = [d EXCEPT !.context = c]
        /\ m.flags = {d.type} \intersect Flagged
        /\ d.type \in Copied => m.pending = [f.pending EXCEPT ![d.type] = c]
        /\ m.stage = f.stage
    BY <1>1, <2>2 DEF IsDocument, Agreeing
  <2>4. m.active.type = d.type /\ m.active.left = d.left /\ m.active.context = c
    BY <2>1, <2>3
  <2>5. ~Expired(m.active)
    BY <2>1, <2>4 DEF Expired
  <2>6. d.type \in Copied => m.pending[d.type] = c
    BY <1>1, <2>3 DEF IsDocument, Copied
  <2>7. Agrees(m)
    BY <1>4, <2>3, <2>4, <2>5, <2>6 DEF Agrees
  <2>8. ActiveDialog(m) = m.active
    BY <1>4, <2>1, <2>3, <2>4, <2>5 DEF ActiveDialog
  <2> QED BY <2>7, <2>8 DEF m
<1> QED BY <1>3, <1>4

\* The question that a handler opens (Activate) is the one that the next request finds
\* live, with its context, whatever flags and subjects the same request writes before
\* or after it; a question of the setup needs its stage
\* (DialogStateManager.activate and migrate_dialog).
THEOREM ActivatedIsLive ==
  ASSUME NEW s, NEW Contexts, NEW k \in DialogTypes, NEW c \in Contexts,
         IsDocument(s, Contexts), s.active = Fresh(k, c),
         k = "onboarding" => s.stage # "none"
  PROVE  /\ Migrate(s).active.type = k
         /\ c # NoContext => Migrate(s).active.context = c
<1>1. s.active.type = k /\ s.active.context = c /\ s.active.left = Lifetime[k]
  BY DEF Fresh
<1>2. k # "none"
  BY DEF DialogTypes, Flagged, Held, Transient
<1>3. ~Expired(s.active)
  BY <1>1, DialogAssumption DEF Expired
<1>4. DropExpired(s) = s
  BY <1>3 DEF DropExpired
<1>5. ActiveDialog(s) = s.active
  BY <1>1, <1>2, <1>3 DEF ActiveDialog
<1>6. Migrate(s) = Agreeing(s, s.active, Context(s, s.active))
  BY <1>1, <1>2, <1>4, <1>5 DEF Migrate, MigrateTo
<1>7. Migrate(s).active = [s.active EXCEPT !.context = Context(s, s.active)]
  BY <1>6 DEF Agreeing, IsDocument
<1>8. s.active \in [type : DialogTypes \union {"none"}, context : Contexts, left : Nat]
  BY DEF IsDocument
<1>9. /\ Migrate(s).active.type = k
       /\ Migrate(s).active.context = Context(s, s.active)
  BY <1>1, <1>7, <1>8
<1>10. c # NoContext => Context(s, s.active) = c
  BY <1>1 DEF Context
<1> QED BY <1>9, <1>10

=============================================================================
