------------------------------ MODULE DialogState ------------------------------
(***************************************************************************)
(* The dialogue part of the listener's document: which question the skill  *)
(* is waiting to have answered (activeDialog), the older boolean flags     *)
(* that say the same (awaitingFeedback, awaitingResume, ...), and what the *)
(* question is about (pendingFeedback, pendingResolution, ...).  Handlers  *)
(* write the three separately; loading the document at the start of a      *)
(* request (migrate_dialog) makes them agree again.                        *)
(*                                                                         *)
(* A dialogue is a record of its type, its context and the ticks of time   *)
(* it has left.  Operators take a document, any record that has the fields *)
(* active, flags, pending, topic, stage, setup and onboarded, and return   *)
(* it changed.                                                             *)
(***************************************************************************)
EXTENDS Naturals

CONSTANTS
  NoContext,  \* the absence of a context
  NoSearch,   \* the absence of a search
  NoTown,     \* the absence of a town
  Lifetime    \* ticks that a dialogue of each type lives

\* Dialogues that a flag of the document stands for as well.
Flagged ==
  {"search_confirmation", "feedback", "report_decision", "resume", "notification",
   "organization_name", "publication_source", "feedback_continuation"}

\* Dialogues whose subject the document keeps in a field of its own.
Held ==
  {"search_confirmation", "feedback", "report_decision", "ambiguity", "latest_source",
   "notification", "feedback_continuation"}

\* Dialogues that Alexa's session, not the document, should outlive.
Transient ==
  {"search_confirmation", "ambiguity", "availability", "asr_repair", "organization_name",
   "creator_location", "publication_source", "help"}

DialogTypes == Flagged \union Held \union Transient \union {"onboarding"}

ASSUME DialogAssumption == Lifetime \in [DialogTypes -> Nat \ {0}]

NoDialog == [type |-> "none", context |-> NoContext, left |-> 0]

-----------------------------------------------------------------------------
(* Which dialogue is live.                                                 *)

\* What a dialogue that is known by its flag alone is about.
LegacyContext(s, k) == IF k \in Held THEN s.pending[k] ELSE NoContext

\* The document's older fields ask this question.
LegacyAsks(s, k) ==
  CASE k = "search_confirmation" -> k \in s.flags /\ s.pending[k] # NoContext
    [] k = "ambiguity" -> s.pending[k] # NoContext
    [] k = "onboarding" -> s.stage # "none" /\ ~s.onboarded
    [] OTHER -> k \in s.flags

\* In this order.
LegacyOrder ==
  <<"search_confirmation", "ambiguity", "organization_name", "publication_source",
    "onboarding", "report_decision", "feedback", "feedback_continuation", "resume",
    "notification">>

Fresh(k, c) == [type |-> k, context |-> c, left |-> Lifetime[k]]

FirstLegacy(s, asking) ==
  IF asking = {} THEN NoDialog
  ELSE LET first == CHOOSE i \in asking : \A j \in asking : i <= j
       IN  Fresh(LegacyOrder[first], LegacyContext(s, LegacyOrder[first]))

LegacyDialog(s) == FirstLegacy(s, {i \in DOMAIN LegacyOrder : LegacyAsks(s, LegacyOrder[i])})

Expired(d) == d.type \notin {"none", "onboarding"} /\ d.left = 0

\* A dialogue that has expired does not fall back on the flags; an onboarding
\* dialogue without a stage does.
ActiveDialog(s) ==
  IF Expired(s.active) THEN NoDialog
  ELSE IF s.active.type = "none" \/ (s.active.type = "onboarding" /\ s.stage = "none")
  THEN LegacyDialog(s)
  ELSE s.active

-----------------------------------------------------------------------------
(* Loading the document: one dialogue, and flags and subjects that agree.  *)

Forgotten(s) ==
  [s EXCEPT !.active = NoDialog, !.flags = {}, !.pending = [k \in Held |-> NoContext],
            !.topic = NoSearch]

\* An expired dialogue takes the flags with it, but not what the questions are
\* about: of the older fields, pendingAmbiguity still asks one.
DropExpired(s) ==
  IF Expired(s.active) THEN [s EXCEPT !.active = NoDialog, !.flags = {}] ELSE s

\* Subjects that loading the document copies between dialogue and field.
Copied == Held \ {"feedback_continuation"}

\* A context that the dialogue lacks comes from the older field.
Context(s, d) ==
  IF d.context = NoContext /\ d.type \in Copied THEN s.pending[d.type] ELSE d.context

\* The document agrees with its dialogue d, whose context is c.  A phrase is
\* kept only while the publication of its name is asked about.
Agreeing(s, d, c) ==
  [s EXCEPT !.active = [d EXCEPT !.context = c],
            !.flags = {d.type} \intersect Flagged,
            !.pending = IF d.type \in Copied THEN [@ EXCEPT ![d.type] = c] ELSE @,
            !.topic = IF d.type = "search_confirmation" /\ c # NoContext /\ c.choice
                      THEN @ ELSE NoSearch]

MigrateTo(s, d) == IF d.type = "none" THEN Forgotten(s) ELSE Agreeing(s, d, Context(s, d))

Migrate(s) == MigrateTo(DropExpired(s), ActiveDialog(DropExpired(s)))

-----------------------------------------------------------------------------
(* What handlers do to it.                                                 *)

Raise(s, k) == [s EXCEPT !.flags = @ \union {k}]
Lower(s, k) == [s EXCEPT !.flags = @ \ {k}]
Hold(s, k, c) == [s EXCEPT !.pending[k] = c]
Release(s, k) == Hold(s, k, NoContext)

\* Mutant: a dialogue that is live is not replaced.
ActivateBehind(s, k, c) ==
  IF s.active.type # "none" THEN s
  ELSE [s EXCEPT !.active = Fresh(k, c), !.flags = {k} \intersect Flagged]

\* activate: the dialogue replaces any other, and so does its flag.
Activate(s, k, c) ==
  [s EXCEPT !.active = Fresh(k, c), !.flags = {k} \intersect Flagged]

\* clear: only a dialogue of one of these types, expired or not.
ClearOf(s, k, types) ==
  IF k \in types THEN [s EXCEPT !.active = NoDialog, !.flags = @ \ {k}] ELSE s

Clear(s, types) ==
  ClearOf(s, IF s.active.type # "none" THEN s.active.type ELSE ActiveDialog(s).type, types)

\* clear_transient_discovery.
ClearTransient(s) ==
  LET searching == \/ "search_confirmation" \in s.flags
                   \/ s.pending["search_confirmation"] # NoContext
                   \/ s.pending["ambiguity"] # NoContext
      drops == s.active.type \in Transient \/ (s.active.type = "none" /\ searching)
  IN  [s EXCEPT
        !.active = IF drops THEN NoDialog ELSE @,
        !.flags = @ \ {"search_confirmation", "organization_name", "publication_source"},
        !.pending["search_confirmation"] = NoContext,
        !.pending["ambiguity"] = NoContext]

\* dismiss_ambiguity.
DismissAmbiguity(s) == [Release(s, "ambiguity") EXCEPT !.active = NoDialog]

-----------------------------------------------------------------------------
(* The listener's setup, when another conversation has passed it by.       *)

\* Replies and lookups that failed, the town to be confirmed, places that sound
\* alike, and whether the listener was asked to set up a profile, its permission,
\* or a town for it, and whether local content waits for the town.
NothingSetUp ==
  [attempts |-> 0, failures |-> 0, candidate |-> NoTown, choices |-> <<>>,
   consent |-> FALSE, permission |-> FALSE, profileTown |-> FALSE,
   profileActive |-> FALSE, community |-> FALSE]

SetupOpen(s) ==
  \/ s.stage # "none" \/ s.setup.candidate # NoTown
  \/ s.setup.permission \/ s.setup.consent
  \/ s.setup.profileTown \/ s.setup.profileActive

ForgetSetup(s) == [s EXCEPT !.stage = "none", !.setup = NothingSetUp]

-----------------------------------------------------------------------------
\* A tick of time.
Aged(d) == [d EXCEPT !.left = IF @ > 0 THEN @ - 1 ELSE 0]

=============================================================================
