--------------------------------- MODULE Setup ---------------------------------
(***************************************************************************)
(* Setting the listener up: may the skill read the device's address, which *)
(* town is it, is that the right town, and the listener profile with its   *)
(* permissions.  A request for local content without a town starts it too, *)
(* and waits for it to end.  Operators on a turn, as in Listening.         *)
(*                                                                         *)
(* The session attributes repeat the stage and the candidate.  They are    *)
(* left out: inside a session they say what the document says.             *)
(***************************************************************************)
EXTENDS SourceNames

CONSTANTS
  MaxTownAttempts,    \* replies that are not understood before setup gives up
  MaxTownFailures     \* lookups that fail before setup gives up

ASSUME SetupAssumption == MaxTownAttempts \in Nat \ {0} /\ MaxTownFailures \in Nat \ {0}

\* What a listener who is asked for a town may say, other than its name.
Replies == Towns \union {"skip", "content", "second", "nothing"}

Stages == {"none", "ask_permission", "ask_town", "await_location_confirm"}

-----------------------------------------------------------------------------
(* OnboardingState.                                                        *)

\* start_town_capture, as begin_town_capture calls it.
StartTownCapture(s) ==
  [Release(s, "ambiguity") EXCEPT
     !.stage = "ask_town", !.setup.attempts = 0, !.setup.failures = 0, !.setup.choices = <<>>]

RequestLocationChange(s) ==
  [Release(s, "ambiguity") EXCEPT
     !.stage = "ask_town", !.setup.attempts = 0, !.setup.choices = <<>>]

\* Mutant: a town that awaits confirmation already is not replaced.
AwaitConfirmationFirst(s, town) ==
  [s EXCEPT !.stage = "await_location_confirm", !.setup.choices = <<>>,
            !.setup.candidate = IF @ = NoTown THEN town ELSE @]

AwaitConfirmation(s, town) ==
  [s EXCEPT !.stage = "await_location_confirm", !.setup.candidate = town,
            !.setup.choices = <<>>]

ClearConfirmation(s) == [s EXCEPT !.stage = "none", !.setup.candidate = NoTown]

\* Mutant: setup that ends without a town is not over.
CompleteWithoutLocationOpen(s) ==
  [s EXCEPT !.stage = "none", !.setup.attempts = 0, !.setup.failures = 0,
            !.setup.candidate = NoTown, !.setup.choices = <<>>]

CompleteWithoutLocation(s) ==
  [s EXCEPT !.stage = "none", !.onboarded = TRUE, !.setup.attempts = 0,
            !.setup.failures = 0, !.setup.candidate = NoTown, !.setup.choices = <<>>]

CompleteLocation(s, town, community) ==
  [CompleteWithoutLocation(s) EXCEPT !.city = town, !.setup.community = @ \/ community]

AskTown(s) == Activate(s, "onboarding", NoContext)
EndTown(s) == Clear(s, {"onboarding"})

\* The listener's profile needs no town any more.
EndProfile(s) ==
  [s EXCEPT !.setup.permission = FALSE, !.setup.profileTown = FALSE,
            !.setup.profileActive = FALSE]

-----------------------------------------------------------------------------
(* Onboarding.                                                             *)

AsksTown(t) == Says(t, "town", NoItem)

AskForPermission(t) ==
  Says([t EXCEPT !.doc = AskTown([@ EXCEPT !.stage = "ask_permission"])], "permission", NoItem)

\* handle_permission_no.
HandlePermissionNo(t) == Idle([t EXCEPT !.doc = EndTown(CompleteWithoutLocation(@))])

\* Mutant: one attempt more than the limit.
ResumeTownCaptureOnce(t) ==
  LET n == t.doc.setup.attempts + 1
      noted == [t EXCEPT !.doc.setup.attempts = n]
  IN  IF n > MaxTownAttempts
      THEN Idle([noted EXCEPT !.doc = EndTown(CompleteWithoutLocation(@))])
      ELSE AsksTown(noted)

ResumeTownCapture(t) ==
  LET n == t.doc.setup.attempts + 1
      noted == [t EXCEPT !.doc.setup.attempts = n]
  IN  IF n >= MaxTownAttempts
      THEN Idle([noted EXCEPT !.doc = EndTown(CompleteWithoutLocation(@))])
      ELSE AsksTown(noted)

TownResolverUnavailable(t) ==
  LET n == t.doc.setup.failures + 1
  IN  IF n < MaxTownFailures
      THEN AsksTown([t EXCEPT !.doc = AskTown([@ EXCEPT !.stage = "ask_town",
                                                        !.setup.failures = n])])
      ELSE Idle([t EXCEPT !.doc = EndTown(CompleteWithoutLocation(@))])

\* What the listener was asking for when the town was wanted is not carried on.
FinalizeTownSkipped(t) ==
  LET done == [t EXCEPT !.doc = CompleteWithoutLocation(@)]
      profile == [done EXCEPT !.doc = EndTown(EndProfile(@))]
      local == [done EXCEPT !.doc = EndTown([@ EXCEPT !.setup.community = FALSE,
                                                      !.setup.permission = FALSE])]
      asking == [done EXCEPT !.doc = EndTown([@ EXCEPT !.setup.permission = TRUE])]
  IN  CASE t.doc.setup.profileActive -> Idle(profile)
        [] ~t.doc.setup.profileActive /\ t.doc.setup.community -> Idle(local)
        [] OTHER -> Says(asking, "profile", NoItem)

\* A reply that picks one of the places that sound similar.
PicksTown(s, reply) ==
  \/ \E k \in DOMAIN s.setup.choices : s.setup.choices[k] = reply
  \/ reply = "second" /\ Len(s.setup.choices) >= 2

PickedTown(s, reply) == IF reply = "second" THEN s.setup.choices[2] ELSE reply

\* stage_town_confirmation, once the reply is looked up.  The resolver may not
\* find a place again that it had offered.
TownFound(t, reply, picked) ==
  LET kept == [t EXCEPT !.doc.setup.failures = 0]
      several == {c \in TownChoices : \E k \in DOMAIN c : c[k] = reply}
  IN  CASE (t.world.lookup = "match" /\ reply \in Towns) \/ picked ->
             Says([kept EXCEPT !.doc = AskTown(AwaitConfirmation(@, reply))],
                  "confirm_city", reply)
        [] t.world.lookup = "several" /\ ~picked /\ several # {} ->
             Says([kept EXCEPT !.doc.stage = "ask_town",
                               !.doc.setup.choices = CHOOSE c \in several : TRUE],
                  "which_town", NoItem)
        [] OTHER -> ResumeTownCapture(kept)

StageTownConfirmation(t, reply) ==
  LET s == t.doc
      picked == s.setup.choices # <<>> /\ PicksTown(s, reply)
      name == IF picked THEN PickedTown(s, reply) ELSE reply
      looking == [t EXCEPT !.doc.setup.choices = <<>>]
  IN  CASE reply = "skip" -> FinalizeTownSkipped(t)
        [] reply = "content" -> ResumeTownCapture(t)
        [] reply = "second" /\ s.setup.choices # <<>> /\ ~picked -> ResumeTownCapture(t)
        [] OTHER -> IF t.world.lookup = "down" THEN TownResolverUnavailable(looking)
                    ELSE TownFound(looking, name, picked)

\* TownCapture; a reply without a slot names nothing.
CaptureTown(t, reply) ==
  IF reply = "nothing" THEN ResumeTownCapture(t) ELSE StageTownConfirmation(t, reply)

\* SetLocation.
SetLocation(t, reply) ==
  IF reply = "nothing"
  THEN AsksTown([t EXCEPT !.doc = AskTown(RequestLocationChange(@))])
  ELSE StageTownConfirmation(t, reply)

-----------------------------------------------------------------------------
(* Permission and profile.                                                 *)

\* complete_first_run: the device's address, if it may be read.
CompleteFirstRun(t) ==
  CASE t.world.device = "resolved" ->
         Idle([t EXCEPT !.doc = [EndTown(CompleteLocation(@, DeviceTown, FALSE))
                                   EXCEPT !.known = TRUE]])
    [] t.world.device = "denied" ->
         AsksTown([t EXCEPT !.doc = AskTown(StartTownCapture(@))])
    [] OTHER ->
         Idle([t EXCEPT !.doc = [EndTown(CompleteWithoutLocation(@)) EXCEPT !.known = TRUE]])

AskProfileSetup(t) == Says([t EXCEPT !.doc.setup.consent = TRUE], "profile", NoItem)

BeginManualProfile(t) ==
  AsksTown([t EXCEPT !.doc = AskTown([StartTownCapture(@) EXCEPT
                                        !.setup.permission = FALSE,
                                        !.setup.profileTown = TRUE,
                                        !.setup.profileActive = TRUE])])

\* Mutant: the request for local content is not taken up again.
StartProfileAlone(t) ==
  LET agreed == [t EXCEPT !.doc.setup.consent = FALSE, !.doc.known = @ \/ t.world.scopes]
  IN  IF ~t.world.scopes \/ t.world.device # "resolved" THEN BeginManualProfile(agreed)
      ELSE Idle([agreed EXCEPT !.doc = EndProfile(CompleteLocation(@, DeviceTown, FALSE))])

\* start_profile: with the permissions, the profile is read and the device
\* located; without, the listener is asked for a town.  Local content that waits for a
\* town is played if there is one.
StartProfile(t) ==
  LET agreed == [t EXCEPT !.doc.setup.consent = FALSE, !.doc.known = @ \/ t.world.scopes]
      located == [agreed EXCEPT !.doc = EndProfile(CompleteLocation(@, DeviceTown, FALSE))]
      started == IF ~t.world.scopes \/ t.world.device # "resolved"
                 THEN BeginManualProfile(agreed) ELSE Idle(located)
      s == started.doc
  IN  IF s.setup.community /\ s.city # NoTown THEN PlayCommunity(started) ELSE started

\* finalize_profile_skipped.
FinalizeProfileSkipped(t) == Idle([t EXCEPT !.doc.setup.permission = FALSE, !.doc.known = TRUE])

\* Affirmative._confirm_location.
ConfirmLocation(t) ==
  LET town == t.doc.setup.candidate
      waiting == t.doc.setup.community
      done == [t EXCEPT !.doc = EndTown(CompleteLocation(@, town, waiting))]
      kept == [done EXCEPT !.doc = IF @.setup.profileActive THEN EndProfile(@) ELSE @]
      ended == [kept EXCEPT !.doc.known = @ \/ t.doc.setup.profileActive]
  IN  IF waiting THEN PlayCommunity(ended) ELSE Idle(ended)

\* Declining the town that was understood.
DeclineTown(t) == AsksTown([t EXCEPT !.doc = ClearConfirmation(@)])

-----------------------------------------------------------------------------
(* The gates of setup.                                                     *)

IsNew(s) == ~s.onboarded /\ ~s.known

\* A town is being captured: the reply is one, whatever its intent.
CapturingTown(s) ==
  /\ s.stage = "ask_town"
  /\ \/ s.active.type = "onboarding"
     \/ s.active.type = "none" /\ s.setup.profileActive /\ s.setup.profileTown

\* The stages in which an intent that names a town is heard as one.
LocationActive(s) ==
  \/ s.active.type = "onboarding" /\ s.stage # "none"
  \/ CapturingTown(s)

SkipsSetup(t) ==
  IF t.doc.setup.permission THEN FinalizeProfileSkipped(t) ELSE FinalizeTownSkipped(t)

\* OnboardingGateHandler takes the request of a new listener.
GateTakes(s, intent) ==
  /\ ~s.setup.consent /\ IsNew(s)
  /\ intent \notin {"Stop", "Cancel", "SetUpAccount", "SetLocation"}
  /\ \/ s.stage \in {"none", "ask_permission"}
     \/ intent \in {"SkipFeedback", "Next"}
     \/ s.stage = "ask_town" /\ intent \notin {"Town", "No", "SkipFeedback"}
     \/ s.stage = "await_location_confirm" /\ intent \notin {"Yes", "No", "Town"}

Gate(t, intent, reply) ==
  LET s == t.doc
  IN  CASE intent \in {"SkipFeedback", "Next"} -> SkipsSetup(t)
        [] s.stage = "ask_town" -> ResumeTownCapture(t)
        [] s.stage = "await_location_confirm" ->
             Says(t, "confirm_city", s.setup.candidate)
        [] OTHER ->
             CASE intent = "Yes" -> CompleteFirstRun(t)
               [] intent = "No" -> HandlePermissionNo(t)
               [] intent = "Town" -> CaptureTown([t EXCEPT !.doc = StartTownCapture(@)], reply)
               [] OTHER -> Says(t, "permission", NoItem)

\* _repair_stale_returning_setup, at a launch.
RepairSetup(s) ==
  IF s.onboarded /\ (s.active.type = "onboarding" \/ SetupOpen(s))
  THEN [ForgetSetup(s) EXCEPT !.active = NoDialog, !.setup.choices = s.setup.choices]
  ELSE s

=============================================================================
