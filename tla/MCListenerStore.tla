--------------------------- MODULE MCListenerStore ---------------------------
(* Instances of ListenerStore for TLC. *)
EXTENDS ListenerStore, TLC

CONSTANTS r1, r2, r3, e1

Symmetry == Permutations(Requests)

Change(fields, emits, audio) ==
  [fields |-> fields, emits |-> emits, audio |-> audio, reliable |-> FALSE]

\* Essential commits: a play counted together with its playback, an answered
\* dialog with its event, a clock event.
CommitFields == {"playCount", "activePlayback", "activeDialog"}
CommitEdits == {Change({"playCount", "activePlayback"}, {}, FALSE),
                Change({"activeDialog", "playCount"}, {e1}, FALSE),
                NoEdit}

\* Independent scopes: an AudioPlayer event, a location, a dialog, and a
\* finished play.
ScopeFields == {"locality", "activePlayback", "activeDialog", "playHistory"}
ScopeEdits == {Change({"activePlayback", "playHistory"}, {}, TRUE),
               Change({"activePlayback"}, {}, FALSE),
               Change({"locality", "playHistory"}, {}, FALSE),
               Change({"activeDialog"}, {}, FALSE)}

\* Two first plays of a new listener.
PlayFields == {"playCount", "activePlayback"}
PlayEdits == {Change(PlayFields, {}, FALSE)}

\* Dialogs stored and expired.
DialogFields == {"activeDialog", "pendingContext"}
DialogEdits == {Change({"activeDialog"}, {}, FALSE)}

\* A location set, a dialog answered.
AliasFields == {"locality", "activeDialog"}
AliasEdits == {Change({"locality"}, {}, FALSE), Change({"activeDialog"}, {}, FALSE)}
=============================================================================
