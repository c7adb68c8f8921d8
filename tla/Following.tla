------------------------------- MODULE Following -------------------------------
(***************************************************************************)
(* What a session knows of whether the listener follows the source of what *)
(* plays (FollowingSessionState).  The backend learns of a follow or an    *)
(* unfollow only when the outbox delivers its event, so that what it       *)
(* answers may be older than what the listener said in this session.       *)
(*                                                                         *)
(* A session is a record: known, the snapshot of the backend's projection, *)
(* and said, the override of the listener's last command.  Both are        *)
(* "unknown", "has" (the listener follows the source) or "lacks".          *)
(***************************************************************************)

Standings == {"unknown", "has", "lacks"}
Sessions == [known : Standings, said : Standings]

NoSession == [known |-> "unknown", said |-> "unknown"]

\* Mutant: a snapshot that has arrived counts for more than what was said.
AppliedLate(said, known) == IF known = "unknown" THEN said ELSE known

\* _apply_overrides, and what status asks: what was said counts first.
Applied(said, known) == IF said = "unknown" THEN known ELSE said

Status(n) == Applied(n.said, n.known)

\* followed_sources: without a snapshot, none are known.
FollowsKnown(n) == n.known # "unknown" /\ Status(n) = "has"

\* replace_snapshot.
ReplaceSnapshot(n, answer) == [n EXCEPT !.known = Applied(n.said, answer)]

\* record.
Record(n, standing) ==
  [known |-> IF n.known = "unknown" THEN "unknown" ELSE standing, said |-> standing]

\* The identity interceptor asks for the projection while the session has none.
Hydrate(n, answer) ==
  IF n.known # "unknown" \/ answer = "down" THEN n ELSE ReplaceSnapshot(n, answer)

\* sync_for_launch.
SyncForLaunch(n, answer) == IF answer = "down" THEN n ELSE ReplaceSnapshot(n, answer)

\* FollowCheck: what the session does not say is asked of the backend, which may
\* not answer; and a yes is recorded.
AlreadyFollowing(n, answer) == Status(n) = "has" \/ answer = "has"

Checked(n, answer) ==
  IF Status(n) # "has" /\ answer = "has" THEN Record(n, "has") ELSE n

=============================================================================
