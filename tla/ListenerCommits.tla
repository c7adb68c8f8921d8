--------------------------- MODULE ListenerCommits ---------------------------
(***************************************************************************)
(* What the listener store promises for essential commits, without rows,   *)
(* versions, retries or transactions: a request takes effect at most once  *)
(* and as a whole, its play and its events at the same moment, and it is   *)
(* answered with success only afterwards.  A refused request may still     *)
(* take effect: its answer was lost, not its write.                        *)
(***************************************************************************)
EXTENDS Naturals

CONSTANTS Requests, Events, Start

VARIABLES
  applied,    \* requests that took effect
  plays,      \* plays counted
  published,  \* events handed to the outbox
  answer      \* what each request's caller was told

vars == <<applied, plays, published, answer>>

Answers == {"none", "unchanged", "saved", "refused"}

Init ==
  /\ applied = {}
  /\ plays = Start
  /\ published = {}
  /\ answer = [r \in Requests |-> "none"]

\* The one moment at which a request takes effect.
Apply(r) ==
  /\ r \notin applied
  /\ answer[r] \in {"none", "refused"}
  /\ applied' = applied \cup {r}
  /\ \E played \in {0, 1} : plays' = plays + played
  /\ \E events \in SUBSET Events : published' = published \cup events
  /\ UNCHANGED answer

Answer(r, a) ==
  /\ answer[r] = "none"
  /\ a = "saved" => r \in applied
  /\ a = "unchanged" => r \notin applied
  /\ answer' = [answer EXCEPT ![r] = a]
  /\ UNCHANGED <<applied, plays, published>>

Next ==
  \E r \in Requests :
    Apply(r) \/ \E a \in Answers \ {"none"} : Answer(r, a)

Spec == Init /\ [][Next]_vars

=============================================================================
