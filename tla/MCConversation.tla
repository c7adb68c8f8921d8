---------------------------- MODULE MCConversation ----------------------------
(* Instances of Conversation for TLC. *)
EXTENDS Conversation, MCPhrases, TLC

CONSTANTS t1, t2, e1, e2, n1, q1, q2, q3, q4, q5, q6, q7, s1, s2, c1, p1, p2, p3, p4, leeds, york

\* A publication of two tracks, and a recording on its own.
Recordings == <<t1, t2, e2>>

\* One notice, of a recording on its own.
OneItem == [n \in Notices |-> e1]

\* A tick of five minutes, which is what a resolved phrase lives.  Dialogues live
\* ten minutes; a rating half an hour, three ticks here.
Lifetimes == [k \in DialogTypes |-> IF k = "feedback" THEN 3 ELSE 2]

\* A topic, a topic of a publication, a source, its publications, the publication that
\* has the topic's name, a place, a topic at a place.
SevenSearches == {q1, q2, q3, q4, q5, q6, q7}
NoneBut(q, r) == [x \in SevenSearches |-> IF x = q THEN r ELSE NoSearch]
SourcesAsked == [q \in SevenSearches |-> IF q \in {q3, q4} THEN s1 ELSE NoSource]
Kinds ==
  (q1 :> "category") @@ (q2 :> "publication") @@ (q3 :> "organization") @@
  (q4 :> "publication") @@ (q5 :> "publication") @@ (q6 :> "location") @@ (q7 :> "location")
BroaderOf == NoneBut(q2, q5)
NamedBy == NoneBut(q1, q5)
PublicationsOf == NoneBut(q3, q4)
ForShapes ==
  ("namesake" :> q1) @@ ("place" :> q6) @@ ("mixed" :> q7) @@ ("source" :> q3) @@ ("topic" :> q2)
ThreeMeanings == <<q3, q5, q6>>

\* Local sources on one page; creators on two; recommended sources on two that
\* overlap; a source with recordings of its own and one publication; a source whose
\* publications take two pages, which overlap.
Catalogue ==
  ("local" :> <<<<s1, s2>>>>) @@ ("creators" :> <<<<c1>>, <<s1>>>>) @@
  ("recommended" :> <<<<s2, c1>>, <<s1, c1>>>>) @@
  (s1 :> <<<<p1>>>>) @@ (s2 :> <<<<p1, p2, p3>>, <<p3, p4>>>>) @@ (c1 :> <<>>)

\* Two towns whose names sound alike.
OneConfusion == {<<leeds, york>>}

\* What is said about recordings; about following their source; about notices; of
\* notices at each new session; about the source of what was heard; to find something;
\* to find a source; in the listener's own words; by a new listener, who may ask for
\* what is local before the setup; by one who sets up a town later, or who asks for what
\* is local.
RatingSays ==
  {"Yes", "No", "Launch", "Next", "Enjoyed", "NotEnjoyed", "SkipFeedback", "Rate", "Report",
   "Play"}
FollowSays == {"Yes", "No", "Launch", "Enjoyed", "Follow", "Unfollow", "Followed", "Play"}
NoticeSays == {"Yes", "No", "HearNotices", "Play", "Somewhat", "Unclear"}
FailingSays == {"Yes", "No", "Launch"}
LatestSays == {"Yes", "No", "Launch", "Play"}
FindingSays ==
  {"Yes", "No", "Launch", "Next", "Search", "Several", "Local", "Creators", "More", "Previous",
   "Dismiss", "Clarify", "Choose", "SkipFeedback", "Unclear", "Help", "Response", "Resume",
   "Stop", "Trending", "Recommend"}
SourceSays ==
  {"Yes", "No", "AnySource", "Newspaper", "Publication", "FindNewspaper", "FindPublication",
   "FindCreator", "Unclear", "Stop"}
WordSays == {"Yes", "Words"}
WelcomeSays == {"Yes", "No", "Launch", "Next", "Town", "Unclear", "Cancel"}
ProfileSays == {"Yes", "No", "Launch", "Local", "SetUpAccount"}
SetupSays == {"Yes", "Launch", "SetLocation", "SetUpAccount"}
LocalSays == {"Yes", "No", "Launch", "Local", "Town"}

Said(listener, says) ==
  [listener |-> listener, plays |-> {}, sourced |-> FALSE, notices |-> {},
   says |-> says, follows |-> {"down"}, fails |-> {}]
Played(notices, says) ==
  [listener |-> "settled", plays |-> {t1}, sourced |-> FALSE, notices |-> notices,
   says |-> says, follows |-> {"down"}, fails |-> {}]
Answered(s) == [s EXCEPT !.follows = {"down", "has", "lacks"}]
Sourced(s) == [s EXCEPT !.sourced = TRUE]

\* The updates of a notice by which it is settled, around one recording on its own; any
\* update, and any save.
Losing(s) == [s EXCEPT !.fails = {"queued", "dismissed", "consumed"}, !.plays = {e2}]
Failing(s) ==
  [s EXCEPT !.fails = {"offered", "resolving", "queued", "pending", "unavailable", "dismissed",
                       "consumed", "save"}]

AllScenarios ==
  {Played({}, RatingSays), Answered(Played({}, FollowSays)), Played({n1}, NoticeSays),
   Losing(Played({n1}, NoticeSays)), Failing(Played({n1}, FailingSays)),
   Sourced(Played({}, LatestSays)),
   Said("settled", FindingSays), Said("settled", SourceSays), Said("settled", WordSays),
   Said("new", WelcomeSays), Said("new", ProfileSays), Said("known", SetupSays),
   Said("known", LocalSays)}

\* A listener who finds something.
FindingAlone == {Said("settled", FindingSays)}

=============================================================================
