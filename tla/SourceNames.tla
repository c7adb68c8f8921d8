------------------------------ MODULE SourceNames ------------------------------
(***************************************************************************)
(* Phrases in their own words: what the resolver's entities make of a      *)
(* phrase, and phrases for a source (a talking newspaper, a publication, a *)
(* creator), which may lack its name.  The listener is then asked for it,  *)
(* and whatever is said next is taken for the name.  Operators on a turn,  *)
(* as in Listening.                                                        *)
(***************************************************************************)
EXTENDS Finding, EntityRanking

CONSTANT SearchOf   \* the search that a phrase of each shape stands for

\* A topic of which a publication has the name, a place, a place and more, a source,
\* anything else.
Shapes == {"namesake", "place", "mixed", "source", "topic"}

ASSUME SourcesAssumption ==
  /\ KindOf \in [Searches -> Types \union {"search"}]
  /\ SearchOf \in [Shapes -> Searches]
  /\ \A shape \in Shapes :
       /\ Named[SearchOf[shape]] # NoSearch <=> shape = "namesake"
       /\ KindOf[SearchOf[shape]] = "location" <=> shape \in {"place", "mixed"}
       /\ SearchOf[shape] \in Mixed <=> shape = "mixed"

-----------------------------------------------------------------------------
(* A phrase and its entities.                                              *)

Shape(p) ==
  CASE p.lead = "location" -> IF p.sources \union p.topics = {} THEN "place" ELSE "mixed"
    [] p.lead # "location" /\ p.choice # NoEntity -> "namesake"
    [] p.lead # "location" /\ p.choice = NoEntity /\ p.sources # {} -> "source"
    [] OTHER -> "topic"

\* The phrase asks for a source, and none of that kind was recognised.
RequiresClarification(p) == p.lead \in SourceTypes /\ OfType(p.sources, {p.lead}) = {}

\* confirmation_speech has no words for a tag of a source.
Unsayable(p) == p.lead = "tag" /\ p.sources # {}

\* ConfirmationPolicy.decide, for what the resolver makes of the phrase.
Decide(t, p) ==
  IF p.status = "ambiguous" THEN AskMeaning(t)
  ELSE IF RequiresClarification(p) \/ Unsayable(p) THEN Idle(t)
  ELSE Take(t, SearchOf[Shape(p)])

DiscoverWords(t) ==
  LET heard == t.world.heard
  IN  Decide(Does(t, "heard", heard), Payload(heard.entities, heard.service, FALSE))

-----------------------------------------------------------------------------
(* A source without its name.                                              *)

AskFor(t, k) == Says([t EXCEPT !.doc = Activate(@, k, NoContext)], k, NoItem)

AskNewspaper(t) == AskFor(t, "organization_name")

AskPublication(t) == AskFor(t, "publication_source")

\* Words that only sound like "talking newspaper" are asked back.
AskRepair(t) == AskFor(t, "asr_repair")

RepairYes(t) ==
  AskNewspaper([t EXCEPT !.doc = Raise(Clear(@, {"asr_repair"}), "organization_name")])

RepairNo(t) == Idle([t EXCEPT !.doc = Clear(@, {"asr_repair"})])

\* _local_discovery_resolution: the resolver need not be asked.  "again": the name
\* itself is said to be that of any talking newspaper.
AnySource(t, kind) ==
  CASE kind = "organization" -> AskNewspaper(t)
    [] kind = "repair" -> AskRepair(t)
    [] kind = "publication" -> AskPublication(t)
    [] kind = "creator" -> AskCreatorCity(t)
    [] OTHER -> Idle([t EXCEPT !.doc = Clear(@, {"organization_name"})])

-----------------------------------------------------------------------------
(* A source with a name.                                                   *)

\* A name that the resolver does not recognise: a newspaper's is asked for, and for
\* a publication's the catalogue is searched for the words.
NotRecognised(t, kind) ==
  IF kind = "organization" THEN AskNewspaper(t) ELSE HearFound(t, "words")

\* PlayByOrganizationIntent and PlayPublicationIntent.
PlaySource(t, kind, q) ==
  CASE t.world.lookup = "down" -> Idle(t)
    [] t.world.lookup = "several" -> AskMeaning(t)
    [] t.world.lookup = "match" /\ q \in Searches -> Take(t, q)
    [] OTHER -> NotRecognised(t, kind)

\* A source that was named as that of a publication: its publications are asked for.
Wanted(kind, q) ==
  IF kind = "publication" /\ EditionsOf[q] # NoSearch THEN EditionsOf[q] ELSE q

\* Mutant: the question for the name stays open.
AnswerNameOpen(t, dialog, q) ==
  LET kind == IF dialog = "organization_name" THEN "organization" ELSE "publication"
  IN  IF t.world.lookup # "match" \/ q \notin Searches THEN PlaySource(t, kind, q)
      ELSE IF kind = "organization" /\ KindOf[q] # "organization" THEN Idle(t)
      ELSE Present(t, Wanted(kind, q))

\* _resolve_follow_up: the phrase is the name that was asked for, of that kind
\* whatever the phrase says.  One that is resolved closes the question, although it
\* is no talking newspaper.
AnswerName(t, dialog, q) ==
  LET kind == IF dialog = "organization_name" THEN "organization" ELSE "publication"
      closed == [t EXCEPT !.doc = Clear(@, {dialog})]
  IN  IF t.world.lookup # "match" \/ q \notin Searches THEN PlaySource(t, kind, q)
      ELSE IF kind = "organization" /\ KindOf[q] # "organization" THEN Idle(closed)
      ELSE Present(closed, Wanted(kind, q))

\* _reject_implausible_search_query_source leaves the reference unresolved.
Unresolved(t, kind) ==
  CASE kind = "organization" -> Idle([t EXCEPT !.doc = Lower(@, "organization_name")])
    [] kind = "creator" -> AskCreatorCity(t)
    [] OTHER -> Idle(t)

\* SearchCreatorIntent, SearchOrganizationIntent and SearchPublicationIntent: what is
\* found has to be a source, whose name is that of the phrase.
FindSource(t, kind, q) ==
  CASE t.world.lookup = "down" -> Idle(t)
    [] t.world.lookup = "several" -> AskMeaning(t)
    [] t.world.lookup = "match" /\ KindOf[q] \in SourceTypes -> Present(t, q)
    [] OTHER -> Unresolved(t, kind)

=============================================================================
