----------------------------- MODULE EntityRanking -----------------------------
(***************************************************************************)
(* What a phrase names.  The resolver service reports entities, each of a  *)
(* type, over a span of the phrase and with its evidence; EntityRanker     *)
(* keeps those that may be meant together, or finds that the listener has  *)
(* to choose, and ResolverResult turns them into a search.                 *)
(*                                                                         *)
(* Evidence is a tuple that the code compares lexicographically (a place's *)
(* role and type, the confidence, the method, the length): a number here.  *)
(***************************************************************************)
EXTENDS Integers, FiniteSets

Types == {"organization", "location", "category", "tag", "publication", "creator"}

SourceTypes == {"organization", "publication", "creator"}

TypePriority ==
  [type \in Types |->
    CASE type = "organization" -> 6 [] type = "location" -> 5 [] type = "category" -> 4
      [] type = "tag" -> 3 [] type = "publication" -> 2 [] type = "creator" -> 1]

\* Words first+1 to last of the phrase; sure: the confidence suffices for a facet;
\* phonetic: a place that only sounds like the phrase; kind: a tag that says no
\* more than "talking newspaper".
Entity ==
  [type : Types, id : STRING, name : STRING, first : Nat, last : Nat, evidence : Nat,
   sure : BOOLEAN, phonetic : BOOLEAN, kind : BOOLEAN]

NoEntity ==
  [type |-> "none", id |-> "", name |-> "", first |-> 0, last |-> 0, evidence |-> 0,
   sure |-> FALSE, phonetic |-> FALSE, kind |-> FALSE]

OfType(E, types) == {e \in E : e.type \in types}

-----------------------------------------------------------------------------
(* How two entities compare.                                               *)

Overlaps(a, b) ==
  (IF a.first > b.first THEN a.first ELSE b.first) < (IF a.last < b.last THEN a.last ELSE b.last)

\* A creator that is the projection of an organization.
SourceDuplicate(a, b) ==
  /\ {a.type, b.type} = {"organization", "creator"}
  /\ Overlaps(a, b) \/ a.name = b.name

Compatible(a, b) == {a.type, b.type} = {"category", "tag"}

Outranks(a, b) ==
  \/ TypePriority[a.type] > TypePriority[b.type]
  \/ TypePriority[a.type] = TypePriority[b.type] /\ a.evidence > b.evidence

\* Of equal rank, the one that is said first.
Before(a, b) ==
  Outranks(a, b) \/ (~Outranks(b, a) /\ a.first < b.first)

-----------------------------------------------------------------------------
(* rank.                                                                   *)

\* Those that are sure enough for a facet; a place that only sounds like the phrase
\* counts alone; an organization counts once.
Sure(E) == {e \in E : e.sure}

Spelled(E) ==
  {e \in E : e.type = "location" /\ e.phonetic => OfType(E, Types \ {"location"}) = {}}

Single(E) ==
  {e \in E : e.type = "creator" =>
     \A o \in OfType(E, {"organization"}) : ~SourceDuplicate(e, o)}

Candidates(E) == Single(Spelled(Sure(E)))

\* Mutant: entities of any two types may be meant together.
UnrivalledAcrossTypes(C) ==
  {e \in C : \A o \in C \ {e} :
     Overlaps(e, o) /\ e.type = o.type => ~Outranks(o, e)}

Unrivalled(C) ==
  {e \in C : \A o \in C \ {e} :
     Overlaps(e, o) /\ ~Compatible(e, o) => ~Outranks(o, e)}

\* Mutant: entities of one name are not tied.
TiedByName(A) ==
  {e \in A : \E o \in A \ {e} :
     /\ e.type = o.type /\ e.id # o.id /\ e.name # o.name
     /\ Overlaps(e, o) /\ e.evidence = o.evidence}

Tied(A) ==
  {e \in A : \E o \in A \ {e} :
     /\ e.type = o.type /\ e.id # o.id
     /\ Overlaps(e, o) /\ e.evidence = o.evidence}

BestPlaces(A) ==
  LET places == OfType(A, {"location"})
  IN  {e \in places : \A o \in places : e.evidence >= o.evidence}

SeveralPlaces(A) == \E a, b \in BestPlaces(A) : a.id # b.id

\* One place is kept.
KeepPlace(A) ==
  OfType(A, Types \ {"location"})
    \union (IF BestPlaces(A) = {} THEN {} ELSE {CHOOSE e \in BestPlaces(A) : TRUE})

Primary(A) ==
  IF A = {} THEN NoEntity ELSE CHOOSE e \in A : \A o \in A : ~Before(o, e)

\* A publication that is named by the very words of a topic.
Namesakes(C, A) ==
  {p \in OfType(C, {"publication"}) :
     \E topic \in OfType(A, {"category", "tag"}) : Overlaps(p, topic)}

BestNamesakes(C, A) ==
  {p \in Namesakes(C, A) : \A o \in Namesakes(C, A) : p.evidence >= o.evidence}

\* Mutant: a publication is offered although the phrase names a source.
PublicationChoiceAlways(C, A) ==
  LET best == BestNamesakes(C, A)
  IN  IF best = {} \/ (\E a, b \in best : a.id # b.id) THEN NoEntity
      ELSE CHOOSE p \in best : TRUE

PublicationChoice(C, A) ==
  LET best == BestNamesakes(C, A)
  IN  IF \/ OfType(A, {"organization", "location", "publication"}) # {}
         \/ best = {} \/ \E a, b \in best : a.id # b.id
      THEN NoEntity
      ELSE CHOOSE p \in best : TRUE

Ranking(primary, accepted, ambiguous, choice) ==
  [primary |-> primary, accepted |-> accepted, ambiguous |-> ambiguous, choice |-> choice]

Rank(E) ==
  LET C == Candidates(E)
      A == Unrivalled(C)
      K == KeepPlace(A)
  IN  IF Tied(A) # {} THEN Ranking(NoEntity, A, Tied(A), NoEntity)
      ELSE IF SeveralPlaces(A) THEN Ranking(NoEntity, A, BestPlaces(A), NoEntity)
      ELSE Ranking(Primary(K), K, {}, PublicationChoice(C, K))

-----------------------------------------------------------------------------
(* to_alexa_payload: the search that the entities stand for.  The service  *)
(* reports its own status and intent as well, and may leave it to the      *)
(* listener what the phrase means.                                         *)

Service == [status : STRING, intent : Types \union {"search"}, several : BOOLEAN]

SourcesIn(A) == OfType(A, SourceTypes)

\* A tag that repeats the kind of source is dropped beside anything else.
Topics(A) ==
  {e \in OfType(A, {"category", "tag"}) :
     e.type = "tag" /\ e.kind => OfType(A, Types \ {"tag"}) = {}}

\* The place, unless its words are those of a source.
Place(A, preferLocation) ==
  {e \in OfType(A, {"location"}) : preferLocation \/ \A s \in SourcesIn(A) : ~Overlaps(e, s)}

General(type) == IF type \in {"tag", "location"} THEN "search" ELSE type

\* Mutant: the service's intent stands, whatever the entities are.
SearchIntentOfService(A, primary, intent) == General(intent)

\* The primary entity decides where the service names a kind of source that is not
\* among the entities.
SearchIntent(A, primary, intent) ==
  IF General(intent) \in SourceTypes /\ primary # NoEntity /\ OfType(A, {General(intent)}) = {}
  THEN General(primary.type) ELSE General(intent)

\* lead: what the phrase is about, which decides who answers it; words: the words
\* themselves are searched for.
Payload(E, service, preferLocation) ==
  LET R == Rank(E)
      choose == service.several \/ R.ambiguous # {}
      A == IF choose THEN {} ELSE R.accepted
  IN  [status  |-> IF choose THEN "ambiguous" ELSE service.status,
       lead    |-> IF R.primary # NoEntity THEN R.primary.type ELSE service.intent,
       intent  |-> SearchIntent(A, R.primary, service.intent),
       sources |-> SourcesIn(A),
       topics  |-> Topics(A),
       place   |-> Place(A, preferLocation),
       words   |-> R.accepted = {} /\ ~choose,
       choice  |-> IF choose THEN NoEntity ELSE R.choice]

-----------------------------------------------------------------------------
(* What a ranking and a search promise.                                    *)

\* Entities that are meant together claim no words twice, but as a topic that is
\* a category and a tag, or as one thing that was reported twice.
NothingTwice(A) ==
  \A a, b \in A : a # b /\ Overlaps(a, b) =>
    Compatible(a, b) \/ (a.type = b.type /\ a.id = b.id)

OnePlace(A) == \A a, b \in OfType(A, {"location"}) : a = b

\* The listener chooses between several things, of one type.
RealChoice(C) == \A a \in C : \E b \in C : a.id # b.id /\ a.type = b.type

\* The publication that is offered instead is none of what is meant, and no source
\* or place says otherwise.
HonestOffer(R) ==
  R.choice # NoEntity =>
    /\ R.choice \notin R.accepted
    /\ OfType(R.accepted, {"organization", "location", "publication"}) = {}

SoundRanking(R) ==
  /\ R.ambiguous = {} => NothingTwice(R.accepted) /\ OnePlace(R.accepted)
  /\ RealChoice(R.ambiguous)
  /\ HonestOffer(R)

\* A search that is not left to the listener is for something; once anything was
\* recognised, a search for a kind of source names one of that kind, and one about a
\* place has the place.
SoundPayload(p) ==
  p.status # "ambiguous" =>
    /\ p.words \/ p.sources \union p.topics \union p.place # {}
    /\ p.words \/ \A type \in {p.lead, p.intent} \intersect SourceTypes :
                    OfType(p.sources, {type}) # {}
    /\ p.lead = "location" => p.words \/ p.place # {}

=============================================================================
