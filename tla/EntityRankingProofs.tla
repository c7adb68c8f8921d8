-------------------------- MODULE EntityRankingProofs --------------------------
(***************************************************************************)
(* Whatever entities the resolver reports of a phrase, the ranking of them *)
(* and the search made of it are sound: TLC checks three at a time         *)
(* (PhrasesSound), here any number.                                        *)
(***************************************************************************)
EXTENDS EntityRanking, FiniteSetTheorems, WellFoundedInduction, TLAPS

\* No two types have the same priority, and priorities are numbers.
LEMMA PrioritiesDiffer ==
  /\ \A type \in Types : TypePriority[type] \in Nat
  /\ \A s, type \in Types : TypePriority[s] = TypePriority[type] => s = type
BY DEF Types, TypePriority

\* Of two entities, neither of which outranks the other, both are of one type and
\* have the same evidence.
LEMMA SameRank ==
  ASSUME NEW a \in Entity, NEW b \in Entity, ~Outranks(a, b), ~Outranks(b, a)
  PROVE  a.type = b.type /\ a.evidence = b.evidence
<1>1. a.type \in Types /\ b.type \in Types /\ a.evidence \in Nat /\ b.evidence \in Nat
  BY DEF Entity
<1>2. TypePriority[a.type] \in Nat /\ TypePriority[b.type] \in Nat
  BY <1>1, PrioritiesDiffer
<1>3. TypePriority[a.type] = TypePriority[b.type] /\ a.evidence = b.evidence
  BY <1>1, <1>2 DEF Outranks
<1> QED BY <1>1, <1>3, PrioritiesDiffer

\* Overlapping is mutual, and so is being compatible.
LEMMA OverlapsMutual ==
  ASSUME NEW a \in Entity, NEW b \in Entity
  PROVE  Overlaps(a, b) <=> Overlaps(b, a)
<1>1. a.first \in Nat /\ a.last \in Nat /\ b.first \in Nat /\ b.last \in Nat
  BY DEF Entity
<1> QED BY <1>1 DEF Overlaps

LEMMA CompatibleMutual ==
  ASSUME NEW a, NEW b PROVE Compatible(a, b) <=> Compatible(b, a)
<1>1. {a.type, b.type} = {b.type, a.type} OBVIOUS
<1> QED BY <1>1 DEF Compatible

-----------------------------------------------------------------------------
(* The sets that rank goes through are made of the entities reported.      *)

LEMMA CandidatesReported == ASSUME NEW E PROVE Candidates(E) \subseteq E
BY DEF Candidates, Single, Spelled, Sure

LEMMA UnrivalledCandidates == ASSUME NEW C PROVE Unrivalled(C) \subseteq C
BY DEF Unrivalled

LEMMA PlacesKept == ASSUME NEW A PROVE KeepPlace(A) \subseteq A
<1>1. OfType(A, Types \ {"location"}) \subseteq A /\ BestPlaces(A) \subseteq A
  BY DEF OfType, BestPlaces
<1>2. BestPlaces(A) # {} => (CHOOSE e \in BestPlaces(A) : TRUE) \in BestPlaces(A)
  OBVIOUS
<1> QED BY <1>1, <1>2 DEF KeepPlace

-----------------------------------------------------------------------------
(* What is meant together.                                                 *)

\* Of two unrivalled entities that claim the same words and are not compatible,
\* neither outranks the other: they are tied unless they are one thing.
LEMMA UnrivalledApart ==
  ASSUME NEW C \in SUBSET Entity, Tied(Unrivalled(C)) = {}
  PROVE  NothingTwice(Unrivalled(C))
<1> DEFINE A == Unrivalled(C)
<1> SUFFICES ASSUME NEW a \in A, NEW b \in A, a # b, Overlaps(a, b), ~Compatible(a, b)
             PROVE  a.type = b.type /\ a.id = b.id
  BY DEF NothingTwice
<1>1. a \in C /\ b \in C /\ a \in Entity /\ b \in Entity
  BY UnrivalledCandidates
<1>2. ~Outranks(b, a)
  BY <1>1 DEF Unrivalled
<1>3. Overlaps(b, a) /\ ~Compatible(b, a)
  BY <1>1, OverlapsMutual, CompatibleMutual
<1>4. ~Outranks(a, b)
  BY <1>1, <1>3 DEF Unrivalled
<1>5. a.type = b.type /\ a.evidence = b.evidence
  BY <1>1, <1>2, <1>4, SameRank
<1>6. a.id # b.id => a \in Tied(A)
  BY <1>5 DEF Tied
<1> QED BY <1>5, <1>6

\* Keeping fewer of them keeps them apart.
LEMMA FewerApart ==
  ASSUME NEW A, NEW K \in SUBSET A, NothingTwice(A) PROVE NothingTwice(K)
BY DEF NothingTwice

\* One place is left.
LEMMA OnePlaceKept == ASSUME NEW A PROVE OnePlace(KeepPlace(A))
<1>1. ASSUME NEW a \in OfType(KeepPlace(A), {"location"})
      PROVE  BestPlaces(A) # {} /\ a = CHOOSE e \in BestPlaces(A) : TRUE
  <2>1. a \in KeepPlace(A) /\ a.type = "location"
    BY DEF OfType
  <2>2. a \notin OfType(A, Types \ {"location"})
    BY <2>1 DEF OfType
  <2> QED BY <2>1, <2>2 DEF KeepPlace
<1> QED BY <1>1 DEF OnePlace

-----------------------------------------------------------------------------
(* What the listener chooses from.                                         *)

\* What ties an entity is tied itself.
LEMMA TiedIsChoice ==
  ASSUME NEW A \in SUBSET Entity PROVE RealChoice(Tied(A))
<1> SUFFICES ASSUME NEW a \in Tied(A)
             PROVE  \E b \in Tied(A) : a.id # b.id /\ a.type = b.type
  BY DEF RealChoice
<1>1. PICK o \in A \ {a} : /\ a.type = o.type /\ a.id # o.id
                           /\ Overlaps(a, o) /\ a.evidence = o.evidence
  BY DEF Tied
<1>2. a \in A BY DEF Tied
<1>3. Overlaps(o, a) BY <1>1, <1>2, OverlapsMutual
<1>4. o \in Tied(A) BY <1>1, <1>2, <1>3 DEF Tied
<1> QED BY <1>1, <1>4

\* Of several places, each has another that it may be taken for.
LEMMA PlacesAreChoice ==
  ASSUME NEW A, SeveralPlaces(A) PROVE RealChoice(BestPlaces(A))
<1> SUFFICES ASSUME NEW a \in BestPlaces(A)
             PROVE  \E b \in BestPlaces(A) : a.id # b.id /\ a.type = b.type
  BY DEF RealChoice
<1>1. PICK x \in BestPlaces(A), y \in BestPlaces(A) : x.id # y.id
  BY DEF SeveralPlaces
<1>2. \A e \in BestPlaces(A) : e.type = "location"
  BY DEF BestPlaces, OfType
<1> QED BY <1>1, <1>2

-----------------------------------------------------------------------------
(* What is offered instead.                                                *)

\* The publication that is offered is a publication, and none of those meant.
LEMMA OfferIsHonest ==
  ASSUME NEW C, NEW A, NEW primary, NEW ambiguous
  PROVE  HonestOffer(Ranking(primary, A, ambiguous, PublicationChoice(C, A)))
<1> DEFINE offer == PublicationChoice(C, A)
           best == BestNamesakes(C, A)
<1> SUFFICES ASSUME offer # NoEntity
             PROVE  /\ offer \notin A
                    /\ OfType(A, {"organization", "location", "publication"}) = {}
  BY DEF HonestOffer, Ranking
<1>1. /\ OfType(A, {"organization", "location", "publication"}) = {}
      /\ best # {}
      /\ offer = CHOOSE p \in best : TRUE
  BY DEF PublicationChoice
<1>2. offer \in best BY <1>1
<1>3. offer.type = "publication" BY <1>2 DEF BestNamesakes, Namesakes, OfType
<1> QED BY <1>1, <1>3 DEF OfType

-----------------------------------------------------------------------------
(* What the search is about.                                               *)

\* Being ranked before is a strict order.
LEMMA BeforeIsStrict ==
  ASSUME NEW a \in Entity, NEW b \in Entity, NEW c \in Entity
  PROVE  ~Before(a, a) /\ (Before(a, b) /\ Before(b, c) => Before(a, c))
<1>1. \A e \in {a, b, c} : e.type \in Types /\ e.evidence \in Nat /\ e.first \in Nat
  BY DEF Entity
<1>2. \A e \in {a, b, c} : TypePriority[e.type] \in Nat
  BY <1>1, PrioritiesDiffer
<1> QED BY <1>1, <1>2 DEF Before, Outranks

\* Of finitely many entities, one has none before it: the one with the least set of
\* entities before it.
LEMMA FirstExists ==
  ASSUME NEW S \in SUBSET Entity, IsFiniteSet(S), S # {}
  PROVE  \E e \in S : \A o \in S : ~Before(o, e)
<1> DEFINE Ahead(e) == {o \in S : Before(o, e)}
           T == {Ahead(e) : e \in S}
<1>1. T \subseteq FiniteSubsetsOf(S) /\ T # {}
  <2>1. \A e \in S : Ahead(e) \in SUBSET S OBVIOUS
  <2>2. \A V \in SUBSET S : IsFiniteSet(V) BY FS_Subset
  <2> QED BY <2>1, <2>2 DEF FiniteSubsetsOf
<1>2. PICK V \in T : \A W \in T : ~(<<W, V>> \in StrictSubsetOrdering(S))
  BY <1>1, FS_StrictSubsetOrderingWellFounded, WFMin
<1>3. PICK e \in S : V = Ahead(e)
  OBVIOUS
<1>4. ASSUME NEW o \in S, Before(o, e)
      PROVE  FALSE
  <2>1. Ahead(o) \subseteq Ahead(e)
    BY <1>4, BeforeIsStrict
  <2>2. o \in Ahead(e) /\ o \notin Ahead(o)
    BY <1>4, BeforeIsStrict
  <2>3. Ahead(o) \in T /\ Ahead(o) \in SUBSET S /\ Ahead(e) \in SUBSET S
    OBVIOUS
  <2> QED BY <1>2, <1>3, <2>1, <2>2, <2>3 DEF StrictSubsetOrdering
<1> QED BY <1>4

\* What is meant has an entity that the search is about.
LEMMA PrimaryIsMeant ==
  ASSUME NEW K \in SUBSET Entity, IsFiniteSet(K), K # {}
  PROVE  /\ Primary(K) \in K /\ \A o \in K : ~Before(o, Primary(K))
         /\ Primary(K) # NoEntity
<1>1. /\ Primary(K) \in K
      /\ \A o \in K : ~Before(o, Primary(K))
  BY FirstExists DEF Primary
<1>2. NoEntity.type \notin Types /\ Primary(K).type \in Types
  BY <1>1 DEF NoEntity, Types, Entity
<1> QED BY <1>1, <1>2

\* A place that is meant shares no words with a source that is, so it stays.
LEMMA PlaceStays ==
  ASSUME NEW K \in SUBSET Entity, NothingTwice(K), NEW prefer \in BOOLEAN
  PROVE  Place(K, prefer) = OfType(K, {"location"})
<1>1. ASSUME NEW e \in OfType(K, {"location"}), NEW s \in SourcesIn(K)
      PROVE  ~Overlaps(e, s)
  <2>1. e \in K /\ e.type = "location" BY DEF OfType
  <2>2. s \in K /\ s.type \in SourceTypes BY DEF OfType, SourcesIn
  <2>3. s.type # "location" BY <2>2 DEF SourceTypes
  <2>4. "location" \notin {"category", "tag"} OBVIOUS
  <2>5. {e.type, s.type} # {"category", "tag"} BY <2>1, <2>4
  <2> QED BY <2>1, <2>2, <2>3, <2>5 DEF NothingTwice, Compatible
<1> QED BY <1>1 DEF Place

\* Once anything is meant, the search is for something.
LEMMA SomethingIsSought ==
  ASSUME NEW K \in SUBSET Entity, K # {}, NothingTwice(K), NEW prefer \in BOOLEAN
  PROVE  SourcesIn(K) \union Topics(K) \union Place(K, prefer) # {}
<1>1. ASSUME NEW e \in K, e.type # "tag"
      PROVE  e \in SourcesIn(K) \union Topics(K) \union Place(K, prefer)
  <2>1. e.type \in Types BY DEF Entity
  <2>2. e.type \in SourceTypes \/ e.type = "category" \/ e.type = "location"
    BY <1>1, <2>1 DEF Types, SourceTypes
  <2>3. e.type \in SourceTypes => e \in SourcesIn(K) BY DEF SourcesIn, OfType
  <2>4. e.type = "category" => e \in Topics(K) BY DEF Topics, OfType
  <2>5. e.type = "location" => e \in Place(K, prefer) BY PlaceStays DEF OfType
  <2> QED BY <2>2, <2>3, <2>4, <2>5
<1>2. CASE \E e \in K : e.type # "tag"
  BY <1>1, <1>2
<1>3. CASE \A e \in K : e.type = "tag"
  <2>1. OfType(K, Types \ {"tag"}) = {} BY <1>3 DEF OfType
  <2>2. PICK e \in K : TRUE OBVIOUS
  <2>3. e.type = "tag" BY <1>3
  <2> QED BY <2>1, <2>2, <2>3 DEF Topics, OfType
<1> QED BY <1>2, <1>3

-----------------------------------------------------------------------------
\* However the entities of a phrase overlap, what is meant together claims no words
\* twice and has one place at most, the listener chooses between things of one type,
\* and is offered a publication only where no source or place was named
\* (EntityRanker.rank, for any number of entities).
THEOREM RankingIsSound ==
  ASSUME NEW E \in SUBSET Entity PROVE SoundRanking(Rank(E))
<1> DEFINE C == Candidates(E)
           A == Unrivalled(C)
           K == KeepPlace(A)
<1>1. C \in SUBSET Entity /\ A \in SUBSET Entity
  BY CandidatesReported, UnrivalledCandidates
<1> HIDE DEF C, A, K
<1>2. CASE Tied(A) # {}
  <2>1. Rank(E) = Ranking(NoEntity, A, Tied(A), NoEntity)
    BY <1>2 DEF Rank, C, A
  <2> QED BY <1>1, <1>2, <2>1, TiedIsChoice DEF SoundRanking, Ranking, HonestOffer
<1>3. CASE Tied(A) = {} /\ SeveralPlaces(A)
  <2>1. Rank(E) = Ranking(NoEntity, A, BestPlaces(A), NoEntity)
    BY <1>3 DEF Rank, C, A
  <2>2. BestPlaces(A) # {}
    BY <1>3 DEF SeveralPlaces
  <2> QED BY <1>3, <2>1, <2>2, PlacesAreChoice DEF SoundRanking, Ranking, HonestOffer
<1>4. CASE Tied(A) = {} /\ ~SeveralPlaces(A)
  <2> DEFINE R == Ranking(Primary(K), K, {}, PublicationChoice(C, K))
  <2>1. Rank(E) = R
    BY <1>4 DEF Rank, C, A, K
  <2>2. NothingTwice(K)
    BY <1>1, <1>4, UnrivalledApart, PlacesKept, FewerApart DEF A, K
  <2>3. OnePlace(K) BY OnePlaceKept DEF K
  <2>4. RealChoice({}) BY DEF RealChoice
  <2>5. HonestOffer(R) BY OfferIsHonest
  <2>6. R.accepted = K /\ R.ambiguous = {} BY DEF Ranking
  <2> HIDE DEF R
  <2> QED BY <2>1, <2>2, <2>3, <2>4, <2>5, <2>6 DEF SoundRanking
<1> QED BY <1>2, <1>3, <1>4

\* However the entities overlap and whatever the service says besides, a search that
\* is not left to the listener is for something, and for the kind of source or the
\* place that decides who answers it (ResolverResult.to_alexa_payload).
THEOREM SearchIsSound ==
  ASSUME NEW E \in SUBSET Entity, IsFiniteSet(E), NEW service \in Service,
         NEW prefer \in BOOLEAN
  PROVE  SoundPayload(Payload(E, service, prefer))
<1> DEFINE C == Candidates(E)
           A == Unrivalled(C)
           K == KeepPlace(A)
           p == Payload(E, service, prefer)
           R == Rank(E)
<1>1. K \in SUBSET Entity /\ IsFiniteSet(K)
  <2>1. K \subseteq E
    BY CandidatesReported, UnrivalledCandidates, PlacesKept
  <2> QED BY <2>1, FS_Subset
<1> SUFFICES ASSUME p.status # "ambiguous"
             PROVE  SoundPayload(p)
  BY DEF SoundPayload
<1>2. ~service.several /\ R.ambiguous = {}
  BY DEF Payload
<1>3. R = Ranking(Primary(K), K, {}, PublicationChoice(C, K))
  <2>1. Tied(A) = {} BY <1>2 DEF Rank, Ranking
  <2>2. ~SeveralPlaces(A)
    <3>1. BestPlaces(A) = {} => ~SeveralPlaces(A) BY DEF SeveralPlaces
    <3> QED BY <1>2, <2>1, <3>1 DEF Rank, Ranking
  <2> QED BY <2>1, <2>2 DEF Rank
<1>4. R.primary = Primary(K) /\ R.accepted = K
  BY <1>3 DEF Ranking
<1>5. NothingTwice(K)
  BY RankingIsSound, <1>2, <1>4 DEF SoundRanking
<1> HIDE DEF C, A, K, R
<1>6. /\ p.lead = (IF Primary(K) # NoEntity THEN Primary(K).type ELSE service.intent)
      /\ p.intent = SearchIntent(K, Primary(K), service.intent)
      /\ p.sources = SourcesIn(K) /\ p.topics = Topics(K) /\ p.place = Place(K, prefer)
      /\ p.words = (K = {})
  BY <1>2, <1>4 DEF Payload, R
<1> HIDE DEF p
<1>7. CASE K = {}
  BY <1>6, <1>7 DEF SoundPayload
<1>8. CASE K # {}
  <2> DEFINE e == Primary(K)
  <2>1. e \in K /\ e # NoEntity
    BY <1>1, <1>8, PrimaryIsMeant
  <2>2. p.lead = e.type
    BY <1>6, <2>1
  <2>3. p.sources \union p.topics \union p.place # {}
    BY <1>1, <1>5, <1>6, <1>8, SomethingIsSought
  <2>4. ASSUME NEW type \in {p.lead, p.intent} \intersect SourceTypes
        PROVE  OfType(p.sources, {type}) # {}
    <3>1. ASSUME NEW o \in K, o.type = type
          PROVE  OfType(p.sources, {type}) # {}
      BY <1>6, <2>4, <3>1 DEF SourcesIn, OfType
    <3>2. e.type = type => OfType(p.sources, {type}) # {}
      BY <2>1, <3>1
    <3> HIDE DEF e
    <3>3. CASE type = p.lead
      BY <2>2, <3>2, <3>3
    <3>4. CASE type = p.intent
      <4>1. type = SearchIntent(K, e, service.intent)
        BY <1>6, <3>4 DEF e
      <4>2. General(e.type) = type => e.type = type
        BY <2>4 DEF General, SourceTypes
      <4>3. CASE /\ General(service.intent) \in SourceTypes
                 /\ OfType(K, {General(service.intent)}) = {}
        BY <2>1, <3>2, <4>1, <4>2, <4>3 DEF SearchIntent
      <4>4. CASE OfType(K, {General(service.intent)}) # {}
        <5>1. type = General(service.intent) BY <4>1, <4>4 DEF SearchIntent
        <5>2. PICK o \in K : o.type = type BY <4>4, <5>1 DEF OfType
        <5> QED BY <3>1, <5>2
      <4>5. CASE General(service.intent) \notin SourceTypes
        BY <2>4, <4>1, <4>5 DEF SearchIntent
      <4> QED BY <4>3, <4>4, <4>5
    <3> QED BY <3>3, <3>4
  <2>5. p.lead = "location" => p.place # {}
    <3>1. p.place = OfType(K, {"location"}) BY <1>1, <1>5, <1>6, PlaceStays
    <3> HIDE DEF e
    <3>2. e.type = "location" => e \in OfType(K, {"location"}) BY <2>1 DEF OfType
    <3> QED BY <2>2, <3>1, <3>2
  <2> QED BY <2>3, <2>4, <2>5 DEF SoundPayload
<1> QED BY <1>7, <1>8

=============================================================================
