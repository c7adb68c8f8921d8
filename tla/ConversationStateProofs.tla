------------------------ MODULE ConversationStateProofs ------------------------
(***************************************************************************)
(* Proofs about what the document holds in a conversation: its dialogues,  *)
(* lists of choices, ratings and setup.  The invariant is SoundInv, that   *)
(* is DocumentInv of Conversation.  Each operator on a document is shown   *)
(* to keep the parts of DocumentFits; each operator on a turn to keep the  *)
(* turn Turns, and to end it with an answer that fits the document it      *)
(* saves (Answer); each action of Next to be a Step.                       *)
(***************************************************************************)
EXTENDS Conversation, DialogStateProofs, SequenceTheorems, FiniteSetTheorems

-----------------------------------------------------------------------------
(* Lists. *)

\* Counting the members of a finite set of numbers up to each numbers them all.
LEMMA Numbered ==
  ASSUME NEW S \in SUBSET Nat, IsFiniteSet(S)
  PROVE  \A j \in 1..Cardinality(S) : \E k \in S : Cardinality({m \in S : m <= k}) = j
<1> DEFINE Up(k) == {m \in S : m <= k}
           f == [k \in S |-> Cardinality(Up(k))]
           T == 1..Cardinality(S)
<1>1. Cardinality(S) \in Nat
  BY FS_CardinalityType
<1>2. IsFiniteSet(T) /\ Cardinality(T) = Cardinality(S)
  BY <1>1, FS_Interval
<1>3. ASSUME NEW k \in S
      PROVE  IsFiniteSet(Up(k)) /\ Cardinality(Up(k)) \in T
  <2>1. Up(k) \in SUBSET S /\ k \in Up(k)
    OBVIOUS
  <2>2. IsFiniteSet(Up(k)) /\ Cardinality(Up(k)) <= Cardinality(S)
    BY <2>1, FS_Subset
  <2>3. Cardinality(Up(k)) \in Nat /\ Cardinality(Up(k)) # 0
    BY <2>1, <2>2, FS_CardinalityType, FS_EmptySet
  <2> QED BY <1>1, <2>2, <2>3
<1>4. ASSUME NEW k \in S, NEW m \in S, k < m
      PROVE  Cardinality(Up(k)) # Cardinality(Up(m))
  <2>0. k \in Nat /\ m \in Nat /\ \A x \in S : x \in Nat
    OBVIOUS
  <2>1. \A x \in S : x <= k => x <= m
    BY <1>4, <2>0
  <2>2. m <= m /\ ~(m <= k)
    BY <1>4, <2>0
  <2>3. Up(k) \in SUBSET Up(m) /\ m \in Up(m) /\ m \notin Up(k)
    BY <2>1, <2>2
  <2> QED BY <1>3, <2>3, FS_Subset
<1>5. f \in [S -> T]
  BY <1>3
<1>6. \A k, m \in S : f[k] = f[m] => k = m
  <2> SUFFICES ASSUME NEW k \in S, NEW m \in S, f[k] = f[m], k # m PROVE FALSE
    OBVIOUS
  <2>1. k < m \/ m < k
    OBVIOUS
  <2>2. f[k] = Cardinality(Up(k)) /\ f[m] = Cardinality(Up(m))
    OBVIOUS
  <2> QED BY <1>4, <2>1, <2>2
<1> HIDE DEF f
<1>7. f \in Injection(S, T)
  BY <1>5, <1>6 DEF Injection, IsInjective
<1>8. f \in Surjection(S, T)
  BY <1>2, <1>7, FS_Injection
<1>9. \A j \in T : \E k \in S : f[k] = j
  BY <1>8 DEF Surjection
<1> QED BY <1>9 DEF f

LEMMA NewOfFits ==
  ASSUME NEW S, NEW page \in Seq(S), NEW held, Distinct(page)
  PROVE  /\ NewOf(page, held) \in Seq(S) /\ Distinct(NewOf(page, held))
         /\ \A j \in DOMAIN NewOf(page, held) : NewOf(page, held)[j] \notin held
<1> DEFINE new == {k \in DOMAIN page : page[k] \notin held}
           Nth(k) == Cardinality({m \in new : m <= k})
           n == Cardinality(new)
           At(j) == CHOOSE k \in new : Nth(k) = j
           q == NewOf(page, held)
<1>1. new \in SUBSET Nat /\ IsFiniteSet(new) /\ n \in Nat
  <2>1. DOMAIN page = 1..Len(page) /\ Len(page) \in Nat
    OBVIOUS
  <2>2. IsFiniteSet(1..Len(page))
    BY <2>1, FS_Interval
  <2> QED BY <2>1, <2>2, FS_Subset, FS_CardinalityType
<1>2. \A j \in 1..n : At(j) \in new /\ Nth(At(j)) = j
  BY <1>1, Numbered
<1>3. DOMAIN q = 1..n /\ \A j \in 1..n : q[j] = page[At(j)]
  BY DEF NewOf
<1> HIDE DEF q
<1>4. \A j \in 1..n : q[j] \in S /\ q[j] \notin held
  <2> SUFFICES ASSUME NEW j \in 1..n PROVE q[j] \in S /\ q[j] \notin held
    OBVIOUS
  <2>1. At(j) \in new /\ q[j] = page[At(j)]
    BY <1>2, <1>3
  <2> HIDE DEF At
  <2> QED BY <2>1
<1>5. q \in Seq(S)
  <2>1. q = [j \in 1..n |-> q[j]]
    BY <1>3 DEF q, NewOf
  <2>2. [j \in 1..n |-> q[j]] \in Seq(S)
    <3> HIDE DEF new, n
    <3> QED BY <1>1, <1>4
  <2> QED BY <2>1, <2>2
<1>6. Distinct(q)
  <2> SUFFICES ASSUME NEW i \in 1..n, NEW j \in 1..n, q[i] = q[j] PROVE i = j
    BY <1>3 DEF Distinct
  <2>1. At(i) = At(j)
    BY <1>2, <1>3 DEF Distinct
  <2> QED BY <1>2, <2>1
<1> QED BY <1>3, <1>4, <1>5, <1>6 DEF q

\* A page that the catalogue counts.
LEMMA PageFits ==
  ASSUME PagesListed, NEW w \in DOMAIN Pages, NEW p \in 1..Len(Pages[w])
  PROVE  /\ Pages[w][p] \in Seq(Listable) /\ Pages[w][p] # <<>> /\ Distinct(Pages[w][p])
         /\ w \in {"local", "creators", "recommended"} => Pages[w][p] \in Seq(Sources)
         /\ Len(Pages[w]) \in Nat /\ Len(Pages[w][p]) \in Nat \ {0}
<1>1. Pages[w] \in Seq(Seq(Listable))
  BY FindingAssumption
<1>2. DOMAIN Pages[w] = 1..Len(Pages[w]) /\ Len(Pages[w]) \in Nat
  BY <1>1
<1>3. Pages[w][p] \in Seq(Listable)
  BY <1>1
<1>4. Pages[w][p] # <<>> /\ Distinct(Pages[w][p])
  BY <1>2 DEF PagesListed
<1>5. w \in {"local", "creators", "recommended"} => Pages[w][p] \in Seq(Sources)
  BY FindingAssumption
<1>6. Len(Pages[w][p]) \in Nat \ {0}
  BY <1>3, <1>4
<1> QED BY <1>2, <1>3, <1>4, <1>5, <1>6

\* Something of a list is read out, and no more than there is.
LEMMA ShownFits ==
  ASSUME NEW c, ListFits(c)
  PROVE  /\ Displayed(c) # <<>> /\ Len(Displayed(c)) \in Nat \ {0}
         /\ c.kind # "format" => c.offset + Len(Displayed(c)) <= Len(c.all)
         /\ c.kind = "source" => Entries(Displayed(c)) \subseteq Sources
<1> DEFINE n == Len(c.all)
           end == IF c.offset + PageSize < n THEN c.offset + PageSize ELSE n
           q == SubSeq(c.all, c.offset + 1, end)
<1>1. n \in Nat /\ c.offset \in Nat /\ c.offset < n /\ PageSize \in Nat \ {0}
  BY FindingAssumption DEF ListFits
<1>2. end \in Nat /\ c.offset + 1 <= end /\ end <= n
  BY <1>1
<1> HIDE DEF end
<1>3. ASSUME NEW S, c.all \in Seq(S)
      PROVE  q \in Seq(S) /\ Len(q) = end - c.offset
  <2>1. \A i \in c.offset + 1 .. end : c.all[i] \in S
    BY <1>1, <1>2, <1>3
  <2> QED BY <1>1, <1>2, <2>1, SubSeqProperties
<1>4. c.kind # "format" => Displayed(c) = q
  BY DEF Displayed, end
<1>5. c.kind = "format" => Displayed(c) = <<"publications", "tracks">>
  BY DEF Displayed
<1>6. q \in Seq(Listable) /\ Len(q) = end - c.offset
  BY <1>3 DEF ListFits
<1>7. c.kind = "source" => q \in Seq(Sources)
  BY <1>3 DEF ListFits
<1> HIDE DEF q, n
<1>8. Len(q) \in Nat \ {0} /\ q # <<>> /\ c.offset + Len(q) <= Len(c.all)
  BY <1>1, <1>2, <1>6 DEF n
<1>9. c.kind = "format" => Displayed(c) # <<>> /\ Len(Displayed(c)) = 2
  BY <1>5
<1>10. c.kind = "source" => Entries(Displayed(c)) \subseteq Sources
  BY <1>4, <1>7 DEF Entries
<1> QED BY <1>4, <1>8, <1>9, <1>10

\* Loading a page keeps a list in order: it grows at its end, or is replaced.
LEMMA LoadFits ==
  ASSUME PagesListed, NEW c, ListFits(c), NEW p \in 0..(Len(Pages[c.list]) - 1), NEW listing
  PROVE  /\ ListFits(LoadPage(c, p, listing)) /\ LoadPage(c, p, listing).kind = c.kind
         /\ c.list # "creators" => LoadPage(c, p, listing).offset = c.offset
<1> DEFINE r == LoadPage(c, p, listing)
           incoming == Pages[c.list][p + 1]
           more == NewOf(incoming, Entries(c.all))
           fresh == [c EXCEPT !.page = p, !.total = Len(Pages[c.list]), !.failed = FALSE]
           sourced == {"local", "creators", "recommended"}
<1>1. c.list \in DOMAIN Pages /\ Len(Pages[c.list]) \in Nat
  <2>1. c.list \in DOMAIN Pages
    BY DEF ListFits
  <2>2. Pages[c.list] \in Seq(Seq(Listable))
    BY <2>1, FindingAssumption
  <2> QED BY <2>1, <2>2
<1>2. p + 1 \in 1..Len(Pages[c.list])
  BY <1>1
<1>3. /\ incoming \in Seq(Listable) /\ incoming # <<>> /\ Distinct(incoming)
      /\ c.list \in sourced => incoming \in Seq(Sources)
      /\ Len(incoming) \in Nat \ {0}
  BY <1>1, <1>2, PageFits
<1> HIDE DEF incoming
<1>4. /\ more \in Seq(Listable) /\ Distinct(more)
      /\ \A j \in DOMAIN more : more[j] \notin Entries(c.all)
      /\ c.list \in sourced => more \in Seq(Sources)
  BY <1>3, NewOfFits
<1> HIDE DEF more
<1>5. CASE listing = "down"
  <2>1. r = [c EXCEPT !.total = 0, !.failed = TRUE]
    BY <1>5 DEF LoadPage
  <2> HIDE DEF r
  <2>2. /\ DOMAIN r = DOMAIN c /\ r.total = 0 /\ r.kind = c.kind /\ r.list = c.list
        /\ r.all = c.all /\ r.offset = c.offset /\ r.page = c.page
    BY <2>1 DEF ListFits
  <2> QED BY <2>2 DEF r, ListFits
<1>6. CASE listing # "down" /\ c.list = "creators"
  <2>1. r = [fresh EXCEPT !.all = incoming, !.offset = 0]
    BY <1>6 DEF LoadPage, incoming
  <2> HIDE DEF r
  <2>2. /\ DOMAIN r = DOMAIN c /\ r.total = Len(Pages[c.list]) /\ r.kind = c.kind
        /\ r.list = c.list /\ r.all = incoming /\ r.offset = 0 /\ r.page = p
    BY <2>1 DEF ListFits
  <2>3. r.kind = "source" => r.all \in Seq(Sources)
    BY <1>3, <1>6, <2>2
  <2> QED BY <1>1, <1>3, <1>6, <2>2, <2>3 DEF r, ListFits
<1>7. CASE listing # "down" /\ c.list # "creators"
  <2>1. r = [fresh EXCEPT !.all = c.all \o more]
    BY <1>7 DEF LoadPage, incoming, more, ListFits
  <2> HIDE DEF r
  <2>2. /\ DOMAIN r = DOMAIN c /\ r.total = Len(Pages[c.list]) /\ r.kind = c.kind
        /\ r.list = c.list /\ r.all = c.all \o more /\ r.offset = c.offset /\ r.page = p
    BY <2>1 DEF ListFits
  <2>3. c.all \in Seq(Listable) /\ Distinct(c.all)
    BY DEF ListFits
  <2>4. r.all \in Seq(Listable) /\ Len(r.all) = Len(c.all) + Len(more)
        /\ Len(more) \in Nat /\ Len(c.all) \in Nat
    BY <1>4, <2>2, <2>3
  <2>5. Distinct(r.all)
    <3>0. DOMAIN r.all = 1..Len(r.all)
      BY <2>4
    <3> SUFFICES ASSUME NEW i \in 1..Len(r.all), NEW j \in 1..Len(r.all), r.all[i] = r.all[j]
                 PROVE  i = j
      BY <3>0 DEF Distinct
    <3> DEFINE n == Len(c.all)
    <3>1. \A k \in 1..Len(r.all) :
            IF k <= n THEN k \in DOMAIN c.all /\ r.all[k] = c.all[k]
            ELSE k - n \in DOMAIN more /\ r.all[k] = more[k - n]
      BY <1>4, <2>2, <2>3, <2>4
    <3>2. \A k \in DOMAIN c.all : c.all[k] \in Entries(c.all)
      BY DEF Entries
    <3> HIDE DEF n
    <3>3. n \in Nat
      BY <2>4 DEF n
    <3>4. CASE i <= n /\ j <= n
      BY <2>3, <3>1, <3>3, <3>4 DEF Distinct
    <3>5. CASE i > n /\ j > n
      <4>1. i - n = j - n
        BY <1>4, <3>1, <3>3, <3>5 DEF Distinct
      <4> QED BY <3>3, <4>1
    <3>6. ASSUME NEW k \in 1..Len(r.all), NEW m \in 1..Len(r.all), k <= n, m > n
          PROVE  r.all[k] # r.all[m]
      <4>1. r.all[k] \in Entries(c.all)
        BY <3>1, <3>2, <3>6
      <4>2. m - n \in DOMAIN more /\ r.all[m] = more[m - n]
        BY <2>4, <3>1, <3>3, <3>6
      <4>3. r.all[m] \notin Entries(c.all)
        BY <1>4, <4>2
      <4> QED BY <4>1, <4>3
    <3>7. i \in Nat /\ j \in Nat
      BY <2>4
    <3> QED BY <3>3, <3>4, <3>5, <3>6, <3>7
  <2>6. r.kind = "source" => r.list \in sourced /\ r.all \in Seq(Sources)
    BY <1>4, <2>2 DEF ListFits
  <2>7. r.offset \in 0..(Len(r.all) - 1)
    BY <2>2, <2>4 DEF ListFits
  <2>8. r.page \in 0..(Len(Pages[r.list]) - 1) /\ r.total \in {0, Len(Pages[r.list])}
    BY <2>2
  <2>9. DOMAIN r = {"kind", "list", "source", "all", "offset", "page", "total", "single",
                    "failed"}
        /\ r.kind \in {"source", "publication", "format"} /\ r.list \in DOMAIN Pages
    BY <2>2 DEF ListFits
  <2>10. ListFits(r)
    BY <2>4, <2>5, <2>6, <2>7, <2>8, <2>9 DEF ListFits
  <2> QED BY <2>2, <2>10 DEF r
<1> QED BY <1>5, <1>6, <1>7

-----------------------------------------------------------------------------
(* Documents. *)

\* A document as it fits while its dialogue changes.
PartsFit(s) ==
  DOMAIN s = Fields /\ DialogFits(s) /\ SetupFits(s) /\ PlayingFits(s) /\ RatingFits(s)

\* r is s with another dialogue or recording: its setup is that of s.
SameSetup(s, r) ==
  /\ r.stage = s.stage /\ r.setup = s.setup /\ r.city = s.city
  /\ r.onboarded = s.onboarded /\ r.known = s.known

Aside(s, r) == DocumentFits(r) /\ SameSetup(s, r)

\* r follows s in a setup: what is set up stays so, and a setup ends for good.
Onward(s, r) ==
  /\ DocumentFits(r) /\ r.city = s.city
  /\ (s.onboarded => r.onboarded) /\ (s.known => r.known)
  /\ s.stage # "none" /\ r.stage = "none" => r.onboarded

LEMMA AsideSelf == ASSUME NEW s, DocumentFits(s) PROVE Aside(s, s)
BY DEF Aside, SameSetup

LEMMA AsideTrans == ASSUME NEW s, NEW r, NEW q, Aside(s, r), Aside(r, q) PROVE Aside(s, q)
BY DEF Aside, SameSetup

LEMMA AsideFits == ASSUME NEW s, NEW r, Aside(s, r) PROVE DocumentFits(r)
BY DEF Aside

LEMMA AsideOnward == ASSUME NEW s, NEW r, Aside(s, r) PROVE Onward(s, r)
BY DEF Aside, SameSetup, Onward

LEMMA OnwardTrans == ASSUME NEW s, NEW r, NEW q, Onward(s, r), Onward(r, q) PROVE Onward(s, q)
BY DEF Onward

LEMMA OnwardFits == ASSUME NEW s, NEW r, Onward(s, r) PROVE DocumentFits(r)
BY DEF Onward

LEMMA OnwardSelf == ASSUME NEW s, DocumentFits(s) PROVE Onward(s, s)
BY DEF Onward

LEMMA FitsParts == ASSUME NEW s, DocumentFits(s) PROVE PartsFit(s) /\ CaptureFits(s)
BY DEF DocumentFits, PartsFit

LEMMA PartsFits == ASSUME NEW s, PartsFit(s), CaptureFits(s) PROVE DocumentFits(s)
BY DEF DocumentFits, PartsFit

\* What no part of the invariant reads may change.
LEMMA FitsBeside ==
  ASSUME NEW s, NEW r, DocumentFits(s), DOMAIN r = Fields, SameSetup(s, r),
         r.active = s.active, r.flags = s.flags, r.pending = s.pending,
         r.topic = s.topic, r.answered = s.answered, r.playing.item = s.playing.item,
         r.playing \in [item : Items \union {NoItem}, status : Statuses], r.latest = s.latest
  PROVE  Aside(s, r)
<1>1. DialogFits(r)
  BY DEF DocumentFits, DialogFits
<1>2. SetupFits(r) /\ PlayingFits(r)
  BY DEF DocumentFits, SetupFits, PlayingFits, SameSetup
<1>3. RatingFits(r)
  BY DEF DocumentFits, RatingFits, RatesActive, RatingAsked
<1>4. CaptureFits(r)
  BY DEF DocumentFits, CaptureFits, SameSetup
<1> QED BY <1>1, <1>2, <1>3, <1>4 DEF Aside, DocumentFits

\* A dialogue, its flags and its subjects may be dropped.
Drops(s, r) ==
  /\ r.active \in {NoDialog, s.active} /\ r.flags \subseteq s.flags
  /\ DOMAIN r.pending = Held /\ \A k \in Held : r.pending[k] \in {NoContext, s.pending[k]}
  /\ r.topic \in {NoSearch, s.topic}

LEMMA DialogDropped ==
  ASSUME NEW s, NEW r, DialogFits(s), Drops(s, r) PROVE DialogFits(r)
<1>1. CASE r.active = NoDialog
  <2>1. DOMAIN r.active = {"type", "context", "left"} /\ r.active.type = "none"
        /\ r.active.context = NoContext
    BY <1>1 DEF NoDialog
  <2> QED BY <2>1 DEF DialogFits, Drops
<1>2. CASE r.active = s.active
  BY <1>2 DEF DialogFits, Drops
<1> QED BY <1>1, <1>2 DEF Drops

\* ... with the rating that is asked for, or all of its question.
LEMMA PartsDropped ==
  ASSUME NEW s, NEW r, PartsFit(s), DOMAIN r = Fields, Drops(s, r), SameSetup(s, r),
         PlayingFits(r),
         \/ /\ r.playing.item = s.playing.item /\ r.answered = s.answered
            /\ RatingAsked(r) => r.pending["feedback"] = s.pending["feedback"]
         \/ /\ r.pending["feedback"] = NoContext /\ "feedback" \notin r.flags
            /\ r.active.type # "feedback"
  PROVE  PartsFit(r)
<1>1. DialogFits(r)
  BY DialogDropped DEF PartsFit
<1>2. SetupFits(r)
  BY DEF PartsFit, SetupFits, SameSetup
<1>3. RatingFits(r)
  <2>1. CASE /\ r.pending["feedback"] = NoContext /\ "feedback" \notin r.flags
             /\ r.active.type # "feedback"
    BY <2>1 DEF RatingFits, RatingAsked
  <2>2. CASE /\ r.playing.item = s.playing.item /\ r.answered = s.answered
             /\ RatingAsked(r) => r.pending["feedback"] = s.pending["feedback"]
    <3>1. r.active.type = "feedback" => r.active = s.active
      BY DEF Drops, NoDialog
    <3>2. r.pending["feedback"] \in {NoContext, s.pending["feedback"]}
      BY DEF Drops, Held
    <3>3. RatingAsked(r) => RatingAsked(s)
      BY DEF Drops, RatingAsked
    <3> QED BY <2>2, <3>1, <3>2, <3>3 DEF PartsFit, RatingFits, RatesActive
  <2> QED BY <2>1, <2>2
<1> QED BY <1>1, <1>2, <1>3 DEF PartsFit

LEMMA FitsDropped ==
  ASSUME NEW s, NEW r, DocumentFits(s), DOMAIN r = Fields, Drops(s, r), SameSetup(s, r),
         PlayingFits(r),
         \/ /\ r.playing.item = s.playing.item /\ r.answered = s.answered
            /\ RatingAsked(r) => r.pending["feedback"] = s.pending["feedback"]
         \/ /\ r.pending["feedback"] = NoContext /\ "feedback" \notin r.flags
            /\ r.active.type # "feedback"
  PROVE  Aside(s, r)
<1>1. PartsFit(r)
  BY FitsParts, PartsDropped
<1>2. CaptureFits(r)
  <2>1. r.active.type = "onboarding" => r.active = s.active
    BY DEF Drops, NoDialog
  <2>2. r.pending["ambiguity"] \in {NoContext, s.pending["ambiguity"]}
    BY DEF Drops, Held
  <2> QED BY <2>1, <2>2 DEF DocumentFits, CaptureFits, SameSetup
<1> QED BY <1>1, <1>2, PartsFits DEF Aside

\* A dialogue of another type than these is opened, with its flag and its subject.
LEMMA PartsOpened ==
  ASSUME NEW s, NEW r, NEW k \in DialogTypes, NEW c, PartsFit(s), DOMAIN r = Fields,
         SameSetup(s, r), PlayingFits(r), r.playing.item = s.playing.item,
         r.answered = s.answered, r.topic \in Searches \union {NoSearch},
         r.active = Fresh(k, c), r.flags = {k} \intersect Flagged,
         \/ r.pending = s.pending
         \/ r.pending = [s.pending EXCEPT ![k] = c],
         k \in Held => ContextFits(k, c),
         k = "availability" /\ PagesListed => ListFits(c),
         k = "feedback" => RatesActive(s, c) /\ r.pending["feedback"] = c
  PROVE  PartsFit(r)
<1>1. r.active.type = k /\ r.active.context = c /\ DOMAIN r.active = {"type", "context", "left"}
  BY DEF Fresh
<1>2. DialogFits(r)
  BY <1>1 DEF PartsFit, DialogFits
<1>3. SetupFits(r)
  BY DEF PartsFit, SetupFits, SameSetup
<1>4. RatingFits(r)
  <2>1. CASE k = "feedback"
    BY <1>1, <2>1 DEF RatingFits, RatesActive
  <2>2. CASE k # "feedback"
    <3>1. r.pending["feedback"] = s.pending["feedback"]
      BY <2>2 DEF PartsFit, DialogFits, Held
    <3>2. ~RatingAsked(r)
      BY <2>2 DEF RatingAsked
    <3> QED BY <1>1, <2>2, <3>1, <3>2 DEF PartsFit, RatingFits
  <2> QED BY <2>1, <2>2
<1> QED BY <1>2, <1>3, <1>4 DEF PartsFit

LEMMA FitsOpened ==
  ASSUME NEW s, NEW r, NEW k \in DialogTypes, NEW c, PartsFit(s), DOMAIN r = Fields,
         SameSetup(s, r), PlayingFits(r), r.playing.item = s.playing.item,
         r.answered = s.answered, r.topic \in Searches \union {NoSearch},
         r.active = Fresh(k, c), r.flags = {k} \intersect Flagged,
         \/ r.pending = s.pending
         \/ r.pending = [s.pending EXCEPT ![k] = c],
         k \in Held => ContextFits(k, c),
         k = "availability" /\ PagesListed => ListFits(c),
         k = "feedback" => RatesActive(s, c) /\ r.pending["feedback"] = c,
         k = "onboarding" => CaptureFits(r)
  PROVE  Aside(s, r)
<1>1. PartsFit(r)
  BY PartsOpened
<1>2. r.active.type = k
  BY DEF Fresh
<1>3. CaptureFits(r)
  BY <1>2 DEF CaptureFits
<1> QED BY <1>1, <1>3, PartsFits DEF Aside

-----------------------------------------------------------------------------
(* Operators of DialogState and Listening on documents. *)

\* What a document is made of.
LEMMA DocumentShape ==
  ASSUME NEW s, DocumentFits(s)
  PROVE  /\ DOMAIN s = Fields /\ DOMAIN s.pending = Held
         /\ DOMAIN s.active = {"type", "context", "left"}
         /\ DOMAIN s.playing = {"item", "status"} /\ PlayingFits(s)
         /\ s.playing.item \in Items \union {NoItem} /\ s.playing.status \in Statuses
BY DEF DocumentFits, DialogFits, PlayingFits

LEMMA AsideLower ==
  ASSUME NEW s, NEW k, DocumentFits(s) PROVE Aside(s, Lower(s, k))
<1> DEFINE r == Lower(s, k)
<1>1. /\ DOMAIN r = Fields /\ r.active = s.active /\ r.flags \subseteq s.flags
      /\ r.pending = s.pending /\ r.topic = s.topic /\ SameSetup(s, r)
      /\ r.playing = s.playing /\ r.answered = s.answered /\ r.latest = s.latest
  BY DocumentShape DEF Lower, Fields, SameSetup
<1> HIDE DEF r
<1>2. Aside(s, r)
  BY <1>1, DocumentShape, FitsDropped DEF Drops, PlayingFits
<1> QED BY <1>2 DEF r

LEMMA AsideRelease ==
  ASSUME NEW s, NEW k, DocumentFits(s), k # "feedback" PROVE Aside(s, Release(s, k))
<1> DEFINE r == Release(s, k)
<1>1. /\ DOMAIN r = Fields /\ r.active = s.active /\ r.flags = s.flags
      /\ r.pending = [s.pending EXCEPT ![k] = NoContext] /\ r.topic = s.topic
      /\ SameSetup(s, r)
      /\ r.playing = s.playing /\ r.answered = s.answered /\ r.latest = s.latest
  BY DocumentShape DEF Release, Hold, Fields, SameSetup
<1> HIDE DEF r
<1>2. DOMAIN r.pending = Held /\ r.pending["feedback"] = s.pending["feedback"]
      /\ \A m \in Held : r.pending[m] \in {NoContext, s.pending[m]}
  BY <1>1, DocumentShape DEF Held
<1>3. Aside(s, r)
  BY <1>1, <1>2, DocumentShape, FitsDropped DEF Drops, PlayingFits
<1> QED BY <1>3 DEF r

LEMMA AsideClear ==
  ASSUME NEW s, NEW types, DocumentFits(s)
  PROVE  Aside(s, Clear(s, types))
<1>1. ASSUME NEW k PROVE Aside(s, ClearOf(s, k, types))
  <2> DEFINE r == [s EXCEPT !.active = NoDialog, !.flags = @ \ {k}]
  <2>1. /\ DOMAIN r = Fields /\ r.active = NoDialog /\ r.flags \subseteq s.flags
        /\ r.pending = s.pending /\ r.topic = s.topic /\ SameSetup(s, r)
        /\ r.playing = s.playing /\ r.answered = s.answered /\ r.latest = s.latest
    BY DocumentShape DEF Fields, SameSetup
  <2> HIDE DEF r
  <2>2. Aside(s, r)
    BY <2>1, DocumentShape, FitsDropped DEF Drops, PlayingFits
  <2> QED BY <2>2, AsideSelf DEF ClearOf, r
<1> QED BY <1>1 DEF Clear

LEMMA AsideClosed ==
  ASSUME NEW s, NEW k, DocumentFits(s)
  PROVE  /\ Aside(s, Clear(Lower(s, k), {k}))
         /\ k # "feedback" => Aside(s, Clear(Lower(Release(s, k), k), {k}))
<1>1. ASSUME NEW q, Aside(s, q) PROVE Aside(s, Clear(Lower(q, k), {k}))
  <2>1. Aside(q, Lower(q, k)) /\ DocumentFits(Lower(q, k))
    BY <1>1, AsideLower, AsideFits
  <2>2. Aside(Lower(q, k), Clear(Lower(q, k), {k}))
    BY <2>1, AsideClear
  <2> QED BY <1>1, <2>1, <2>2, AsideTrans
<1>2. Aside(s, s) /\ (k # "feedback" => Aside(s, Release(s, k)))
  BY AsideSelf, AsideRelease
<1> QED BY <1>1, <1>2

LEMMA AsideTransient ==
  ASSUME NEW s, DocumentFits(s) PROVE Aside(s, ClearTransient(s))
<1> DEFINE r == ClearTransient(s)
<1>1. /\ DOMAIN r = Fields /\ r.active \in {NoDialog, s.active} /\ r.flags \subseteq s.flags
      /\ r.pending = [[s.pending EXCEPT !["search_confirmation"] = NoContext]
                         EXCEPT !["ambiguity"] = NoContext]
      /\ r.topic = s.topic /\ SameSetup(s, r)
      /\ r.playing = s.playing /\ r.answered = s.answered /\ r.latest = s.latest
  BY DocumentShape DEF ClearTransient, Fields, SameSetup
<1> HIDE DEF r
<1>2. DOMAIN r.pending = Held /\ r.pending["feedback"] = s.pending["feedback"]
      /\ \A m \in Held : r.pending[m] \in {NoContext, s.pending[m]}
  BY <1>1, DocumentShape DEF Held
<1>3. Aside(s, r)
  BY <1>1, <1>2, DocumentShape, FitsDropped DEF Drops, PlayingFits
<1> QED BY <1>3 DEF r

LEMMA AsideDismissAmbiguity ==
  ASSUME NEW s, DocumentFits(s) PROVE Aside(s, DismissAmbiguity(s))
<1> DEFINE q == Release(s, "ambiguity")
           r == [q EXCEPT !.active = NoDialog]
<1>1. Aside(s, q)
  BY AsideRelease
<1> HIDE DEF q
<1>2. DocumentFits(q)
  BY <1>1, AsideFits
<1>3. /\ DOMAIN r = Fields /\ r.active = NoDialog /\ r.flags = q.flags
      /\ r.pending = q.pending /\ r.topic = q.topic /\ SameSetup(q, r)
      /\ r.playing = q.playing /\ r.answered = q.answered /\ r.latest = q.latest
  BY <1>2, DocumentShape DEF Fields, SameSetup
<1> HIDE DEF r
<1>4. Aside(q, r)
  BY <1>2, <1>3, DocumentShape, FitsDropped DEF Drops, PlayingFits
<1> QED BY <1>1, <1>4, AsideTrans DEF DismissAmbiguity, q, r

\* Nothing is left of a rating.
LEMMA AsideRated ==
  ASSUME NEW s, DocumentFits(s)
  PROVE  Aside(s, MarkAnswered(s)) /\ Aside(s, ClearFeedback(s)) /\ Aside(s, Dismiss(s))
<1>1. Aside(s, MarkAnswered(s))
  <2> DEFINE r == MarkAnswered(s)
  <2>1. /\ DOMAIN r = Fields /\ r.active = NoDialog
        /\ r.flags = s.flags \ {"feedback", "feedback_continuation"}
        /\ r.pending = [[s.pending EXCEPT !["feedback"] = NoContext]
                           EXCEPT !["feedback_continuation"] = NoContext]
        /\ r.topic = s.topic /\ SameSetup(s, r)
        /\ r.playing = s.playing /\ r.latest = s.latest
    BY DocumentShape DEF MarkAnswered, Fields, SameSetup
  <2> HIDE DEF r
  <2>2. DOMAIN r.pending = Held /\ r.pending["feedback"] = NoContext
        /\ \A m \in Held : r.pending[m] \in {NoContext, s.pending[m]}
    BY <2>1, DocumentShape DEF Held
  <2>3. r.active.type # "feedback"
    BY <2>1 DEF NoDialog
  <2>4. Aside(s, r)
    BY <2>1, <2>2, <2>3, DocumentShape, FitsDropped DEF Drops, PlayingFits
  <2> QED BY <2>4 DEF r
<1>2. Aside(s, ClearFeedback(s))
  <2> DEFINE gone == {"feedback", "feedback_continuation", "report_decision"}
             r == ClearFeedback(s)
  <2>1. /\ DOMAIN r = Fields /\ r.active = NoDialog /\ r.flags = s.flags \ gone
        /\ r.pending = [k \in Held |-> IF k \in gone THEN NoContext ELSE s.pending[k]]
        /\ r.topic = s.topic /\ SameSetup(s, r)
        /\ r.playing = s.playing /\ r.latest = s.latest
    BY DocumentShape DEF ClearFeedback, Fields, SameSetup
  <2> HIDE DEF r
  <2>2. DOMAIN r.pending = Held /\ r.pending["feedback"] = NoContext
        /\ \A m \in Held : r.pending[m] \in {NoContext, s.pending[m]}
    BY <2>1 DEF Held
  <2>3. r.active.type # "feedback"
    BY <2>1 DEF NoDialog
  <2>4. Aside(s, r)
    BY <2>1, <2>2, <2>3, DocumentShape, FitsDropped DEF Drops, PlayingFits
  <2> QED BY <2>4 DEF r
<1>3. Aside(s, Dismiss(s))
  <2> DEFINE gone == {"feedback", "feedback_continuation"}
             r == Dismiss(s)
  <2>1. /\ DOMAIN r = Fields /\ r.flags = s.flags \ gone
        /\ r.active = IF s.active.type = "feedback" THEN NoDialog ELSE s.active
        /\ r.pending = [k \in Held |-> IF k \in gone THEN NoContext ELSE s.pending[k]]
        /\ r.topic = s.topic /\ SameSetup(s, r)
        /\ r.playing = s.playing /\ r.latest = s.latest
    BY DocumentShape DEF Dismiss, Fields, SameSetup
  <2> HIDE DEF r
  <2>2. DOMAIN r.pending = Held /\ r.pending["feedback"] = NoContext
        /\ \A m \in Held : r.pending[m] \in {NoContext, s.pending[m]}
    BY <2>1 DEF Held
  <2>3. r.active.type # "feedback"
    BY <2>1 DEF NoDialog
  <2>4. Aside(s, r)
    BY <2>1, <2>2, <2>3, DocumentShape, FitsDropped DEF Drops, PlayingFits
  <2> QED BY <2>4 DEF r
<1> QED BY <1>1, <1>2, <1>3

\* A dialogue is opened, with what it is about in its own field or not.
LEMMA AsideActivate ==
  ASSUME NEW s, NEW k \in DialogTypes \ {"feedback", "onboarding"}, NEW c, DocumentFits(s),
         k \in Held => ContextFits(k, c),
         k = "availability" /\ PagesListed => ListFits(c)
  PROVE  Aside(s, Activate(s, k, c)) /\ Aside(s, Activate(Hold(s, k, c), k, c))
<1> DEFINE r == Activate(s, k, c)
           q == Activate(Hold(s, k, c), k, c)
<1>1. /\ DOMAIN r = Fields /\ r.active = Fresh(k, c) /\ r.flags = {k} \intersect Flagged
      /\ r.pending = s.pending /\ r.topic = s.topic /\ SameSetup(s, r)
      /\ r.playing = s.playing /\ r.answered = s.answered /\ r.latest = s.latest
  BY DocumentShape DEF Activate, Fields, SameSetup
<1>2. /\ DOMAIN q = Fields /\ q.active = Fresh(k, c) /\ q.flags = {k} \intersect Flagged
      /\ q.pending = [s.pending EXCEPT ![k] = c] /\ q.topic = s.topic /\ SameSetup(s, q)
      /\ q.playing = s.playing /\ q.answered = s.answered /\ q.latest = s.latest
  BY DocumentShape DEF Activate, Hold, Fields, SameSetup
<1>3. s.topic \in Searches \union {NoSearch} /\ PartsFit(s)
  BY FitsParts DEF DocumentFits, DialogFits
<1> HIDE DEF r, q
<1>4. Aside(s, r)
  BY <1>1, <1>3, DocumentShape, FitsOpened DEF PlayingFits
<1>5. Aside(s, q)
  BY <1>2, <1>3, DocumentShape, FitsOpened DEF PlayingFits
<1> QED BY <1>4, <1>5 DEF r, q

LEMMA AsideActivateRating ==
  ASSUME NEW s, NEW c, DocumentFits(s), RatesActive(s, c)
  PROVE  Aside(s, Activate(Hold(s, "feedback", c), "feedback", c))
<1> DEFINE k == "feedback"
           q == Activate(Hold(s, k, c), k, c)
<1>2. /\ DOMAIN q = Fields /\ q.active = Fresh(k, c) /\ q.flags = {k} \intersect Flagged
      /\ q.pending = [s.pending EXCEPT ![k] = c] /\ q.topic = s.topic /\ SameSetup(s, q)
      /\ q.playing = s.playing /\ q.answered = s.answered /\ q.latest = s.latest
  BY DocumentShape DEF Activate, Hold, Fields, SameSetup
<1>3. s.topic \in Searches \union {NoSearch} /\ PartsFit(s)
  BY FitsParts DEF DocumentFits, DialogFits
<1> HIDE DEF q
<1>4. q.pending["feedback"] = c
  BY <1>2, DocumentShape DEF Held
<1>5. k \in DialogTypes /\ ContextFits(k, c)
  BY DEF DialogTypes, Flagged, ContextFits, RatesActive
<1>6. PlayingFits(q) /\ q.playing.item = s.playing.item
  BY <1>2, DocumentShape DEF PlayingFits
<1>7. k # "availability" /\ k # "onboarding"
  OBVIOUS
<1>8. \/ q.pending = s.pending
      \/ q.pending = [s.pending EXCEPT ![k] = c]
  BY <1>2
<1> HIDE DEF k
<1>9. k = "feedback" => RatesActive(s, c) /\ q.pending["feedback"] = c
  BY <1>4
<1>10. Aside(s, q)
  BY <1>2, <1>3, <1>5, <1>6, <1>7, <1>8, <1>9, FitsOpened
<1> QED BY <1>10 DEF q, k

LEMMA AsideBest ==
  ASSUME NEW s, NEW candidates, DocumentFits(s),
         \A c \in candidates : c \in AboutContexts /\ c.about = SubjectOf(s.playing.item)
  PROVE  Aside(s, ActivateBest(s, candidates))
<1> DEFINE open == {c \in candidates : c.about \notin s.answered}
           c == CHOOSE c \in open : TRUE
<1>1. CASE open = {} \/ (RatingAsked(s) /\ s.pending["feedback"] # NoContext)
  BY <1>1, AsideSelf DEF ActivateBest
<1>2. CASE ~(open = {} \/ (RatingAsked(s) /\ s.pending["feedback"] # NoContext))
  <2>1. c \in open
    BY <1>2
  <2>2. ActivateBest(s, candidates) = Activate(Hold(s, "feedback", c), "feedback", c)
    BY <1>2 DEF ActivateBest
  <2> HIDE DEF c
  <2>3. RatesActive(s, c)
    BY <2>1 DEF RatesActive
  <2> QED BY <2>2, <2>3, AsideActivateRating
<1> QED BY <1>1, <1>2

LEMMA AboutFits ==
  ASSUME NEW i \in Items \union {NoItem}, NEW j \in Items \union {NoItem}
  PROVE  /\ SubjectOf(i) \in Subjects \union Items \union {NoItem}
         /\ About(SubjectOf(i), j) \in AboutContexts /\ About(i, j) \in AboutContexts
         /\ Candidate(i) \in AboutContexts /\ Candidate(i).about = SubjectOf(i)
<1>1. SubjectOf(i) \in Subjects \union Items \union {NoItem}
  BY DEF SubjectOf, Subjects
<1>2. ASSUME NEW x \in Subjects \union Items \union Notices \union {NoItem},
             NEW y \in Items \union {NoItem}
      PROVE  About(x, y) \in AboutContexts /\ About(x, y).about = x
             /\ [About(x, y) EXCEPT !.completed = TRUE] \in AboutContexts
             /\ [About(x, y) EXCEPT !.completed = TRUE].about = x
  <2>1. About(x, y) \in AboutContexts /\ About(x, y).about = x
    BY DEF About, AboutContexts
  <2> DEFINE d == About(x, y)
             e == [d EXCEPT !.completed = TRUE]
  <2> HIDE DEF d
  <2>2. d \in AboutContexts
    BY <2>1 DEF d
  <2>3. e \in AboutContexts /\ e.about = d.about
    BY <2>2 DEF AboutContexts
  <2> QED BY <2>1, <2>3 DEF d
<1> QED BY <1>1, <1>2 DEF Candidate

LEMMA SuccessorFits ==
  ASSUME NEW i PROVE NextOf(i) \in Items \union {NoItem}
<1>1. CASE \E k \in DOMAIN Queue : Queue[k] = i /\ k < Len(Queue)
  <2> DEFINE k == CHOOSE k \in DOMAIN Queue : Queue[k] = i
  <2>1. PICK m \in DOMAIN Queue : Queue[m] = i /\ m < Len(Queue)
    BY <1>1
  <2>2. k \in DOMAIN Queue /\ Queue[k] = i
    BY <2>1
  <2> HIDE DEF k
  <2>3. k = m
    BY <2>1, <2>2, ListeningAssumption
  <2>4. DOMAIN Queue = 1..Len(Queue) /\ Len(Queue) \in Nat
    BY ListeningAssumption
  <2>5. k + 1 \in DOMAIN Queue
    BY <2>1, <2>3, <2>4
  <2>6. NextOf(i) = Queue[k + 1]
    BY <1>1 DEF NextOf, k
  <2> QED BY <2>5, <2>6 DEF Items, QueueItems
<1>2. CASE ~ \E k \in DOMAIN Queue : Queue[k] = i /\ k < Len(Queue)
  BY <1>2 DEF NextOf
<1> QED BY <1>1, <1>2

LEMMA FirstFits == Queue[1] \in Items
<1>1. DOMAIN Queue = 1..Len(Queue) /\ Len(Queue) \in Nat
  BY ListeningAssumption
<1>2. DOMAIN Queue # {}
  BY ListeningAssumption DEF QueueItems
<1>3. 1 \in DOMAIN Queue
  BY <1>1, <1>2
<1> QED BY <1>3 DEF Items, QueueItems

LEMMA AsidePublication ==
  ASSUME NEW s, NEW i \in Items \union {NoItem}, DocumentFits(s)
  PROVE  /\ Aside(s, Finalize(s)) /\ Finalize(s).playing = s.playing
         /\ Aside(s, Heard(s, i)) /\ Heard(s, i).playing = s.playing
         /\ Aside(s, SaveCompletedSource(s, i))
         /\ SaveCompletedSource(s, i).playing = s.playing
<1>1. Aside(s, Finalize(s)) /\ Finalize(s).playing = s.playing
  <2> DEFINE r == Finalize(s)
  <2>1. /\ DOMAIN r = Fields /\ r.active = s.active /\ r.flags = s.flags
        /\ r.pending = s.pending /\ r.topic = s.topic /\ SameSetup(s, r)
        /\ r.playing = s.playing /\ r.answered = s.answered /\ r.latest = s.latest
    BY DocumentShape DEF Finalize, Fields, SameSetup
  <2> HIDE DEF r
  <2>2. Aside(s, r)
    BY <2>1, DocumentShape, FitsBeside DEF PlayingFits
  <2> QED BY <2>1, <2>2 DEF r
<1>2. Aside(s, Heard(s, i)) /\ Heard(s, i).playing = s.playing
  <2> DEFINE r == Heard(s, i)
  <2>1. /\ DOMAIN r = Fields /\ r.active = s.active /\ r.flags = s.flags
        /\ r.pending = s.pending /\ r.topic = s.topic /\ SameSetup(s, r)
        /\ r.playing = s.playing /\ r.answered = s.answered /\ r.latest = s.latest
    BY DocumentShape DEF Heard, Fields, SameSetup
  <2> HIDE DEF r
  <2>2. Aside(s, r)
    BY <2>1, DocumentShape, FitsBeside DEF PlayingFits
  <2> QED BY <2>1, <2>2 DEF r
<1>3. Aside(s, SaveCompletedSource(s, i)) /\ SaveCompletedSource(s, i).playing = s.playing
  <2> DEFINE r == SaveCompletedSource(s, i)
  <2>1. /\ DOMAIN r = Fields /\ r.active = s.active /\ r.flags = s.flags
        /\ r.pending = s.pending /\ r.topic = s.topic /\ SameSetup(s, r)
        /\ r.playing = s.playing /\ r.answered = s.answered
        /\ r.latest = [s.latest EXCEPT !.finished = i]
    BY DocumentShape DEF SaveCompletedSource, Fields, SameSetup
  <2>2. PlayingFits(r)
    <3> HIDE DEF r
    <3> QED BY <2>1, DocumentShape DEF PlayingFits
  <2> HIDE DEF r
  <2>3. Drops(s, r)
    BY <2>1, DocumentShape DEF Drops
  <2>4. Aside(s, r)
    BY <2>1, <2>2, <2>3, FitsDropped
  <2> QED BY <2>1, <2>4 DEF r
<1> QED BY <1>1, <1>2, <1>3

LEMMA FinalizedFits ==
  ASSUME NEW s, NEW h, s.playing.item \in Tracks
  PROVE  \A c \in Finalized(h) : c \in AboutContexts /\ c.about = SubjectOf(s.playing.item)
<1> DEFINE i == CHOOSE i \in Tracks : TRUE
<1>1. i \in Tracks
  BY ListeningAssumption
<1>2. i \in Items
  BY <1>1, ListeningAssumption DEF Items
<1>3. SubjectOf(i) = SubjectOf(s.playing.item)
  BY <1>1 DEF SubjectOf
<1>4. Finalized(h) \subseteq {Candidate(i)}
  BY DEF Finalized
<1> HIDE DEF i
<1> QED BY <1>2, <1>3, <1>4, AboutFits

LEMMA AsideFinished ==
  ASSUME NEW s, DocumentFits(s)
  PROVE  Aside(s, RateFinished(s, s.playing.item))
<1> DEFINE i == s.playing.item
           h == Heard(s, i)
           f == Finalize(h)
<1>0. i \in Items \union {NoItem}
  BY DocumentShape
<1>1. Aside(s, h) /\ DocumentFits(h) /\ h.playing = s.playing
  BY <1>0, AsidePublication, AsideFits
<1> HIDE DEF h
<1>2. Aside(h, f) /\ DocumentFits(f) /\ f.playing = s.playing
  BY <1>0, <1>1, AsidePublication, AsideFits
<1> HIDE DEF f
<1>3. i \in Tracks => Aside(f, ActivateBest(f, Finalized(h)))
  BY <1>2, FinalizedFits, AsideBest
<1>4. i \in Tracks => Aside(s, ActivateBest(f, Finalized(h)))
  BY <1>1, <1>2, <1>3, AsideTrans
<1>5. Aside(s, ActivateBest(s, {Candidate(i)}))
  BY <1>0, AboutFits, AsideBest
<1>6. \/ RateFinished(s, i) \in {ActivateBest(s, {Candidate(i)}), h}
      \/ i \in Tracks /\ RateFinished(s, i) = ActivateBest(f, Finalized(h))
  BY DEF RateFinished, h, f
<1> QED BY <1>1, <1>4, <1>5, <1>6

\* What starts dismisses the question that was open.
LEMMA AsideSession ==
  ASSUME NEW s, NEW i \in Items \union {NoItem}, DocumentFits(s)
  PROVE  Aside(s, StartSession(s, i)) /\ StartSession(s, i).playing.item = i
<1> DEFINE a == Finalize(s)
           b == ActivateBest(a, Finalized(s))
           rated == IF i \notin Tracks THEN b ELSE s
           gone == {"feedback", "feedback_continuation"}
           r == StartSession(s, i)
<1>1. Aside(s, a) /\ DocumentFits(a)
  BY AsidePublication, AsideFits
<1> HIDE DEF a
<1>2. /\ DOMAIN b = Fields /\ SameSetup(s, b) /\ b.topic = s.topic /\ b.latest = s.latest
      /\ DOMAIN b.pending = Held
      /\ \A k \in Held \ {"feedback"} : b.pending[k] = s.pending[k]
      /\ \/ b.active = s.active /\ b.flags = s.flags
         \/ \E c : b.active = Fresh("feedback", c) /\ b.flags = {"feedback"}
  <2>1. /\ a.topic = s.topic /\ a.latest = s.latest /\ a.pending = s.pending
        /\ a.active = s.active /\ a.flags = s.flags
    BY DocumentShape DEF Finalize, a, Fields
  <2>2. SameSetup(s, a)
    BY <1>1 DEF Aside
  <2>3. ASSUME NEW c
        PROVE  LET q == Activate(Hold(a, "feedback", c), "feedback", c)
               IN  /\ DOMAIN q = Fields /\ SameSetup(a, q) /\ q.topic = a.topic
                   /\ q.latest = a.latest /\ q.pending = [a.pending EXCEPT !["feedback"] = c]
                   /\ q.active = Fresh("feedback", c)
                   /\ q.flags = {"feedback"} \intersect Flagged
    BY <1>1, DocumentShape DEF Activate, Hold, Fields, SameSetup
  <2>4. {"feedback"} \intersect Flagged = {"feedback"}
    BY DEF Flagged
  <2>5. \/ b = a
        \/ \E c : b = Activate(Hold(a, "feedback", c), "feedback", c)
    BY DEF ActivateBest
  <2> HIDE DEF b
  <2>6. CASE b = a
    BY <1>1, <2>1, <2>2, <2>6, DocumentShape
  <2>7. CASE \E c : b = Activate(Hold(a, "feedback", c), "feedback", c)
    <3>1. PICK c : b = Activate(Hold(a, "feedback", c), "feedback", c)
      BY <2>7
    <3>2. /\ DOMAIN b = Fields /\ SameSetup(a, b) /\ b.topic = a.topic
          /\ b.latest = a.latest /\ b.pending = [a.pending EXCEPT !["feedback"] = c]
          /\ b.active = Fresh("feedback", c) /\ b.flags = {"feedback"}
      BY <2>3, <2>4, <3>1
    <3>3. SameSetup(s, b)
      BY <2>2, <3>2 DEF SameSetup
    <3>4. DOMAIN b.pending = Held
          /\ \A k \in Held \ {"feedback"} : b.pending[k] = s.pending[k]
      BY <1>1, <2>1, <3>2, DocumentShape DEF Held
    <3> QED BY <2>1, <3>2, <3>3, <3>4
  <2> QED BY <2>5, <2>6, <2>7
<1> HIDE DEF b
<1>3. /\ DOMAIN rated = Fields /\ SameSetup(s, rated) /\ rated.topic = s.topic
      /\ rated.latest = s.latest /\ DOMAIN rated.pending = Held
      /\ \A k \in Held \ {"feedback"} : rated.pending[k] = s.pending[k]
      /\ \/ rated.active = s.active /\ rated.flags = s.flags
         \/ \E c : rated.active = Fresh("feedback", c) /\ rated.flags = {"feedback"}
  BY <1>2, DocumentShape DEF SameSetup
<1>4. r = [Dismiss(rated) EXCEPT !.playing = [item |-> i, status |-> "starting"],
                                 !.prepared = FALSE]
  BY DEF StartSession, a, b
<1> HIDE DEF rated
<1>5. /\ DOMAIN r = Fields /\ SameSetup(rated, r) /\ r.topic = rated.topic
      /\ r.latest = rated.latest /\ r.playing = [item |-> i, status |-> "starting"]
      /\ r.active = IF rated.active.type = "feedback" THEN NoDialog ELSE rated.active
      /\ r.flags = rated.flags \ gone
      /\ r.pending = [k \in Held |-> IF k \in gone THEN NoContext ELSE rated.pending[k]]
  BY <1>3, <1>4 DEF Dismiss, Fields, SameSetup
<1> HIDE DEF r
<1>6. r.active \in {NoDialog, s.active} /\ r.active.type # "feedback"
      /\ r.flags \subseteq s.flags /\ "feedback" \notin r.flags
  <2>1. NoDialog.type # "feedback"
    BY DEF NoDialog
  <2>2. CASE rated.active = s.active /\ rated.flags = s.flags
    BY <1>5, <2>1, <2>2
  <2>3. CASE \E c : rated.active = Fresh("feedback", c) /\ rated.flags = {"feedback"}
    <3>1. rated.active.type = "feedback" /\ rated.flags = {"feedback"}
      BY <2>3 DEF Fresh
    <3> QED BY <1>5, <2>1, <3>1
  <2> QED BY <1>3, <2>2, <2>3
<1>7. DOMAIN r.pending = Held /\ r.pending["feedback"] = NoContext
      /\ \A k \in Held : r.pending[k] \in {NoContext, s.pending[k]}
  BY <1>3, <1>5 DEF Held
<1>8. SameSetup(s, r)
  BY <1>3, <1>5 DEF SameSetup
<1>9. PlayingFits(r)
  BY <1>3, <1>5, DocumentShape DEF PlayingFits, Statuses
<1>10. Drops(s, r)
  BY <1>3, <1>5, <1>6, <1>7 DEF Drops
<1>11. Aside(s, r)
  BY <1>5, <1>6, <1>7, <1>8, <1>9, <1>10, FitsDropped
<1> QED BY <1>5, <1>11 DEF r

\* A rating that the listener asks for.
LEMMA RequestedFits ==
  ASSUME NEW s, DocumentFits(s), RequestedRating(s) # NoContext
  PROVE  RatesActive(s, RequestedRating(s))
<1> DEFINE i == s.playing.item
           p == s.pending["feedback"]
<1>1. i \in Items \union {NoItem}
  BY DocumentShape
<1>2. CASE i # NoItem
  <2> DEFINE d == About(SubjectOf(i), i)
             b == s.playing.status = "completed"
             c == [d EXCEPT !.requested = TRUE, !.completed = b]
  <2>1. RequestedRating(s) = c
    BY <1>2 DEF RequestedRating
  <2>2. d \in AboutContexts /\ d.about = SubjectOf(i)
    <3>1. d \in AboutContexts
      BY <1>1, AboutFits
    <3> QED BY <3>1 DEF About
  <2> HIDE DEF d
  <2>3. b \in BOOLEAN
    OBVIOUS
  <2> HIDE DEF b
  <2>4. c \in AboutContexts /\ c.about = d.about /\ c.requested
    BY <2>2, <2>3 DEF AboutContexts
  <2> QED BY <2>1, <2>2, <2>4 DEF RatesActive
<1>3. CASE i = NoItem
  <2> DEFINE c == [p EXCEPT !.requested = TRUE]
  <2>1. p # NoContext /\ RequestedRating(s) = c
    BY <1>3 DEF RequestedRating
  <2>2. p \in AboutContexts /\ p.about = SubjectOf(i)
    BY <2>1 DEF DocumentFits, DialogFits, RatingFits, ContextFits, Held
  <2> HIDE DEF p
  <2>3. c \in AboutContexts /\ c.about = p.about /\ c.requested
    BY <2>2 DEF AboutContexts
  <2> QED BY <2>1, <2>2, <2>3 DEF RatesActive
<1> QED BY <1>2, <1>3

LEMMA AsideUnrecognised ==
  ASSUME NEW s, DocumentFits(s), s.active.type = "feedback"
  PROVE  Aside(s, NoteUnrecognised(s))
<1> DEFINE d == s.active.context
           c == [d EXCEPT !.unclear = 1]
           r == [s EXCEPT !.active.context = c, !.pending["feedback"] = c]
<1>1. RatesActive(s, d)
  BY DEF DocumentFits, RatingFits
<1>2. RatesActive(s, c)
  <2> HIDE DEF d
  <2> QED BY <1>1 DEF RatesActive, AboutContexts
<1> HIDE DEF c, d
<1>3. /\ DOMAIN r = Fields /\ r.active = [s.active EXCEPT !.context = c] /\ r.flags = s.flags
      /\ r.pending = [s.pending EXCEPT !["feedback"] = c] /\ r.topic = s.topic
      /\ SameSetup(s, r)
      /\ r.playing = s.playing /\ r.answered = s.answered /\ r.latest = s.latest
  BY DocumentShape DEF Fields, SameSetup
<1> HIDE DEF r
<1>4. r.active.type = "feedback" /\ r.active.context = c /\ DOMAIN r.active = DOMAIN s.active
  BY <1>3, DocumentShape
<1>5. DOMAIN r.pending = Held /\ r.pending["feedback"] = c
      /\ \A k \in Held : k # "feedback" => r.pending[k] = s.pending[k]
  BY <1>3, DocumentShape DEF Held
<1>6. ContextFits("feedback", c) /\ RatesActive(r, c)
  BY <1>2, <1>3 DEF ContextFits, RatesActive
<1>7. DialogFits(r)
  BY <1>3, <1>4, <1>5, <1>6 DEF DocumentFits, DialogFits
<1>8. SetupFits(r) /\ PlayingFits(r)
  BY <1>3 DEF DocumentFits, SetupFits, PlayingFits, SameSetup
<1>9. RatingFits(r)
  BY <1>4, <1>5, <1>6 DEF RatingFits, RatesActive
<1>10. CaptureFits(r)
  BY <1>4 DEF CaptureFits
<1>11. Aside(s, r)
  BY <1>3, <1>7, <1>8, <1>9, <1>10 DEF Aside, DocumentFits
<1> QED BY <1>11, AsideRated DEF NoteUnrecognised, r, c, d

\* What a report is about.
LEMMA ReportFits ==
  ASSUME NEW s, DocumentFits(s)
  PROVE  ReportContext(s) \in AboutContexts
<1> DEFINE saved == s.pending["report_decision"]
           p == s.pending["feedback"]
           item == IF saved # NoContext /\ saved.item # NoItem THEN saved.item
                   ELSE IF p # NoContext /\ p.item # NoItem THEN p.item
                   ELSE s.playing.item
           b == (saved # NoContext /\ saved.requested) \/ (p # NoContext /\ p.requested)
           d == About(item, item)
<1>1. /\ saved # NoContext => saved \in AboutContexts
      /\ p # NoContext => p \in AboutContexts
  BY DEF DocumentFits, DialogFits, ContextFits, Held
<1>2. item \in Items \union {NoItem}
  BY <1>1, DocumentShape DEF AboutContexts
<1>3. b \in BOOLEAN
  OBVIOUS
<1>4. ReportContext(s) = [d EXCEPT !.requested = b]
  BY DEF ReportContext
<1> HIDE DEF item, b
<1>5. d \in AboutContexts
  BY <1>2, AboutFits
<1> HIDE DEF d
<1> QED BY <1>3, <1>4, <1>5 DEF AboutContexts

-----------------------------------------------------------------------------
(* Operators of Setup on documents. *)

\* r follows the document d that was loaded, and its town is c: what is set up stays so,
\* and a setup ends for good.
Since(d, c, r) ==
  /\ DocumentFits(r) /\ r.city = c
  /\ (d.onboarded => r.onboarded) /\ (d.known => r.known)
  /\ d.stage # "none" /\ r.stage = "none" => r.onboarded

LEMMA SinceOnward ==
  ASSUME NEW d, NEW c, NEW s, NEW r, Since(d, c, s), Onward(s, r) PROVE Since(d, c, r)
BY DEF Since, Onward

\* r has the dialogue and the recording of s, and maybe a subject less.
SameDialog(s, r) ==
  /\ r.active = s.active /\ r.flags = s.flags /\ r.topic = s.topic
  /\ r.pending \in {s.pending, [s.pending EXCEPT !["ambiguity"] = NoContext]}
  /\ r.playing = s.playing /\ r.answered = s.answered /\ r.latest = s.latest

LEMMA PartsSetUp ==
  ASSUME NEW s, NEW r, PartsFit(s), DOMAIN r = Fields, SameDialog(s, r), SetupFits(r)
  PROVE  PartsFit(r) /\ r.pending["feedback"] = s.pending["feedback"]
<1>1. DOMAIN s.pending = Held
  BY DEF PartsFit, DialogFits
<1>2. DOMAIN r.pending = Held /\ r.pending["feedback"] = s.pending["feedback"]
      /\ \A k \in Held : r.pending[k] \in {NoContext, s.pending[k]}
  BY <1>1 DEF SameDialog, Held
<1>3. Drops(s, r)
  BY <1>2 DEF SameDialog, Drops
<1>4. DialogFits(r)
  BY <1>3, DialogDropped DEF PartsFit
<1>5. PlayingFits(r)
  BY DEF PartsFit, PlayingFits, SameDialog
<1>6. RatingFits(r)
  BY <1>2 DEF PartsFit, RatingFits, RatesActive, RatingAsked, SameDialog
<1> QED BY <1>2, <1>4, <1>5, <1>6 DEF PartsFit

\* While a town is asked for, this is so.
Capturable(s) == s.setup.permission => s.pending["ambiguity"] = NoContext

\* What a setup is made of.
LEMMA SetupShape ==
  ASSUME NEW q \in Setups
  PROVE  /\ DOMAIN q = {"attempts", "failures", "candidate", "choices", "consent", "permission",
                        "profileTown", "profileActive", "community"}
         /\ q.attempts \in 0..(MaxTownAttempts - 1) /\ q.failures \in 0..(MaxTownFailures - 1)
         /\ q.candidate \in Towns \union {NoTown} /\ q.choices \in {<<>>} \union TownChoices
         /\ q.consent \in BOOLEAN /\ q.permission \in BOOLEAN /\ q.profileActive \in BOOLEAN
         /\ q.community \in BOOLEAN
BY DEF Setups

LEMMA NothingFits ==
  /\ NothingSetUp \in Setups /\ ~NothingSetUp.permission
  /\ 0 \in 0..(MaxTownAttempts - 1) /\ 0 \in 0..(MaxTownFailures - 1)
<1>1. 0 \in 0..(MaxTownAttempts - 1) /\ 0 \in 0..(MaxTownFailures - 1)
  BY SetupAssumption
<1> QED BY <1>1 DEF NothingSetUp, Setups

\* An edit of a setup that keeps its limits.
LEMMA SetupsEdited ==
  ASSUME NEW q \in Setups
  PROVE  /\ \A n \in 0..(MaxTownAttempts - 1) : [q EXCEPT !.attempts = n] \in Setups
         /\ \A n \in 0..(MaxTownFailures - 1) : [q EXCEPT !.failures = n] \in Setups
         /\ \A town \in Towns \union {NoTown} : [q EXCEPT !.candidate = town] \in Setups
         /\ \A c \in {<<>>} \union TownChoices : [q EXCEPT !.choices = c] \in Setups
         /\ \A b \in BOOLEAN :
              /\ [q EXCEPT !.consent = b] \in Setups /\ [q EXCEPT !.permission = b] \in Setups
              /\ [q EXCEPT !.profileTown = b] \in Setups
              /\ [q EXCEPT !.profileActive = b] \in Setups
              /\ [q EXCEPT !.community = b] \in Setups
BY DEF Setups

LEMMA StartFits ==
  ASSUME NEW s, DocumentFits(s)
  PROVE  /\ Onward(s, StartTownCapture(s)) /\ Capturable(StartTownCapture(s))
         /\ Onward(s, RequestLocationChange(s)) /\ Capturable(RequestLocationChange(s))
         /\ StartTownCapture(s).stage = "ask_town" /\ RequestLocationChange(s).stage = "ask_town"
<1>0. s.setup \in Setups /\ DOMAIN s = Fields /\ PartsFit(s) /\ DOMAIN s.pending = Held
  BY DocumentShape, FitsParts DEF DocumentFits, SetupFits
<1>1. ASSUME NEW r, DOMAIN r = Fields, SameDialog(s, r), r.stage = "ask_town", r.city = s.city,
             r.onboarded = s.onboarded, r.known = s.known, r.setup \in Setups,
             r.setup.permission = s.setup.permission,
             r.setup.profileActive = s.setup.profileActive,
             r.pending = [s.pending EXCEPT !["ambiguity"] = NoContext]
      PROVE  Onward(s, r) /\ Capturable(r)
  <2>1. SetupFits(r)
    BY <1>1 DEF DocumentFits, SetupFits, Stages
  <2>2. PartsFit(r)
    BY <1>0, <1>1, <2>1, PartsSetUp
  <2>3. r.pending["ambiguity"] = NoContext
    BY <1>0, <1>1 DEF Held
  <2>4. CaptureFits(r)
    BY <1>1, <2>3 DEF CaptureFits
  <2> QED BY <1>1, <2>2, <2>3, <2>4, PartsFits DEF Onward, Capturable
<1> DEFINE a == [s.setup EXCEPT !.attempts = 0]
           b == [a EXCEPT !.failures = 0]
           p == [b EXCEPT !.choices = <<>>]
           q == [a EXCEPT !.choices = <<>>]
           r == StartTownCapture(s)
           l == RequestLocationChange(s)
<1>2. a \in Setups /\ a.permission = s.setup.permission
      /\ a.profileActive = s.setup.profileActive
  BY <1>0, NothingFits, SetupsEdited, SetupShape
<1> HIDE DEF a
<1>3. b \in Setups /\ b.permission = s.setup.permission
      /\ b.profileActive = s.setup.profileActive
  BY <1>2, NothingFits, SetupsEdited, SetupShape
<1> HIDE DEF b
<1>4. p \in Setups /\ p.permission = s.setup.permission
      /\ p.profileActive = s.setup.profileActive
      /\ q \in Setups /\ q.permission = s.setup.permission
      /\ q.profileActive = s.setup.profileActive
  BY <1>2, <1>3, SetupsEdited, SetupShape
<1>5. /\ DOMAIN r = Fields /\ r.stage = "ask_town" /\ r.city = s.city
      /\ r.onboarded = s.onboarded /\ r.known = s.known /\ r.setup = p
      /\ r.pending = [s.pending EXCEPT !["ambiguity"] = NoContext]
  BY <1>0 DEF StartTownCapture, Release, Hold, Fields, a, b
<1>6. /\ DOMAIN l = Fields /\ l.stage = "ask_town" /\ l.city = s.city
      /\ l.onboarded = s.onboarded /\ l.known = s.known /\ l.setup = q
      /\ l.pending = [s.pending EXCEPT !["ambiguity"] = NoContext]
  BY <1>0 DEF RequestLocationChange, Release, Hold, Fields, a
<1>7. SameDialog(s, r) /\ SameDialog(s, l)
  BY <1>0 DEF StartTownCapture, RequestLocationChange, Release, Hold, Fields, SameDialog
<1> HIDE DEF p, q, r, l
<1>8. Onward(s, r) /\ Capturable(r) /\ Onward(s, l) /\ Capturable(l)
  BY <1>1, <1>4, <1>5, <1>6, <1>7
<1> QED BY <1>5, <1>6, <1>8 DEF r, l

\* The dialogue stays, and the listener is asked for no more.
LEMMA FitsSetUp ==
  ASSUME NEW s, NEW r, DocumentFits(s), DOMAIN r = Fields, SameDialog(s, r), SetupFits(r),
         r.setup.permission => s.setup.permission,
         r.stage = "await_location_confirm" /\ r.setup.permission => r.setup.candidate # NoTown
  PROVE  DocumentFits(r)
<1>1. PartsFit(r)
  BY FitsParts, PartsSetUp
<1>2. DOMAIN s.pending = Held /\ "ambiguity" \in Held
  BY DocumentShape DEF Held
<1>3. r.pending["ambiguity"] \in {NoContext, s.pending["ambiguity"]}
  BY <1>2 DEF SameDialog
<1>4. CaptureFits(r)
  BY <1>3 DEF DocumentFits, CaptureFits, SameDialog
<1> QED BY <1>1, <1>4, PartsFits

\* A setup that has an end.
Ended(s, r) ==
  /\ DocumentFits(r) /\ r.stage = "none" /\ r.setup.candidate = NoTown
  /\ r.setup.permission = s.setup.permission /\ r.setup.profileActive = s.setup.profileActive
  /\ r.known = s.known

LEMMA CompletedFits ==
  ASSUME NEW s, DocumentFits(s), NEW town \in Towns, NEW community \in BOOLEAN
  PROVE  /\ Onward(s, CompleteWithoutLocation(s)) /\ Ended(s, CompleteWithoutLocation(s))
         /\ CompleteWithoutLocation(s).onboarded
         /\ CompleteWithoutLocation(s).setup.community = s.setup.community
         /\ Ended(s, CompleteLocation(s, town, community))
         /\ CompleteLocation(s, town, community).onboarded
         /\ CompleteLocation(s, town, community).city = town
         /\ CompleteLocation(s, town, community).setup.community
              = (s.setup.community \/ community)
<1>0. s.setup \in Setups /\ DOMAIN s = Fields /\ SetupFits(s)
  BY DocumentShape DEF DocumentFits, SetupFits
<1> DEFINE a == [s.setup EXCEPT !.attempts = 0]
           b == [a EXCEPT !.failures = 0]
           c == [b EXCEPT !.candidate = NoTown]
           p == [c EXCEPT !.choices = <<>>]
           both == s.setup.community \/ community
           q == [p EXCEPT !.community = both]
           r == CompleteWithoutLocation(s)
           l == CompleteLocation(s, town, community)
<1>1. a \in Setups /\ a.permission = s.setup.permission
      /\ a.profileActive = s.setup.profileActive /\ a.community = s.setup.community
  BY <1>0, NothingFits, SetupsEdited, SetupShape
<1> HIDE DEF a
<1>2. b \in Setups /\ b.permission = s.setup.permission
      /\ b.profileActive = s.setup.profileActive /\ b.community = s.setup.community
  BY <1>1, NothingFits, SetupsEdited, SetupShape
<1> HIDE DEF b
<1>3. c \in Setups /\ c.permission = s.setup.permission /\ c.candidate = NoTown
      /\ c.profileActive = s.setup.profileActive /\ c.community = s.setup.community
  BY <1>2, SetupsEdited, SetupShape
<1> HIDE DEF c
<1>4. p \in Setups /\ p.permission = s.setup.permission /\ p.candidate = NoTown
      /\ p.profileActive = s.setup.profileActive /\ p.community = s.setup.community
  BY <1>3, SetupsEdited, SetupShape
<1>5. /\ DOMAIN r = Fields /\ r.stage = "none" /\ r.city = s.city
      /\ r.onboarded = TRUE /\ r.known = s.known /\ r.setup = p /\ r.pending = s.pending
  BY <1>0 DEF CompleteWithoutLocation, Fields, a, b, c
<1>6. SameDialog(s, r)
  BY <1>0 DEF CompleteWithoutLocation, Fields, SameDialog
<1> HIDE DEF p
<1>7. both \in BOOLEAN
  OBVIOUS
<1> HIDE DEF both
<1>8. q \in Setups /\ q.permission = s.setup.permission /\ q.candidate = NoTown
      /\ q.profileActive = s.setup.profileActive /\ q.community = both
  BY <1>4, <1>7, SetupsEdited, SetupShape
<1>9. l = [r EXCEPT !.city = town, !.setup = q]
  BY <1>4, <1>5 DEF CompleteLocation, both, Fields
<1>10. /\ DOMAIN l = Fields /\ l.stage = "none" /\ l.city = town
       /\ l.onboarded = TRUE /\ l.known = s.known /\ l.setup = q /\ l.pending = s.pending
  BY <1>5, <1>9 DEF Fields
<1>11. SameDialog(s, l)
  BY <1>5, <1>6, <1>9 DEF Fields, SameDialog
<1> HIDE DEF q, r, l
<1>12. SetupFits(r) /\ SetupFits(l)
  BY <1>0, <1>4, <1>5, <1>8, <1>10 DEF SetupFits, Stages
<1>13. DocumentFits(r) /\ DocumentFits(l)
  BY <1>4, <1>5, <1>6, <1>8, <1>10, <1>11, <1>12, FitsSetUp
<1>14. Onward(s, r)
  BY <1>5, <1>13 DEF Onward
<1>15. Ended(s, r) /\ Ended(s, l)
  BY <1>4, <1>5, <1>8, <1>10, <1>13 DEF Ended
<1> QED BY <1>4, <1>5, <1>8, <1>10, <1>14, <1>15 DEF r, l, both

LEMMA ProfileEnded ==
  ASSUME NEW s, DocumentFits(s)
  PROVE  /\ Onward(s, EndProfile(s)) /\ EndProfile(s).setup.community = s.setup.community
         /\ EndProfile(s).onboarded = s.onboarded /\ EndProfile(s).known = s.known
         /\ EndProfile(s).stage = s.stage
<1>0. s.setup \in Setups /\ DOMAIN s = Fields /\ SetupFits(s)
  BY DocumentShape DEF DocumentFits, SetupFits
<1> DEFINE a == [s.setup EXCEPT !.permission = FALSE]
           b == [a EXCEPT !.profileTown = FALSE]
           p == [b EXCEPT !.profileActive = FALSE]
           r == EndProfile(s)
<1>1. a \in Setups /\ ~a.permission /\ a.community = s.setup.community
  <2>1. a \in Setups
    BY <1>0, SetupsEdited
  <2> QED BY <1>0, <2>1, SetupShape
<1> HIDE DEF a
<1>2. b \in Setups /\ ~b.permission /\ b.community = s.setup.community
  BY <1>1, SetupsEdited, SetupShape
<1> HIDE DEF b
<1>3. p \in Setups /\ ~p.permission /\ p.community = s.setup.community
  BY <1>2, SetupsEdited, SetupShape
<1>4. /\ DOMAIN r = Fields /\ r.stage = s.stage /\ r.city = s.city
      /\ r.onboarded = s.onboarded /\ r.known = s.known /\ r.setup = p
  BY <1>0 DEF EndProfile, Fields, a, b
<1>5. SameDialog(s, r)
  BY <1>0 DEF EndProfile, Fields, SameDialog
<1> HIDE DEF p, r
<1>6. SetupFits(r)
  BY <1>0, <1>3, <1>4 DEF SetupFits
<1>7. DocumentFits(r)
  BY <1>3, <1>4, <1>5, <1>6, FitsSetUp
<1>8. Onward(s, r)
  BY <1>4, <1>7 DEF Onward
<1> QED BY <1>3, <1>4, <1>8 DEF r

\* The town that is to be confirmed.
LEMMA TownAwaited ==
  ASSUME NEW s, DocumentFits(s), Capturable(s), NEW town \in Towns
  PROVE  /\ Onward(s, AwaitConfirmation(s, town)) /\ Capturable(AwaitConfirmation(s, town))
         /\ AwaitConfirmation(s, town).stage = "await_location_confirm"
         /\ AwaitConfirmation(s, town).setup.candidate = town
<1>0. s.setup \in Setups /\ DOMAIN s = Fields /\ SetupFits(s) /\ town # NoTown
  BY DocumentShape, FindingAssumption DEF DocumentFits, SetupFits
<1> DEFINE a == [s.setup EXCEPT !.candidate = town]
           p == [a EXCEPT !.choices = <<>>]
           r == AwaitConfirmation(s, town)
<1>1. a \in Setups /\ a.permission = s.setup.permission /\ a.candidate = town
      /\ a.profileActive = s.setup.profileActive
  BY <1>0, SetupsEdited, SetupShape
<1> HIDE DEF a
<1>2. p \in Setups /\ p.permission = s.setup.permission /\ p.candidate = town
      /\ p.profileActive = s.setup.profileActive
  BY <1>1, SetupsEdited, SetupShape
<1>3. /\ DOMAIN r = Fields /\ r.stage = "await_location_confirm" /\ r.city = s.city
      /\ r.onboarded = s.onboarded /\ r.known = s.known /\ r.setup = p
      /\ r.pending = s.pending
  BY <1>0 DEF AwaitConfirmation, Fields, a
<1>4. SameDialog(s, r)
  BY <1>0 DEF AwaitConfirmation, Fields, SameDialog
<1> HIDE DEF p, r
<1>5. SetupFits(r)
  BY <1>0, <1>2, <1>3 DEF SetupFits, Stages
<1>6. DocumentFits(r)
  BY <1>0, <1>2, <1>3, <1>4, <1>5, FitsSetUp
<1>7. Onward(s, r) /\ Capturable(r)
  BY <1>2, <1>3, <1>6 DEF Onward, Capturable
<1> QED BY <1>2, <1>3, <1>7 DEF r

LEMMA ConfirmationCleared ==
  ASSUME NEW s, DocumentFits(s)
  PROVE  /\ DocumentFits(ClearConfirmation(s)) /\ ClearConfirmation(s).city = s.city
         /\ ClearConfirmation(s).onboarded = s.onboarded
         /\ ClearConfirmation(s).known = s.known
<1>0. s.setup \in Setups /\ DOMAIN s = Fields /\ SetupFits(s)
  BY DocumentShape DEF DocumentFits, SetupFits
<1> DEFINE p == [s.setup EXCEPT !.candidate = NoTown]
           r == ClearConfirmation(s)
<1>1. p \in Setups /\ p.permission = s.setup.permission
      /\ p.profileActive = s.setup.profileActive
  <2>1. p \in Setups
    BY <1>0, SetupsEdited
  <2> QED BY <1>0, <2>1, SetupShape
<1>2. /\ DOMAIN r = Fields /\ r.stage = "none" /\ r.city = s.city
      /\ r.onboarded = s.onboarded /\ r.known = s.known /\ r.setup = p
  BY <1>0 DEF ClearConfirmation, Fields
<1>3. SameDialog(s, r)
  BY <1>0 DEF ClearConfirmation, Fields, SameDialog
<1> HIDE DEF p, r
<1>4. SetupFits(r)
  BY <1>0, <1>1, <1>2 DEF SetupFits, Stages
<1>5. DocumentFits(r)
  BY <1>1, <1>2, <1>3, <1>4, FitsSetUp
<1> QED BY <1>2, <1>5 DEF r

\* A town is asked for no more.
LEMMA TownEnded ==
  ASSUME NEW s, PartsFit(s)
  PROVE  /\ Aside(s, EndTown(s)) /\ EndTown(s).active.type # "onboarding"
         /\ EndTown(s).playing = s.playing
<1> DEFINE r == EndTown(s)
           k == IF s.active.type # "none" THEN s.active.type ELSE ActiveDialog(s).type
<1>0. DOMAIN s = Fields /\ DialogFits(s) /\ PlayingFits(s) /\ DOMAIN s.pending = Held
  BY DEF PartsFit, DialogFits
<1>1. r = ClearOf(s, k, {"onboarding"})
  BY DEF EndTown, Clear
<1>2. CASE k = "onboarding"
  <2>0. r = [s EXCEPT !.active = NoDialog, !.flags = @ \ {k}]
    BY <1>1, <1>2 DEF ClearOf
  <2> HIDE DEF k
  <2>1. /\ DOMAIN r = Fields /\ r.active = NoDialog /\ r.flags \subseteq s.flags
        /\ r.pending = s.pending /\ r.topic = s.topic /\ SameSetup(s, r)
        /\ r.playing = s.playing /\ r.answered = s.answered /\ r.latest = s.latest
    BY <1>0, <2>0 DEF Fields, SameSetup
  <2> HIDE DEF r
  <2>2. r.active.type = "none"
    BY <2>1 DEF NoDialog
  <2>3. Drops(s, r) /\ PlayingFits(r)
    BY <1>0, <2>1 DEF Drops, PlayingFits
  <2>4. PartsFit(r)
    BY <2>1, <2>3, PartsDropped
  <2>5. Aside(s, r)
    BY <2>1, <2>2, <2>4, PartsFits DEF CaptureFits, Aside
  <2> QED BY <2>1, <2>2, <2>5 DEF r
<1>3. CASE k # "onboarding"
  <2>1. r = s /\ s.active.type # "onboarding"
    BY <1>1, <1>3 DEF ClearOf
  <2> HIDE DEF r
  <2>2. Aside(s, r)
    BY <2>1, PartsFits, AsideSelf DEF CaptureFits
  <2> QED BY <2>1, <2>2 DEF r
<1> QED BY <1>2, <1>3

\* A town is asked for.
LEMMA TownAsked ==
  ASSUME NEW s, PartsFit(s), Capturable(s),
         s.stage = "await_location_confirm" /\ s.setup.permission => s.setup.candidate # NoTown
  PROVE  Aside(s, AskTown(s))
<1> DEFINE k == "onboarding"
           r == AskTown(s)
<1>0. DOMAIN s = Fields /\ PlayingFits(s) /\ s.topic \in Searches \union {NoSearch}
  BY DEF PartsFit, DialogFits
<1>1. /\ DOMAIN r = Fields /\ r.active = Fresh(k, NoContext) /\ r.flags = {k} \intersect Flagged
      /\ r.pending = s.pending /\ r.topic = s.topic /\ SameSetup(s, r)
      /\ r.playing = s.playing /\ r.answered = s.answered /\ r.latest = s.latest
  BY <1>0 DEF AskTown, Activate, Fields, SameSetup
<1> HIDE DEF r
<1>2. k \in DialogTypes /\ k \notin Held
  BY DEF DialogTypes, Held
<1>3. CaptureFits(r) /\ PlayingFits(r)
  BY <1>0, <1>1 DEF CaptureFits, Capturable, SameSetup, PlayingFits
<1>4. k # "availability" /\ k # "feedback"
  OBVIOUS
<1> HIDE DEF k
<1>5. Aside(s, r)
  BY <1>0, <1>1, <1>2, <1>3, <1>4, FitsOpened
<1> QED BY <1>5 DEF r

\* Another setup, with the same candidate and no more of a permission.
LEMMA SetupNoted ==
  ASSUME NEW s, NEW q \in Setups, DocumentFits(s), q.candidate = s.setup.candidate,
         q.permission => s.setup.permission /\ ~q.profileActive
  PROVE  LET r == [s EXCEPT !.setup = q]
         IN  /\ Onward(s, r) /\ SameDialog(s, r) /\ r.setup = q /\ r.stage = s.stage
             /\ r.pending = s.pending
<1> DEFINE r == [s EXCEPT !.setup = q]
<1>0. DOMAIN s = Fields /\ SetupFits(s) /\ PartsFit(s) /\ CaptureFits(s)
  BY DocumentShape, FitsParts DEF DocumentFits
<1>1. /\ DOMAIN r = Fields /\ r.stage = s.stage /\ r.city = s.city /\ r.pending = s.pending
      /\ r.onboarded = s.onboarded /\ r.known = s.known /\ r.setup = q
  BY <1>0 DEF Fields
<1>2. SameDialog(s, r)
  BY <1>0 DEF Fields, SameDialog
<1> HIDE DEF r
<1>3. SetupFits(r)
  BY <1>0, <1>1 DEF SetupFits
<1>4. PartsFit(r)
  BY <1>0, <1>1, <1>2, <1>3, PartsSetUp
<1>5. CaptureFits(r)
  BY <1>0, <1>1, <1>2 DEF CaptureFits, SameDialog
<1>6. Onward(s, r)
  BY <1>1, <1>4, <1>5, PartsFits DEF Onward
<1> QED BY <1>1, <1>2, <1>6 DEF r

\* ... of which these are the ones that handlers make.
LEMMA SetupMarked ==
  ASSUME NEW s, DocumentFits(s), NEW b \in BOOLEAN
  PROVE  /\ Onward(s, [s EXCEPT !.setup.consent = b])
         /\ Onward(s, [s EXCEPT !.setup.community = b])
         /\ [s EXCEPT !.setup.community = b].setup.permission = s.setup.permission
         /\ Onward(s, [s EXCEPT !.setup.permission = FALSE])
<1> DEFINE p == [s.setup EXCEPT !.consent = b]
           q == [s.setup EXCEPT !.community = b]
           r == [s.setup EXCEPT !.permission = FALSE]
<1>0. s.setup \in Setups /\ DOMAIN s = Fields /\ SetupFits(s)
  BY DocumentShape DEF DocumentFits, SetupFits
<1>1. p \in Setups /\ q \in Setups
  BY <1>0, SetupsEdited
<1>2. r \in Setups
  BY <1>0, SetupsEdited
<1>3. \A x \in {p, q} : x.candidate = s.setup.candidate /\ x.permission = s.setup.permission
                        /\ x.profileActive = s.setup.profileActive
  BY <1>0, SetupShape
<1>4. r.candidate = s.setup.candidate /\ ~r.permission
  BY <1>0, SetupShape
<1> HIDE DEF p, q, r
<1>5. Onward(s, [s EXCEPT !.setup = p]) /\ Onward(s, [s EXCEPT !.setup = q])
      /\ [s EXCEPT !.setup = q].setup = q
  BY <1>0, <1>1, <1>3, SetupNoted DEF SetupFits
<1>6. Onward(s, [s EXCEPT !.setup = r])
  BY <1>2, <1>4, SetupNoted
<1> QED BY <1>3, <1>5, <1>6 DEF p, q, r

LEMMA SetupCounted ==
  ASSUME NEW s, DocumentFits(s)
  PROVE  /\ \A n \in 0..(MaxTownAttempts - 1) : Onward(s, [s EXCEPT !.setup.attempts = n])
         /\ \A n \in 0..(MaxTownFailures - 1) :
              /\ Onward(s, [s EXCEPT !.setup.failures = n])
              /\ Capturable(s) => Capturable([s EXCEPT !.setup.failures = n])
         /\ \A c \in {<<>>} \union TownChoices :
              /\ Onward(s, [s EXCEPT !.setup.choices = c])
              /\ Capturable(s) => Capturable([s EXCEPT !.setup.choices = c])
<1>0. s.setup \in Setups /\ DOMAIN s = Fields /\ SetupFits(s)
  BY DocumentShape DEF DocumentFits, SetupFits
<1>1. ASSUME NEW q \in Setups, q.candidate = s.setup.candidate,
             q.permission = s.setup.permission, q.profileActive = s.setup.profileActive
      PROVE  Onward(s, [s EXCEPT !.setup = q])
             /\ (Capturable(s) => Capturable([s EXCEPT !.setup = q]))
  <2>1. q.permission => s.setup.permission /\ ~q.profileActive
    BY <1>0, <1>1 DEF SetupFits
  <2>2. Onward(s, [s EXCEPT !.setup = q]) /\ [s EXCEPT !.setup = q].setup = q
        /\ [s EXCEPT !.setup = q].pending = s.pending
    BY <1>1, <2>1, SetupNoted
  <2> QED BY <1>1, <2>2 DEF Capturable
<1>2. ASSUME NEW n \in 0..(MaxTownAttempts - 1)
      PROVE  Onward(s, [s EXCEPT !.setup.attempts = n])
  <2> DEFINE q == [s.setup EXCEPT !.attempts = n]
  <2>1. q \in Setups
    BY <1>0, SetupsEdited
  <2>2. q.candidate = s.setup.candidate /\ q.permission = s.setup.permission
        /\ q.profileActive = s.setup.profileActive
    BY <1>0, SetupShape
  <2> HIDE DEF q
  <2>3. Onward(s, [s EXCEPT !.setup = q])
    BY <1>1, <2>1, <2>2
  <2> QED BY <2>3 DEF q
<1>3. ASSUME NEW n \in 0..(MaxTownFailures - 1)
      PROVE  /\ Onward(s, [s EXCEPT !.setup.failures = n])
             /\ Capturable(s) => Capturable([s EXCEPT !.setup.failures = n])
  <2> DEFINE q == [s.setup EXCEPT !.failures = n]
  <2>1. q \in Setups
    BY <1>0, SetupsEdited
  <2>2. q.candidate = s.setup.candidate /\ q.permission = s.setup.permission
        /\ q.profileActive = s.setup.profileActive
    BY <1>0, SetupShape
  <2> HIDE DEF q
  <2>3. Onward(s, [s EXCEPT !.setup = q])
        /\ (Capturable(s) => Capturable([s EXCEPT !.setup = q]))
    BY <1>1, <2>1, <2>2
  <2> QED BY <2>3 DEF q
<1>4. ASSUME NEW c \in {<<>>} \union TownChoices
      PROVE  /\ Onward(s, [s EXCEPT !.setup.choices = c])
             /\ Capturable(s) => Capturable([s EXCEPT !.setup.choices = c])
  <2> DEFINE q == [s.setup EXCEPT !.choices = c]
  <2>1. q \in Setups
    BY <1>0, SetupsEdited
  <2>2. q.candidate = s.setup.candidate /\ q.permission = s.setup.permission
        /\ q.profileActive = s.setup.profileActive
    BY <1>0, SetupShape
  <2> HIDE DEF q
  <2>3. Onward(s, [s EXCEPT !.setup = q])
        /\ (Capturable(s) => Capturable([s EXCEPT !.setup = q]))
    BY <1>1, <2>1, <2>2
  <2> QED BY <2>3 DEF q
<1> QED BY <1>2, <1>3, <1>4

LEMMA SetupForgotten ==
  ASSUME NEW s, DocumentFits(s), s.onboarded
  PROVE  Onward(s, ForgetSetup(s)) /\ Onward(s, RepairSetup(s))
<1> DEFINE q == ForgetSetup(s)
           a == [q EXCEPT !.active = NoDialog]
           b == [a EXCEPT !.setup.choices = s.setup.choices]
<1>0. s.setup \in Setups /\ DOMAIN s = Fields /\ SetupFits(s) /\ DOMAIN s.pending = Held
  BY DocumentShape DEF DocumentFits, SetupFits
<1>1. /\ DOMAIN q = Fields /\ q.stage = "none" /\ q.city = s.city
      /\ q.onboarded = s.onboarded /\ q.known = s.known /\ q.setup = NothingSetUp
  BY <1>0 DEF ForgetSetup, Fields
<1>2. SameDialog(s, q)
  BY <1>0 DEF ForgetSetup, Fields, SameDialog
<1> HIDE DEF q
<1>3. SetupFits(q)
  BY <1>0, <1>1, NothingFits DEF SetupFits, Stages
<1>4. DocumentFits(q)
  BY <1>1, <1>2, <1>3, NothingFits, FitsSetUp
<1>5. Onward(s, q)
  BY <1>1, <1>4 DEF Onward
<1>6. Aside(q, a)
  <2>1. /\ DOMAIN a = Fields /\ a.active = NoDialog /\ a.flags = q.flags
        /\ a.pending = q.pending /\ a.topic = q.topic /\ SameSetup(q, a)
        /\ a.playing = q.playing /\ a.answered = q.answered /\ a.latest = q.latest
    BY <1>1 DEF Fields, SameSetup
  <2> HIDE DEF a
  <2>2. Drops(q, a) /\ PlayingFits(a)
    BY <1>4, <2>1, DocumentShape DEF Drops, PlayingFits
  <2> QED BY <1>4, <2>1, <2>2, FitsDropped
<1>7. RepairSetup(s) \in {s, b}
  <2>1. [q EXCEPT !.active = NoDialog, !.setup.choices = s.setup.choices] = b
    BY <1>1 DEF Fields
  <2> QED BY <2>1 DEF RepairSetup, q
<1> HIDE DEF a
<1>8. Onward(s, a) /\ DocumentFits(a)
  BY <1>5, <1>6, AsideOnward, OnwardTrans, AsideFits
<1>9. s.setup.choices \in {<<>>} \union TownChoices
  BY <1>0, SetupShape
<1>10. Onward(a, b)
  BY <1>8, <1>9, SetupCounted
<1> HIDE DEF b
<1> QED BY <1>5, <1>7, <1>8, <1>10, OnwardTrans, OnwardSelf DEF q

LEMMA NotificationEnded ==
  ASSUME NEW s, DocumentFits(s) PROVE Onward(s, ClearNotification(s))
<1> DEFINE k == "notification"
           quiet == IF /\ s.active.type = k /\ s.onboarded
                       /\ SetupOpen(s) \/ s.setup.choices # <<>>
                    THEN ForgetSetup(s) ELSE s
<1>1. Onward(s, quiet) /\ DocumentFits(quiet)
  BY SetupForgotten, OnwardSelf, OnwardFits
<1>2. ClearNotification(s) = Clear(Lower(Release(quiet, k), k), {k})
  BY DEF ClearNotification
<1> HIDE DEF quiet
<1>3. Aside(quiet, Clear(Lower(Release(quiet, k), k), {k}))
  BY <1>1, AsideClosed
<1> QED BY <1>1, <1>2, <1>3, AsideOnward, OnwardTrans

\* The town that is to be confirmed is forgotten.
LEMMA TownForgotten ==
  ASSUME NEW s, DocumentFits(s)
  PROVE  /\ PartsFit(ForgetTown(s)) /\ Since(s, s.city, s)
         /\ ForgetTown(s).stage = s.stage /\ ForgetTown(s).city = s.city
         /\ ForgetTown(s).onboarded = s.onboarded /\ ForgetTown(s).known = s.known
         /\ SameDialog(s, ForgetTown(s)) /\ ForgetTown(s).pending = s.pending
         /\ ~(s.active.type = "onboarding" /\ s.setup.permission) => Onward(s, ForgetTown(s))
<1> DEFINE p == [s.setup EXCEPT !.candidate = NoTown]
           r == ForgetTown(s)
<1>0. s.setup \in Setups /\ DOMAIN s = Fields /\ SetupFits(s) /\ PartsFit(s)
  BY DocumentShape, FitsParts DEF DocumentFits, SetupFits
<1>1. p \in Setups
  BY <1>0, SetupsEdited
<1>2. p.permission = s.setup.permission /\ p.profileActive = s.setup.profileActive
  BY <1>0, SetupShape
<1>3. /\ DOMAIN r = Fields /\ r.stage = s.stage /\ r.city = s.city
      /\ r.onboarded = s.onboarded /\ r.known = s.known /\ r.setup = p /\ r.pending = s.pending
  BY <1>0 DEF ForgetTown, Fields
<1>4. SameDialog(s, r)
  BY <1>0 DEF ForgetTown, Fields, SameDialog
<1> HIDE DEF p, r
<1>5. SetupFits(r)
  BY <1>0, <1>1, <1>2, <1>3 DEF SetupFits
<1>6. PartsFit(r)
  BY <1>0, <1>3, <1>4, <1>5, PartsSetUp
<1>7. ~(s.active.type = "onboarding" /\ s.setup.permission) => Onward(s, r)
  BY <1>2, <1>3, <1>4, <1>6, PartsFits DEF CaptureFits, SameDialog, Onward
<1>8. Since(s, s.city, s)
  BY DEF Since
<1> QED BY <1>3, <1>4, <1>6, <1>7, <1>8 DEF r

-----------------------------------------------------------------------------
(* The document as it is loaded, and as it reaches a handler. *)

\* r asks what s asks, and no more, of the same recording.
Near(s, r) ==
  /\ Aside(s, r) /\ r.playing = s.playing /\ r.answered = s.answered
  /\ r.active \in {NoDialog, s.active} /\ r.flags \subseteq s.flags

LEMMA NearTrans == ASSUME NEW s, NEW r, NEW q, Near(s, r), Near(r, q) PROVE Near(s, q)
BY AsideTrans DEF Near

LEMMA NearSelf == ASSUME NEW s, DocumentFits(s) PROVE Near(s, s)
BY AsideSelf DEF Near

LEMMA NearFits == ASSUME NEW s, NEW r, Near(s, r) PROVE DocumentFits(r)
BY AsideFits DEF Near

LEMMA NearOps ==
  ASSUME NEW s, DocumentFits(s), NEW k, NEW types
  PROVE  /\ Near(s, Lower(s, k)) /\ Near(s, Clear(s, types))
         /\ k # "feedback" => Near(s, Release(s, k))
<1>1. /\ Lower(s, k).playing = s.playing /\ Lower(s, k).answered = s.answered
      /\ Lower(s, k).active = s.active /\ Lower(s, k).flags \subseteq s.flags
  BY DocumentShape DEF Lower, Fields
<1>2. /\ Release(s, k).playing = s.playing /\ Release(s, k).answered = s.answered
      /\ Release(s, k).active = s.active /\ Release(s, k).flags = s.flags
  BY DocumentShape DEF Release, Hold, Fields
<1>3. ASSUME NEW m
      PROVE  /\ ClearOf(s, m, types).playing = s.playing
             /\ ClearOf(s, m, types).answered = s.answered
             /\ ClearOf(s, m, types).active \in {NoDialog, s.active}
             /\ ClearOf(s, m, types).flags \subseteq s.flags
  BY DocumentShape DEF ClearOf, Fields
<1>4. /\ Clear(s, types).playing = s.playing /\ Clear(s, types).answered = s.answered
      /\ Clear(s, types).active \in {NoDialog, s.active} /\ Clear(s, types).flags \subseteq s.flags
  BY <1>3 DEF Clear
<1> QED BY <1>1, <1>2, <1>4, AsideLower, AsideClear, AsideRelease DEF Near

LEMMA ChoicesEnded ==
  ASSUME NEW s, DocumentFits(s)
  PROVE  Near(s, EndChoices(s)) /\ Near(s, CloseLatest(s)) /\ Near(s, DropSearch(s))
<1>1. Near(s, EndChoices(s))
  BY NearOps DEF EndChoices
<1>2. Near(s, CloseLatest(s))
  <2> DEFINE a == Release(s, "latest_source")
  <2>1. Near(s, a) /\ DocumentFits(a)
    BY NearOps, NearFits
  <2> HIDE DEF a
  <2>2. Near(a, Clear(a, {"latest_source"}))
    BY <2>1, NearOps
  <2> QED BY <2>1, <2>2, NearTrans DEF CloseLatest, a
<1>3. Near(s, DropSearch(s))
  <2> DEFINE a == Release(s, "search_confirmation")
  <2>1. Near(s, a) /\ DocumentFits(a)
    BY NearOps, NearFits
  <2> HIDE DEF a
  <2>2. Near(a, Lower(a, "search_confirmation"))
    BY <2>1, NearOps
  <2> QED BY <2>1, <2>2, NearTrans DEF DropSearch, a
<1> QED BY <1>1, <1>2, <1>3

LEMMA PassedFits ==
  ASSUME NEW s, DocumentFits(s), NEW intent PROVE Near(s, Passed(s, intent))
<1>1. ASSUME NEW r, DocumentFits(r) PROVE Near(r, DropStaleMeanings(r))
  <2> DEFINE a == Release(r, "ambiguity")
  <2>1. Near(r, a) /\ DocumentFits(a)
    BY <1>1, NearOps, NearFits
  <2> HIDE DEF a
  <2>2. Near(a, Clear(a, {"ambiguity"}))
    BY <2>1, NearOps
  <2>3. DropStaleMeanings(r) \in {r, Clear(a, {"ambiguity"})}
    BY DEF DropStaleMeanings, a
  <2> QED BY <1>1, <2>1, <2>2, <2>3, NearTrans, NearSelf
<1> DEFINE q == Intercepted(s, intent)
<1>2. Near(s, q) /\ DocumentFits(q)
  <2>1. Near(s, EndChoices(s)) /\ DocumentFits(EndChoices(s))
    BY ChoicesEnded, NearFits
  <2>2. Near(s, DropStaleMeanings(EndChoices(s)))
    BY <1>1, <2>1, NearTrans
  <2>3. Near(s, DropStaleMeanings(s)) /\ Near(s, s)
    BY <1>1, NearSelf
  <2> QED BY <2>2, <2>3, NearFits DEF Intercepted
<1> HIDE DEF q
<1>3. Near(q, Settle(q, intent))
  <2> DEFINE b == intent \in {"Follow", "Unfollow", "Followed", "No"}
             a == [q EXCEPT !.follow = b]
  <2>1. Near(q, a)
    <3>1. /\ DOMAIN a = Fields /\ a.active = q.active /\ a.flags = q.flags
          /\ a.pending = q.pending /\ a.topic = q.topic /\ SameSetup(q, a)
          /\ a.playing = q.playing /\ a.answered = q.answered /\ a.latest = q.latest
      BY <1>2, DocumentShape DEF Fields, SameSetup
    <3> HIDE DEF a
    <3>2. Aside(q, a)
      BY <1>2, <3>1, DocumentShape, FitsBeside DEF PlayingFits
    <3> QED BY <3>1, <3>2 DEF Near
  <2>2. Near(q, Lower(q, "report_decision")) /\ Near(q, q)
    BY <1>2, NearOps, NearSelf
  <2>3. Settle(q, intent) \in {q, a, Lower(q, "report_decision")}
    BY DEF Settle
  <2> HIDE DEF a
  <2> QED BY <2>1, <2>2, <2>3
<1> QED BY <1>2, <1>3, NearTrans DEF Passed, q

\* The document agrees with a dialogue that it has or that its older fields ask.
LEMMA AgreeingFits ==
  ASSUME NEW s, NEW d, NEW c, DocumentFits(s), DOMAIN d = {"type", "context", "left"},
         d.type \in DialogTypes,
         d.type \in Held /\ c # NoContext => ContextFits(d.type, c),
         d.type = "availability" /\ PagesListed => ListFits(c),
         d.type = "feedback" => RatesActive(s, c),
         d.type = "onboarding" => /\ Capturable(s)
                                  /\ s.stage = "await_location_confirm" /\ s.setup.permission
                                       => s.setup.candidate # NoTown
  PROVE  /\ Aside(s, Agreeing(s, d, c)) /\ Agreeing(s, d, c).playing = s.playing
         /\ Agreeing(s, d, c).answered = s.answered /\ Agreeing(s, d, c).active.type = d.type
         /\ Agreeing(s, d, c).flags = {d.type} \intersect Flagged
<1> DEFINE r == Agreeing(s, d, c)
<1>1. /\ DOMAIN r = Fields /\ r.active = [d EXCEPT !.context = c]
      /\ r.flags = {d.type} \intersect Flagged
      /\ r.pending = IF d.type \in Copied THEN [s.pending EXCEPT ![d.type] = c] ELSE s.pending
      /\ r.topic \in {NoSearch, s.topic} /\ SameSetup(s, r)
      /\ r.playing = s.playing /\ r.answered = s.answered /\ r.latest = s.latest
  BY DocumentShape DEF Agreeing, Fields, SameSetup
<1> HIDE DEF r
<1>2. DOMAIN r.active = {"type", "context", "left"} /\ r.active.type = d.type
      /\ r.active.context = c
  BY <1>1
<1>3. DOMAIN r.pending = Held
      /\ \A k \in Held : r.pending[k] = s.pending[k] \/ (k = d.type /\ r.pending[k] = c)
  BY <1>1, DocumentShape
<1>4. DialogFits(r)
  <2>1. \A k \in Held : r.pending[k] # NoContext => ContextFits(k, r.pending[k])
    BY <1>3 DEF DocumentFits, DialogFits
  <2> QED BY <1>1, <1>2, <1>3, <2>1 DEF DocumentFits, DialogFits
<1>5. SetupFits(r) /\ PlayingFits(r)
  BY <1>1 DEF DocumentFits, SetupFits, PlayingFits, SameSetup
<1>6. RatingFits(r)
  <2>1. CASE d.type = "feedback"
    <3>1. r.pending["feedback"] = c
      BY <1>1, <2>1, DocumentShape DEF Copied, Held
    <3>2. RatesActive(r, c)
      BY <1>1, <2>1 DEF RatesActive
    <3> QED BY <1>2, <3>1, <3>2 DEF RatingFits, RatesActive
  <2>2. CASE d.type # "feedback"
    <3>1. r.pending["feedback"] = s.pending["feedback"]
      BY <1>3, <2>2 DEF Held
    <3>2. ~RatingAsked(r) /\ r.active.type # "feedback"
      BY <1>1, <1>2, <2>2 DEF RatingAsked
    <3> QED BY <1>1, <3>1, <3>2 DEF DocumentFits, RatingFits
  <2> QED BY <2>1, <2>2
<1>7. CaptureFits(r)
  <2> SUFFICES ASSUME d.type = "onboarding" PROVE CaptureFits(r)
    BY <1>2 DEF CaptureFits
  <2>1. r.pending["ambiguity"] = s.pending["ambiguity"]
    BY <1>3 DEF Held
  <2> QED BY <1>1, <2>1 DEF CaptureFits, Capturable, SameSetup
<1>8. Aside(s, r)
  BY <1>1, <1>4, <1>5, <1>6, <1>7 DEF Aside, DocumentFits
<1> QED BY <1>1, <1>2, <1>8 DEF r

LEMMA LegacyIsAsked ==
  ASSUME NEW s, LegacyDialog(s) # NoDialog
  PROVE  \E k \in DialogTypes \ {"none", "availability"} :
           LegacyAsks(s, k) /\ LegacyDialog(s) = Fresh(k, LegacyContext(s, k))
<1> DEFINE asking == {i \in DOMAIN LegacyOrder : LegacyAsks(s, LegacyOrder[i])}
<1>1. LegacyDialog(s) = FirstLegacy(s, asking)
  BY DEF LegacyDialog
<1>2. asking # {}
  BY <1>1 DEF FirstLegacy
<1>3. asking \in SUBSET DOMAIN LegacyOrder /\ \A i \in asking : LegacyAsks(s, LegacyOrder[i])
  OBVIOUS
<1> HIDE DEF asking
<1>4. PICK i \in asking :
        FirstLegacy(s, asking) = Fresh(LegacyOrder[i], LegacyContext(s, LegacyOrder[i]))
  BY <1>2, <1>3, FirstIsAsked
<1>5. LegacyOrder[i] \in DialogTypes \ {"none", "availability"}
  <2>1. \A j \in DOMAIN LegacyOrder : LegacyOrder[j] # "availability"
    BY DEF LegacyOrder
  <2> QED BY <1>3, <2>1, LegacyTypes
<1> QED BY <1>1, <1>3, <1>4, <1>5

\* Loading leaves the setup alone, and what is asked is about what plays.
LEMMA MigratedFits ==
  ASSUME NEW s, DocumentFits(s)
  PROVE  /\ Aside(s, Migrate(s)) /\ Migrate(s).playing = s.playing
         /\ Migrate(s).answered = s.answered
         /\ Migrate(s).active.type = "onboarding" => s.stage # "none"
         /\ Migrate(s).flags = {Migrate(s).active.type} \intersect Flagged
<1> DEFINE f == DropExpired(s)
           d == ActiveDialog(f)
           c == Context(f, d)
           Loaded(r) == /\ Aside(f, r) /\ r.playing = f.playing /\ r.answered = f.answered
                        /\ r.active.type = "onboarding" => f.stage # "none"
                        /\ r.flags = {r.active.type} \intersect Flagged
<1>1. Aside(s, f) /\ f.playing = s.playing /\ f.answered = s.answered
  <2>1. /\ DOMAIN f = Fields /\ f.active \in {NoDialog, s.active} /\ f.flags \subseteq s.flags
        /\ f.pending = s.pending /\ f.topic = s.topic /\ SameSetup(s, f)
        /\ f.playing = s.playing /\ f.answered = s.answered /\ f.latest = s.latest
    BY DocumentShape DEF DropExpired, Fields, SameSetup
  <2> HIDE DEF f
  <2>2. Drops(s, f) /\ PlayingFits(f)
    BY <2>1, DocumentShape DEF Drops, PlayingFits
  <2> QED BY <2>1, <2>2, FitsDropped
<1>2. Migrate(s) = MigrateTo(f, d)
  BY DEF Migrate
<1> HIDE DEF f
<1>3. DocumentFits(f) /\ DialogFits(f) /\ RatingFits(f)
  BY <1>1, AsideFits DEF DocumentFits
<1>4. CASE d.type = "none"
  <2> DEFINE r == Forgotten(f)
  <2>1. /\ DOMAIN r = Fields /\ r.active = NoDialog /\ r.flags = {}
        /\ r.pending = [k \in Held |-> NoContext] /\ r.topic = NoSearch /\ SameSetup(f, r)
        /\ r.playing = f.playing /\ r.answered = f.answered /\ r.latest = f.latest
    BY <1>3, DocumentShape DEF Forgotten, Fields, SameSetup
  <2>2. Migrate(s) = r
    BY <1>2, <1>4 DEF MigrateTo
  <2> HIDE DEF r
  <2>3. Drops(f, r) /\ PlayingFits(r) /\ r.pending["feedback"] = NoContext
    BY <1>3, <2>1, DocumentShape DEF Drops, PlayingFits, Held
  <2>4. r.active.type = "none"
    BY <2>1 DEF NoDialog
  <2>5. Aside(f, r)
    BY <1>3, <2>1, <2>3, <2>4, FitsDropped
  <2>6. "none" \notin Flagged
    BY DEF Flagged
  <2>7. Loaded(r)
    BY <2>1, <2>4, <2>5, <2>6
  <2> HIDE DEF d
  <2> QED BY <1>1, <2>2, <2>7, AsideTrans DEF Aside, SameSetup
<1>5. CASE d.type # "none"
  <2>1. Migrate(s) = Agreeing(f, d, c)
    BY <1>2, <1>5 DEF MigrateTo
  <2>2. /\ DOMAIN d = {"type", "context", "left"} /\ d.type \in DialogTypes
        /\ d.type \in Held /\ c # NoContext => ContextFits(d.type, c)
        /\ d.type = "availability" /\ PagesListed => ListFits(c)
        /\ d.type = "feedback" => RatesActive(f, c)
        /\ d.type = "onboarding" =>
             /\ Capturable(f) /\ f.stage # "none"
             /\ f.stage = "await_location_confirm" /\ f.setup.permission
                  => f.setup.candidate # NoTown
    <3>1. CASE d = f.active /\ ~(f.active.type = "onboarding" /\ f.stage = "none")
      <4>1. d.type = "feedback" => RatesActive(f, d.context) /\ d.context # NoContext
        BY <1>3, <3>1, ConversationAssumption DEF RatingFits, RatesActive
      <4>2. c = d.context \/ (c = f.pending[d.type] /\ d.type \in Copied /\ d.context = NoContext)
        BY DEF Context
      <4>3. DOMAIN d = {"type", "context", "left"} /\ d.type \in DialogTypes
        BY <1>3, <1>5, <3>1 DEF DialogFits
      <4>4. d.type \in Held /\ c # NoContext => ContextFits(d.type, c)
        BY <1>3, <3>1, <4>2 DEF DialogFits
      <4>5. d.type = "availability" /\ PagesListed => ListFits(c)
        BY <1>3, <3>1, <4>2 DEF DialogFits, Copied, Held
      <4>6. d.type = "feedback" => RatesActive(f, c)
        BY <4>1, <4>2
      <4>7. d.type = "onboarding" =>
              /\ Capturable(f) /\ f.stage # "none"
              /\ f.stage = "await_location_confirm" /\ f.setup.permission
                   => f.setup.candidate # NoTown
        BY <1>3, <3>1 DEF DocumentFits, CaptureFits, Capturable
      <4> QED BY <4>3, <4>4, <4>5, <4>6, <4>7
    <3>2. CASE d = LegacyDialog(f)
      <4>1. d # NoDialog
        BY <1>5 DEF NoDialog
      <4>2. PICK k \in DialogTypes \ {"none", "availability"} :
              LegacyAsks(f, k) /\ d = Fresh(k, LegacyContext(f, k))
        BY <3>2, <4>1, LegacyIsAsked
      <4>3. /\ DOMAIN d = {"type", "context", "left"} /\ d.type = k
            /\ d.context = LegacyContext(f, k)
        BY <4>2 DEF Fresh
      <4>4. k \in Held => c = f.pending[k]
        BY <4>3 DEF Context, LegacyContext
      <4>5. k = "feedback" => RatesActive(f, f.pending[k])
        BY <1>3, <4>2 DEF LegacyAsks, RatingFits, RatingAsked
      <4>6. k \in Held /\ c # NoContext => ContextFits(k, c)
        BY <1>3, <4>4 DEF DialogFits
      <4>7. "feedback" \in Held
        BY DEF Held
      <4>8. k = "onboarding" => f.stage # "none" /\ ~f.onboarded
        BY <4>2 DEF LegacyAsks
      <4>9. k = "onboarding" => ~f.setup.permission
        BY <1>3, <4>8 DEF DocumentFits, SetupFits
      <4> HIDE DEF d, c
      <4> QED BY <4>2, <4>3, <4>4, <4>5, <4>6, <4>7, <4>8, <4>9 DEF Capturable
    <3>3. \/ d = NoDialog \/ d = LegacyDialog(f)
          \/ d = f.active /\ ~(f.active.type = "onboarding" /\ f.stage = "none")
      BY DEF ActiveDialog
    <3>4. d # NoDialog
      BY <1>5 DEF NoDialog
    <3> QED BY <3>1, <3>2, <3>3, <3>4
  <2> HIDE DEF d, c
  <2>3. Loaded(Agreeing(f, d, c))
    BY <1>3, <2>2, AgreeingFits
  <2> QED BY <1>1, <2>1, <2>3, AsideTrans DEF Aside, SameSetup
<1> QED BY <1>4, <1>5

-----------------------------------------------------------------------------
(* Turns. *)

RatedKinds == {"enjoyed", "somewhat", "skipped"}

Beneath(world) ==
  /\ world.lookup \in {"match", "several", "none", "down"}
  /\ world.notice \in Notices \union {NoNotice}
  /\ world.following \in Standings \union {"down"} /\ world.scopes \in BOOLEAN

TurnFields == {"doc", "saved", "session", "inbox", "asked", "effects", "missed", "world"}

\* A turn of the document d, which saves the town c.  What was rated is what plays.
Turns(d, c, u) ==
  /\ DOMAIN u = TurnFields /\ u.saved = d /\ DocumentFits(d) /\ Since(d, c, u.doc)
  /\ u.session \in Sessions /\ u.inbox \in [Notices -> InboxStatuses] /\ Beneath(u.world)
  /\ MissedFits(u.missed)
  /\ \A e \in u.effects : e[1] \in RatedKinds => e[2] = SubjectOf(d.playing.item)

\* It does not ask for a town to be confirmed.
Quiet(d, c, u) == Turns(d, c, u) /\ u.asked.kind # "confirm_city"

LEMMA TurnFits ==
  ASSUME NEW d, NEW c, NEW u, Turns(d, c, u)
  PROVE  DocumentFits(u.doc) /\ u.doc.city = c /\ DOMAIN u = TurnFields
BY DEF Turns, Since

\* The document goes on.
LEMMA TurnDoc ==
  ASSUME NEW d, NEW c, NEW u, NEW s, Turns(d, c, u), Onward(u.doc, s)
  PROVE  LET v == [u EXCEPT !.doc = s]
         IN  /\ Turns(d, c, v) /\ v.doc = s /\ v.asked = u.asked /\ v.effects = u.effects
             /\ v.world = u.world /\ v.inbox = u.inbox /\ v.session = u.session
<1> DEFINE v == [u EXCEPT !.doc = s]
<1>1. /\ DOMAIN v = TurnFields /\ v.doc = s /\ v.saved = u.saved /\ v.session = u.session
      /\ v.inbox = u.inbox /\ v.world = u.world /\ v.effects = u.effects /\ v.asked = u.asked
      /\ v.missed = u.missed
  BY DEF Turns, TurnFields
<1>2. Since(d, c, s)
  BY SinceOnward DEF Turns
<1> HIDE DEF v
<1>3. Turns(d, c, v)
  BY <1>1, <1>2 DEF Turns
<1> QED BY <1>1, <1>3 DEF v

LEMMA TurnAside ==
  ASSUME NEW d, NEW c, NEW u, NEW s, Turns(d, c, u), Aside(u.doc, s)
  PROVE  /\ Turns(d, c, [u EXCEPT !.doc = s]) /\ [u EXCEPT !.doc = s].doc = s
         /\ [u EXCEPT !.doc = s].asked = u.asked /\ [u EXCEPT !.doc = s].world = u.world
         /\ [u EXCEPT !.doc = s].effects = u.effects
BY TurnDoc, AsideOnward

\* What is said, done, and noted beside the document.
LEMMA TurnSays ==
  ASSUME NEW d, NEW c, NEW u, NEW k, NEW about, Turns(d, c, u)
  PROVE  /\ Turns(d, c, Says(u, k, about))
         /\ Says(u, k, about).asked.kind = k /\ Says(u, k, about).asked.about = about
         /\ Says(u, k, about).doc = u.doc /\ Says(u, k, about).effects = u.effects
         /\ k # "confirm_city" => Quiet(d, c, Says(u, k, about))
<1> DEFINE v == Says(u, k, about)
<1>1. /\ DOMAIN v = TurnFields /\ v.doc = u.doc /\ v.saved = u.saved /\ v.session = u.session
      /\ v.inbox = u.inbox /\ v.world = u.world /\ v.effects = u.effects
      /\ v.missed = u.missed
      /\ v.asked = [kind |-> k, about |-> about]
  BY DEF Turns, TurnFields, Says
<1> HIDE DEF v
<1>2. Turns(d, c, v)
  BY <1>1 DEF Turns
<1> QED BY <1>1, <1>2 DEF v, Quiet

LEMMA TurnIdle ==
  ASSUME NEW d, NEW c, NEW u, Turns(d, c, u)
  PROVE  Quiet(d, c, Idle(u)) /\ Quiet(d, c, Closes(u))
         /\ Idle(u).doc = u.doc /\ Closes(u).doc = u.doc
<1>1. ASSUME NEW k, k # "confirm_city"
      PROVE  Quiet(d, c, Says(u, k, NoItem)) /\ Says(u, k, NoItem).doc = u.doc
  BY <1>1, TurnSays
<1>2. Quiet(d, c, Says(u, "idle", NoItem)) /\ Says(u, "idle", NoItem).doc = u.doc
  BY <1>1
<1>3. Quiet(d, c, Says(u, "closed", NoItem)) /\ Says(u, "closed", NoItem).doc = u.doc
  BY <1>1
<1> QED BY <1>2, <1>3 DEF Idle, Closes

LEMMA TurnDoes ==
  ASSUME NEW d, NEW c, NEW u, NEW what, NEW about, Turns(d, c, u),
         what \in RatedKinds => about = SubjectOf(d.playing.item)
  PROVE  /\ Turns(d, c, Does(u, what, about)) /\ Does(u, what, about).doc = u.doc
         /\ Does(u, what, about).world = u.world /\ Does(u, what, about).asked = u.asked
         /\ Does(u, what, about).effects = u.effects \union {<<what, about>>}
<1> DEFINE v == Does(u, what, about)
<1>1. /\ DOMAIN v = TurnFields /\ v.doc = u.doc /\ v.saved = u.saved /\ v.session = u.session
      /\ v.inbox = u.inbox /\ v.world = u.world /\ v.effects = u.effects \union {<<what, about>>}
      /\ v.missed = u.missed
      /\ v.asked = u.asked
  BY DEF Turns, TurnFields, Does
<1> HIDE DEF v
<1>2. Turns(d, c, v)
  BY <1>1 DEF Turns
<1> QED BY <1>1, <1>2 DEF v

LEMMA TurnSession ==
  ASSUME NEW d, NEW c, NEW u, NEW n \in Sessions, Turns(d, c, u)
  PROVE  /\ Turns(d, c, [u EXCEPT !.session = n]) /\ [u EXCEPT !.session = n].doc = u.doc
         /\ [u EXCEPT !.session = n].world = u.world
<1> DEFINE v == [u EXCEPT !.session = n]
<1>1. /\ DOMAIN v = TurnFields /\ v.doc = u.doc /\ v.saved = u.saved /\ v.session = n
      /\ v.inbox = u.inbox /\ v.world = u.world /\ v.effects = u.effects
      /\ v.missed = u.missed
  BY DEF Turns, TurnFields
<1> HIDE DEF v
<1>2. Turns(d, c, v)
  BY <1>1 DEF Turns
<1> QED BY <1>1, <1>2 DEF v

\* The backend is told the status of a notice, and may miss it.
LEMMA TurnUpdates ==
  ASSUME NEW d, NEW c, NEW u, NEW n, NEW status \in InboxStatuses, Turns(d, c, u)
  PROVE  LET v == UpdateStatus(u, n, status)
         IN  /\ Turns(d, c, v) /\ v.doc = u.doc /\ v.saved = u.saved /\ v.world = u.world
             /\ v.asked = u.asked /\ v.effects = u.effects
<1> DEFINE set == [u EXCEPT !.inbox[n] = status]
           ends == [u EXCEPT !.missed = u.missed \union {<<n, "outcome">>}]
           starts == [u EXCEPT !.missed = u.missed \union {<<n, "accepted">>}]
<1>1. /\ DOMAIN set = TurnFields /\ set.inbox = [u.inbox EXCEPT ![n] = status]
      /\ set.missed = u.missed /\ set.doc = u.doc /\ set.saved = u.saved
      /\ set.session = u.session /\ set.asked = u.asked /\ set.effects = u.effects
      /\ set.world = u.world
  BY DEF Turns, TurnFields
<1>2. \A w \in {ends, starts} :
        /\ DOMAIN w = TurnFields /\ w.inbox = u.inbox /\ w.doc = u.doc /\ w.saved = u.saved
        /\ w.session = u.session /\ w.asked = u.asked /\ w.effects = u.effects
        /\ w.world = u.world
  BY DEF Turns, TurnFields
<1>3. /\ ends.missed = u.missed \union {<<n, "outcome">>}
      /\ starts.missed = u.missed \union {<<n, "accepted">>}
  BY DEF Turns, TurnFields
<1>4. UpdateStatus(u, n, status) \in {set, ends, starts, u}
  BY DEF UpdateStatus
<1> HIDE DEF set, ends, starts
<1>5. u.inbox \in [Notices -> InboxStatuses] /\ MissedFits(u.missed)
  BY DEF Turns
<1>6. MissedFits(ends.missed) /\ MissedFits(starts.missed)
  BY <1>3, <1>5 DEF MissedFits
<1>7. set.inbox \in [Notices -> InboxStatuses]
  BY <1>1, <1>5
<1>8. Turns(d, c, set)
  BY <1>1, <1>5, <1>7 DEF Turns
<1>9. Turns(d, c, ends) /\ Turns(d, c, starts)
  BY <1>2, <1>6 DEF Turns
<1> QED BY <1>1, <1>2, <1>4, <1>8, <1>9

-----------------------------------------------------------------------------
(* Operators of Listening on turns. *)

\* Only what plays, and what no part of the invariant reads, changes.
LEMMA TurnBeside ==
  ASSUME NEW d, NEW c, NEW u, NEW r, Turns(d, c, u), DOMAIN r = Fields, SameSetup(u.doc, r),
         r.active = u.doc.active, r.flags = u.doc.flags, r.pending = u.doc.pending,
         r.topic = u.doc.topic, r.answered = u.doc.answered,
         r.playing.item = u.doc.playing.item,
         r.playing \in [item : Items \union {NoItem}, status : Statuses],
         r.latest = u.doc.latest
  PROVE  Turns(d, c, [u EXCEPT !.doc = r]) /\ Aside(u.doc, r)
BY TurnFits, FitsBeside, TurnAside

\* The status of what plays.
LEMMA TurnStatus ==
  ASSUME NEW d, NEW c, NEW u, NEW status \in Statuses, Turns(d, c, u)
  PROVE  /\ LET v == [u EXCEPT !.doc.playing.status = status]
            IN  Turns(d, c, v) /\ Aside(u.doc, v.doc) /\ v.asked = u.asked
                /\ v.doc.playing = [u.doc.playing EXCEPT !.status = status]
         /\ LET w == [u EXCEPT !.doc.playing.status = status, !.doc.prepared = FALSE]
            IN  Turns(d, c, w) /\ Aside(u.doc, w.doc) /\ w.asked = u.asked
                /\ w.doc.playing = [u.doc.playing EXCEPT !.status = status]
<1> DEFINE s == u.doc
           p == [s.playing EXCEPT !.status = status]
           a == [s EXCEPT !.playing = p]
           b == [a EXCEPT !.prepared = FALSE]
           v == [u EXCEPT !.doc.playing.status = status]
           w == [u EXCEPT !.doc.playing.status = status, !.doc.prepared = FALSE]
<1>1. DocumentFits(s) /\ DOMAIN u = TurnFields
  BY TurnFits
<1>2. v = [u EXCEPT !.doc = a] /\ w = [u EXCEPT !.doc = b]
  BY <1>1 DEF TurnFields
<1>3. s.playing \in [item : Items \union {NoItem}, status : Statuses] /\ DOMAIN s = Fields
  BY <1>1, DocumentShape DEF PlayingFits
<1> HIDE DEF s
<1>4. p \in [item : Items \union {NoItem}, status : Statuses] /\ p.item = s.playing.item
  BY <1>3
<1> HIDE DEF p
<1>5. DOMAIN a = Fields /\ SameSetup(s, a) /\ a.active = s.active /\ a.flags = s.flags
      /\ a.pending = s.pending /\ a.topic = s.topic /\ a.answered = s.answered
      /\ a.playing = p /\ a.latest = s.latest
  BY <1>3 DEF Fields, SameSetup
<1>6. DOMAIN b = Fields /\ SameSetup(s, b) /\ b.active = s.active /\ b.flags = s.flags
      /\ b.pending = s.pending /\ b.topic = s.topic /\ b.answered = s.answered
      /\ b.playing = p /\ b.latest = s.latest
  BY <1>3 DEF Fields, SameSetup
<1> HIDE DEF a, b, v, w
<1>7. Turns(d, c, v) /\ Aside(s, a)
  BY <1>2, <1>4, <1>5, TurnBeside DEF s
<1>8. Turns(d, c, w) /\ Aside(s, b)
  BY <1>2, <1>4, <1>6, TurnBeside DEF s
<1>9. v.doc = a /\ v.asked = u.asked /\ w.doc = b /\ w.asked = u.asked
  BY <1>1, <1>2 DEF TurnFields
<1> QED BY <1>5, <1>6, <1>7, <1>8, <1>9 DEF v, w, s, p

LEMMA QuietStart ==
  ASSUME NEW d, NEW c, NEW u, NEW i \in Items \union {NoItem}, Turns(d, c, u)
  PROVE  Quiet(d, c, Start(u, i))
<1> DEFINE s == StartSession(u.doc, i)
           v == [u EXCEPT !.doc = s]
           w == Does(v, "play", i)
<1>1. Aside(u.doc, s)
  BY TurnFits, AsideSession
<1> HIDE DEF s
<1>2. Turns(d, c, v)
  BY <1>1, TurnAside
<1> HIDE DEF v
<1>3. Turns(d, c, w)
  BY <1>2, TurnDoes DEF RatedKinds
<1> HIDE DEF w
<1>4. Quiet(d, c, Closes(w))
  BY <1>3, TurnIdle
<1> QED BY <1>4 DEF Start, w, v, s

LEMMA QuietPlayNext ==
  ASSUME NEW d, NEW c, NEW u, Turns(d, c, u) PROVE Quiet(d, c, PlayNext(u))
<1>1. NextOf(u.doc.playing.item) \in Items \union {NoItem}
  BY SuccessorFits
<1>2. Quiet(d, c, Start(u, NextOf(u.doc.playing.item))) /\ Quiet(d, c, Idle(u))
  BY <1>1, QuietStart, TurnIdle
<1> QED BY <1>2 DEF PlayNext

LEMMA QuietRestart ==
  ASSUME NEW d, NEW c, NEW u, Turns(d, c, u) PROVE Quiet(d, c, Restart(u))
<1> DEFINE v == [u EXCEPT !.doc.playing.status = "starting", !.doc.prepared = FALSE]
           w == Does(v, "resume", u.doc.playing.item)
<1>1. Turns(d, c, v)
  BY TurnStatus DEF Statuses
<1> HIDE DEF v
<1>2. Turns(d, c, w)
  BY <1>1, TurnDoes DEF RatedKinds
<1> HIDE DEF w
<1>3. Quiet(d, c, Closes(w)) /\ Quiet(d, c, PlayNext(u)) /\ Quiet(d, c, Idle(u))
  BY <1>2, TurnIdle, QuietPlayNext
<1>4. Restart(u) \in {Closes(w), PlayNext(u), Idle(u)}
  BY DEF Restart, w, v
<1> QED BY <1>3, <1>4

LEMMA TurnPauses ==
  ASSUME NEW d, NEW c, NEW u, Turns(d, c, u)
  PROVE  /\ Turns(d, c, PauseActive(u)) /\ Aside(u.doc, PauseActive(u).doc)
         /\ Turns(d, c, Flush(u)) /\ Aside(u.doc, Flush(u).doc)
<1>1. u.doc.playing.status \in Statuses /\ "paused" \in Statuses
  BY TurnFits, DocumentShape DEF Statuses
<1>2. ASSUME NEW status \in Statuses
      PROVE  LET v == [u EXCEPT !.doc.playing.status = status]
             IN  Turns(d, c, v) /\ Aside(u.doc, v.doc)
  BY <1>2, TurnStatus
<1> QED BY <1>1, <1>2 DEF PauseActive, Flush

LEMMA QuietOffer ==
  ASSUME NEW d, NEW c, NEW u, NEW v, NEW explicit, Turns(d, c, u), Quiet(d, c, v)
  PROVE  Quiet(d, c, Offer(u, explicit, v))
<1> DEFINE n == u.world.notice
           about == About(n, NoItem)
           s == Activate(Hold(u.doc, "notification", about), "notification", about)
           a == UpdateStatus(u, n, "offered")
           b == [a EXCEPT !.doc = s]
           w == [a EXCEPT !.doc = Activate(Hold(@, "notification", about), "notification", about)]
<1> SUFFICES ASSUME Listed(u) PROVE Quiet(d, c, Says(w, "notification", n))
  BY DEF Offer
<1>1. n \in Notices /\ DOMAIN u = TurnFields /\ DocumentFits(u.doc)
  BY TurnFits DEF Listed, Turns, Beneath
<1>2. ContextFits("notification", about)
  BY <1>1 DEF ContextFits, About, AboutContexts
<1> HIDE DEF about, n
<1>3. Aside(u.doc, s)
  BY <1>1, <1>2, AsideActivate DEF DialogTypes, Flagged, Held
<1>4. Turns(d, c, a) /\ a.doc = u.doc
  <2>1. "offered" \in InboxStatuses
    BY DEF InboxStatuses
  <2> QED BY <2>1, TurnUpdates
<1> HIDE DEF a
<1>5. w = b
  BY <1>4
<1> HIDE DEF s, w
<1>6. Turns(d, c, b)
  BY <1>3, <1>4, TurnAside
<1> HIDE DEF b
<1> QED BY <1>5, <1>6, TurnSays

LEMMA QuietFollowUp ==
  ASSUME NEW d, NEW c, NEW u, Turns(d, c, u) PROVE Quiet(d, c, FollowUp(u))
BY TurnIdle, QuietOffer DEF FollowUp

LEMMA QuietContinuation ==
  ASSUME NEW d, NEW c, NEW u, NEW v, Turns(d, c, u), Quiet(d, c, v)
  PROVE  Quiet(d, c, Continuation(u, v))
<1> DEFINE k == "feedback_continuation"
           i == u.doc.playing.item
           about == About(NextOf(i), i)
           s == Activate(Hold(u.doc, k, about), k, about)
           w == [u EXCEPT !.doc = s]
<1>1. i \in Items \union {NoItem} /\ NextOf(i) \in Items \union {NoItem} /\ DocumentFits(u.doc)
  BY TurnFits, DocumentShape, SuccessorFits
<1>2. ContextFits(k, about)
  BY <1>1, AboutFits DEF ContextFits
<1> HIDE DEF about, i
<1>3. Aside(u.doc, s)
  BY <1>1, <1>2, AsideActivate DEF DialogTypes, Flagged, Held
<1> HIDE DEF s
<1>4. Turns(d, c, w)
  BY <1>3, TurnAside
<1> HIDE DEF w
<1>5. Quiet(d, c, Says(w, k, NextOf(i)))
  BY <1>4, TurnSays
<1> QED BY <1>5 DEF Continuation, w, s, about, i

\* The question whether to go on is closed.
LEMMA TurnClosed ==
  ASSUME NEW d, NEW c, NEW u, NEW k, Turns(d, c, u), k # "feedback"
  PROVE  Turns(d, c, [u EXCEPT !.doc = Clear(Lower(Release(u.doc, k), k), {k})])
<1>1. Aside(u.doc, Clear(Lower(Release(u.doc, k), k), {k}))
  BY TurnFits, AsideClosed
<1> QED BY <1>1, TurnAside

LEMMA QuietContinued ==
  ASSUME NEW d, NEW c, NEW u, Turns(d, c, u)
  PROVE  Quiet(d, c, ContinueQueue(u)) /\ Quiet(d, c, DeclineContinuation(u))
<1> DEFINE k == "feedback_continuation"
           v == [u EXCEPT !.doc = Clear(Lower(Release(u.doc, k), k), {k})]
<1>1. Turns(d, c, v)
  BY TurnClosed
<1> HIDE DEF v
<1>2. Quiet(d, c, PlayNext(v)) /\ Quiet(d, c, FollowUp(v))
  BY <1>1, QuietPlayNext, QuietFollowUp
<1> QED BY <1>2 DEF ContinueQueue, DeclineContinuation, v

\* Another document, of the one that was loaded.
LEMMA TurnSince ==
  ASSUME NEW d, NEW c, NEW e, NEW u, NEW s, Turns(d, c, u), Since(d, e, s)
  PROVE  LET v == [u EXCEPT !.doc = s]
         IN  /\ Turns(d, e, v) /\ v.doc = s /\ v.asked = u.asked /\ v.effects = u.effects
             /\ v.world = u.world
<1> DEFINE v == [u EXCEPT !.doc = s]
<1>1. /\ DOMAIN v = TurnFields /\ v.doc = s /\ v.saved = u.saved /\ v.session = u.session
      /\ v.inbox = u.inbox /\ v.world = u.world /\ v.effects = u.effects /\ v.asked = u.asked
      /\ v.missed = u.missed
  BY DEF Turns, TurnFields
<1> HIDE DEF v
<1>2. Turns(d, e, v)
  BY <1>1 DEF Turns
<1> QED BY <1>1, <1>2 DEF v

\* A change of the inbox at one notice, and of the document.
LEMMA TurnNoted ==
  ASSUME NEW d, NEW c, NEW u, NEW n, NEW status \in InboxStatuses, NEW s,
         Turns(d, c, u), Onward(u.doc, s)
  PROVE  LET v == [UpdateStatus(u, n, status) EXCEPT !.doc = s]
         IN  Turns(d, c, v) /\ v.doc = s /\ v.saved = u.saved
<1> DEFINE a == UpdateStatus(u, n, status)
           v == [a EXCEPT !.doc = s]
<1>1. Turns(d, c, a) /\ a.doc = u.doc /\ a.saved = u.saved
  BY TurnUpdates
<1> HIDE DEF a
<1>2. Turns(d, c, v) /\ v.doc = s
  BY <1>1, TurnDoc
<1>3. v.saved = u.saved
  BY <1>1
<1> QED BY <1>2, <1>3 DEF a

LEMMA QuietDecline ==
  ASSUME NEW d, NEW c, NEW u, Turns(d, c, u) PROVE Quiet(d, c, Decline(u))
<1> DEFINE about == u.doc.pending["notification"]
           n == about.about
           s == ClearNotification(u.doc)
           done == [u EXCEPT !.doc = s]
           settled == UpdateStatus(done, n, "dismissed")
           w == Does(settled, "dismiss", n)
<1>1. Onward(u.doc, s)
  BY TurnFits, NotificationEnded
<1> HIDE DEF s
<1>2. Turns(d, c, done)
  BY <1>1, TurnDoc
<1> HIDE DEF done
<1>3. "dismissed" \in InboxStatuses
  BY DEF InboxStatuses
<1>4. Turns(d, c, settled)
  BY <1>2, <1>3, TurnUpdates
<1> HIDE DEF settled
<1>5. Turns(d, c, w)
  BY <1>4, TurnDoes DEF RatedKinds
<1> HIDE DEF w
<1>6. Quiet(d, c, Idle(done)) /\ Quiet(d, c, Idle(w))
  BY <1>2, <1>5, TurnIdle
<1>7. Decline(u) \in {Idle(done), Idle(w)}
  BY DEF Decline, done, settled, w, s
<1> QED BY <1>6, <1>7

\* A notice's recordings are searched for; a request that fails saves nothing.
LEMMA QuietAccept ==
  ASSUME NEW d, NEW u, Turns(d, d.city, u) PROVE Quiet(d, d.city, Accept(u))
<1> DEFINE about == u.doc.pending["notification"]
           n == about.about
           s == ClearNotification(u.doc)
           r == [s EXCEPT !.offered = n]
           cleared == [UpdateStatus(u, n, "resolving") EXCEPT !.doc = s]
           queued == [UpdateStatus(cleared, n, "queued") EXCEPT !.doc = r]
           failed == UpdateStatus(cleared, n, "pending")
           gone == UpdateStatus(cleared, n, "unavailable")
           broke == [UpdateStatus(queued, n, "pending") EXCEPT !.doc = u.saved]
           c == d.city
<1>1. Onward(u.doc, s) /\ DocumentFits(s) /\ DocumentFits(u.doc) /\ u.saved = d
  BY TurnFits, NotificationEnded, OnwardFits DEF Turns
<1>2. {"resolving", "queued", "pending", "unavailable"} \subseteq InboxStatuses
  BY DEF InboxStatuses
<1>3. ASSUME about # NoContext PROVE NoticeItem[n] \in Items
  <2>1. n \in Notices
    BY <1>1, <1>3 DEF DocumentFits, DialogFits, ContextFits, Held
  <2> QED BY <2>1 DEF Items
<1>4. /\ about = NoContext => Accept(u) = Idle(u)
      /\ about # NoContext =>
           Accept(u) \in {Does(Start(queued, NoticeItem[n]), "accept", n), Idle(failed),
                          Idle(gone), Idle(broke)}
  <2>1. /\ UpdateStatus(u, n, "resolving").doc = u.doc
        /\ Turns(d, c, cleared) /\ cleared.doc = s
    <3> HIDE DEF s, n
    <3>1. "resolving" \in InboxStatuses
      BY <1>2
    <3> QED BY <1>1, <3>1, TurnUpdates, TurnNoted
  <2>2. cleared = [UpdateStatus(u, n, "resolving") EXCEPT !.doc = ClearNotification(@)]
    BY <2>1
  <2> HIDE DEF cleared
  <2>3. UpdateStatus(cleared, n, "queued").doc = s
    <3> HIDE DEF s, n
    <3>1. "queued" \in InboxStatuses
      BY <1>2
    <3> QED BY <2>1, <3>1, TurnUpdates
  <2>4. queued = [UpdateStatus(cleared, n, "queued") EXCEPT !.doc.offered = n]
    <3> HIDE DEF s, n
    <3> QED BY <2>3
  <2> QED BY <2>2, <2>4 DEF Accept
<1> HIDE DEF s, about, n
<1>5. Turns(d, c, cleared) /\ cleared.doc = s /\ cleared.saved = d
  BY <1>1, <1>2, TurnNoted
<1> HIDE DEF cleared
<1>6. Turns(d, c, failed) /\ Turns(d, c, gone)
  BY <1>2, <1>5, TurnUpdates
<1> HIDE DEF failed, gone
<1>7. Turns(d, c, queued)
  <2>1. /\ DOMAIN r = Fields /\ SameSetup(s, r) /\ r.active = s.active /\ r.flags = s.flags
        /\ r.pending = s.pending /\ r.topic = s.topic /\ r.answered = s.answered
        /\ r.playing = s.playing /\ r.latest = s.latest
    BY <1>1, DocumentShape DEF Fields, SameSetup
  <2> HIDE DEF r
  <2>2. r.playing \in [item : Items \union {NoItem}, status : Statuses]
    BY <1>1, <2>1, DocumentShape DEF PlayingFits
  <2>3. Aside(s, r)
    BY <1>1, <2>1, <2>2, FitsBeside
  <2> QED BY <1>2, <1>5, <2>3, AsideOnward, TurnNoted
<1> HIDE DEF queued
<1>8. Turns(d, c, broke)
  <2> DEFINE a == UpdateStatus(queued, n, "pending")
  <2>1. Turns(d, c, a)
    BY <1>2, <1>7, TurnUpdates
  <2> HIDE DEF a
  <2>2. Since(d, c, d)
    BY TownForgotten DEF Turns
  <2>3. Turns(d, c, [a EXCEPT !.doc = d])
    BY <2>1, <2>2, TurnSince
  <2> QED BY <1>1, <2>3 DEF a
<1> HIDE DEF broke
<1>9. Quiet(d, c, Idle(u)) /\ Quiet(d, c, Idle(failed)) /\ Quiet(d, c, Idle(gone))
      /\ Quiet(d, c, Idle(broke))
  BY <1>6, <1>8, TurnIdle
<1>10. ASSUME about # NoContext
       PROVE  Quiet(d, c, Does(Start(queued, NoticeItem[n]), "accept", n))
  <2> DEFINE a == Start(queued, NoticeItem[n])
  <2>1. Quiet(d, c, a)
    BY <1>3, <1>7, <1>10, QuietStart
  <2> HIDE DEF a
  <2>2. Turns(d, c, Does(a, "accept", n)) /\ Does(a, "accept", n).asked = a.asked
    BY <2>1, TurnDoes DEF Quiet, RatedKinds
  <2> QED BY <2>1, <2>2 DEF Quiet, a
<1> QED BY <1>4, <1>9, <1>10

\* An event of the player settles a notice.
LEMMA TurnResolved ==
  ASSUME NEW d, NEW c, NEW u, NEW i, NEW status \in InboxStatuses, Turns(d, c, u)
  PROVE  /\ Turns(d, c, ResolveNotice(u, i, status)) /\ ResolveNotice(u, i, status).asked = u.asked
         /\ Aside(u.doc, ResolveNotice(u, i, status).doc)
         /\ ResolveNotice(u, i, status).effects = u.effects
<1> DEFINE n == u.doc.offered
           a == UpdateStatus(u, n, status)
           r == [u.doc EXCEPT !.offered = NoNotice]
           v == [a EXCEPT !.doc.offered = NoNotice]
<1>1. DocumentFits(u.doc) /\ DOMAIN u = TurnFields
  BY TurnFits
<1>2. Turns(d, c, a) /\ a.doc = u.doc /\ a.asked = u.asked /\ a.effects = u.effects
  BY TurnUpdates
<1> HIDE DEF a
<1>3. v = [a EXCEPT !.doc = r]
  BY <1>2
<1>4. /\ DOMAIN r = Fields /\ SameSetup(u.doc, r) /\ r.active = u.doc.active
      /\ r.flags = u.doc.flags
      /\ r.pending = u.doc.pending /\ r.topic = u.doc.topic /\ r.answered = u.doc.answered
      /\ r.playing = u.doc.playing /\ r.latest = u.doc.latest
  BY <1>1, DocumentShape DEF Fields, SameSetup
<1> HIDE DEF r, v, n
<1>5. Aside(u.doc, r)
  <2>1. r.playing \in [item : Items \union {NoItem}, status : Statuses]
    BY <1>1, <1>4, DocumentShape DEF PlayingFits
  <2> QED BY <1>1, <1>4, <2>1, FitsBeside
<1>6. Turns(d, c, v) /\ v.doc = r /\ v.asked = u.asked /\ v.effects = u.effects
  BY <1>2, <1>3, <1>5, TurnAside
<1>7. ResolveNotice(u, i, status) \in {u, v}
  BY DEF ResolveNotice, n, v, a
<1> QED BY <1>1, <1>5, <1>6, <1>7, AsideSelf

\* One answer to a rating: of what plays, while that is what played at first.
LEMMA TurnSubmit ==
  ASSUME NEW d, NEW c, NEW u, NEW value, Turns(d, c, u), RatingAsked(u.doc),
         value \in RatedKinds => u.doc.playing.item = d.playing.item
  PROVE  Turns(d, c, Submit(u, value))
<1> DEFINE p == u.doc.pending["feedback"]
           a == [u EXCEPT !.doc = MarkAnswered(u.doc)]
<1>1. DocumentFits(u.doc)
  BY TurnFits
<1>2. RatesActive(u.doc, p)
  BY <1>1 DEF DocumentFits, RatingFits
<1>3. value \in RatedKinds => p.about = SubjectOf(d.playing.item)
  BY <1>2 DEF RatesActive
<1>4. Aside(u.doc, MarkAnswered(u.doc))
  BY <1>1, AsideRated
<1>5. Turns(d, c, a)
  BY <1>4, TurnAside
<1> HIDE DEF a, p
<1>6. Turns(d, c, Does(a, value, p.about))
  BY <1>3, <1>5, TurnDoes
<1> QED BY <1>6 DEF Submit, a, p

\* What is left when a rating is settled.
LEMMA TurnRated ==
  ASSUME NEW d, NEW c, NEW u, Turns(d, c, u)
  PROVE  Turns(d, c, [u EXCEPT !.doc = ClearFeedback(u.doc)])
BY TurnFits, AsideRated, TurnAside

LEMMA TurnFlag ==
  ASSUME NEW d, NEW c, NEW u, NEW b, Turns(d, c, u)
  PROVE  /\ Turns(d, c, [u EXCEPT !.doc.follow = b]) /\ Turns(d, c, [u EXCEPT !.doc.keep = b])
         /\ Turns(d, c, [u EXCEPT !.doc.prepared = b])
         /\ [u EXCEPT !.doc.follow = b].world = u.world
         /\ [u EXCEPT !.doc.keep = b].world = u.world
         /\ [u EXCEPT !.doc.prepared = b].asked = u.asked
         /\ Aside(u.doc, [u EXCEPT !.doc.prepared = b].doc)
<1> DEFINE s == u.doc
           f == [s EXCEPT !.follow = b]
           k == [s EXCEPT !.keep = b]
           p == [s EXCEPT !.prepared = b]
<1>1. DocumentFits(s) /\ DOMAIN u = TurnFields
  BY TurnFits
<1>2. DOMAIN s = Fields /\ s.playing \in [item : Items \union {NoItem}, status : Statuses]
  BY <1>1, DocumentShape DEF PlayingFits
<1>3. ASSUME NEW r \in {f, k, p}
      PROVE  Turns(d, c, [u EXCEPT !.doc = r]) /\ Aside(s, r)
  <2> HIDE DEF s
  <2>1. /\ DOMAIN r = Fields /\ SameSetup(s, r) /\ r.active = s.active /\ r.flags = s.flags
        /\ r.pending = s.pending /\ r.topic = s.topic /\ r.answered = s.answered
        /\ r.playing = s.playing /\ r.latest = s.latest
    BY <1>2, <1>3 DEF Fields, SameSetup
  <2> HIDE DEF f, k, p
  <2> QED BY <1>2, <2>1, TurnBeside DEF s
<1>4. /\ Turns(d, c, [u EXCEPT !.doc = f]) /\ Turns(d, c, [u EXCEPT !.doc = k])
      /\ Turns(d, c, [u EXCEPT !.doc = p]) /\ Aside(s, p)
  BY <1>3
<1>5. /\ [u EXCEPT !.doc.follow = b] = [u EXCEPT !.doc = f]
      /\ [u EXCEPT !.doc.keep = b] = [u EXCEPT !.doc = k]
      /\ [u EXCEPT !.doc.prepared = b] = [u EXCEPT !.doc = p]
      /\ [u EXCEPT !.doc = f].world = u.world /\ [u EXCEPT !.doc = k].world = u.world
      /\ [u EXCEPT !.doc = p].asked = u.asked /\ [u EXCEPT !.doc = p].doc = p
  BY <1>1 DEF TurnFields
<1> QED BY <1>4, <1>5

\* Following.
LEMMA SessionFits ==
  ASSUME NEW n \in Sessions, NEW answer \in Standings \union {"down"}
  PROVE  /\ Checked(n, answer) \in Sessions /\ SyncForLaunch(n, answer) \in Sessions
         /\ Hydrate(n, answer) \in Sessions
         /\ Record(n, "has") \in Sessions /\ Record(n, "lacks") \in Sessions
<1>1. n.known \in Standings /\ n.said \in Standings
      /\ {"unknown", "has", "lacks"} \subseteq Standings
  BY DEF Sessions, Standings
<1>2. Record(n, "has") \in Sessions /\ Record(n, "lacks") \in Sessions
  BY <1>1 DEF Record, Sessions
<1>3. ASSUME answer \in Standings PROVE ReplaceSnapshot(n, answer) \in Sessions
  BY <1>1, <1>3 DEF ReplaceSnapshot, Applied, Sessions
<1> QED BY <1>2, <1>3 DEF Checked, SyncForLaunch, Hydrate

LEMMA TurnChecked ==
  ASSUME NEW d, NEW c, NEW u, Turns(d, c, u) PROVE Turns(d, c, CheckFollow(u))
<1> DEFINE n == Checked(u.session, u.world.following)
<1>1. n \in Sessions
  BY SessionFits DEF Turns, Beneath
<1> HIDE DEF n
<1>2. Turns(d, c, [u EXCEPT !.session = n])
  BY <1>1, TurnSession
<1> QED BY <1>2 DEF CheckFollow, n

LEMMA QuietEnjoyed ==
  ASSUME NEW d, NEW c, NEW u, Turns(d, c, u), u.doc.playing.item = d.playing.item
  PROVE  Quiet(d, c, Enjoyed(u)) /\ Quiet(d, c, Somewhat(u))
<1>1. CASE ~RatingAsked(u.doc)
  BY <1>1, TurnIdle DEF Enjoyed, Somewhat
<1>2. ASSUME RatingAsked(u.doc), NEW value \in {"enjoyed", "somewhat"}
      PROVE  LET a == [Submit(u, value) EXCEPT !.doc = ClearFeedback(@)]
             IN  /\ Turns(d, c, a)
                 /\ Quiet(d, c, Restart(a)) /\ Quiet(d, c, FollowUp(a))
                 /\ Quiet(d, c, FollowUp(CheckFollow(a))) /\ Quiet(d, c, AskFollow(a))
  <2> DEFINE r == Submit(u, value)
             a == [r EXCEPT !.doc = ClearFeedback(r.doc)]
  <2>1. Turns(d, c, r)
    BY <1>2, TurnSubmit
  <2> HIDE DEF r
  <2>2. Turns(d, c, a)
    BY <2>1, TurnRated
  <2> HIDE DEF a
  <2>3. Quiet(d, c, Restart(a)) /\ Quiet(d, c, FollowUp(a))
    BY <2>2, QuietRestart, QuietFollowUp
  <2>4. Quiet(d, c, FollowUp(CheckFollow(a)))
    BY <2>2, TurnChecked, QuietFollowUp
  <2>5. Quiet(d, c, AskFollow(a))
    <3> DEFINE b == [a EXCEPT !.doc.follow = TRUE]
    <3>1. Turns(d, c, b)
      BY <2>2, TurnFlag
    <3> HIDE DEF b
    <3>2. Quiet(d, c, Says(b, "follow", a.doc.playing.item))
      BY <3>1, TurnSays
    <3> QED BY <3>2 DEF AskFollow, b
  <2>6. a = [Submit(u, value) EXCEPT !.doc = ClearFeedback(@)]
    BY DEF a, r
  <2> QED BY <2>2, <2>3, <2>4, <2>5, <2>6
<1>3. CASE RatingAsked(u.doc)
  <2> DEFINE a == [Submit(u, "enjoyed") EXCEPT !.doc = ClearFeedback(@)]
             b == [Submit(u, "somewhat") EXCEPT !.doc = ClearFeedback(@)]
             e == IF Following(a) THEN FollowUp(CheckFollow(a)) ELSE AskFollow(a)
  <2>1. /\ Turns(d, c, a) /\ Quiet(d, c, Restart(a)) /\ Quiet(d, c, e)
    BY <1>2, <1>3
  <2>2. /\ Turns(d, c, b) /\ Quiet(d, c, Restart(b)) /\ Quiet(d, c, FollowUp(b))
    BY <1>2, <1>3
  <2>3. Enjoyed(u) \in {Restart(a), Continuation(a, e)}
    BY <1>3 DEF Enjoyed
  <2>4. Somewhat(u) \in {Restart(b), Continuation(b, FollowUp(b))}
    BY <1>3 DEF Somewhat
  <2> HIDE DEF a, b, e
  <2>5. Quiet(d, c, Continuation(a, e)) /\ Quiet(d, c, Continuation(b, FollowUp(b)))
    BY <2>1, <2>2, QuietContinuation
  <2> QED BY <2>1, <2>2, <2>3, <2>4, <2>5
<1> QED BY <1>1, <1>3

LEMMA QuietNotEnjoyed ==
  ASSUME NEW d, NEW c, NEW u, Turns(d, c, u) PROVE Quiet(d, c, NotEnjoyed(u))
<1> DEFINE rated == Submit(u, "not_enjoyed")
           x == ReportContext(u.doc)
           b == Interrupted(u.doc.pending["feedback"])
           about == [x EXCEPT !.resume = b]
           k == "report_decision"
           s == Dismiss(rated.doc)
           r == Activate(Hold(s, k, about), k, about)
           v == [rated EXCEPT !.doc = r]
<1>1. CASE ~RatingAsked(u.doc)
  BY <1>1, TurnIdle DEF NotEnjoyed
<1>2. CASE RatingAsked(u.doc)
  <2>1. Turns(d, c, rated)
    BY <1>2, TurnSubmit DEF RatedKinds
  <2>2. ContextFits(k, about)
    <3>1. DocumentFits(u.doc)
      BY TurnFits
    <3>2. x \in AboutContexts
      BY <3>1, ReportFits
    <3>3. b \in BOOLEAN
      <4>1. RatesActive(u.doc, u.doc.pending["feedback"])
        BY <1>2, <3>1 DEF DocumentFits, RatingFits
      <4> QED BY <4>1 DEF RatesActive, AboutContexts, Interrupted
    <3> HIDE DEF x, b
    <3>4. about \in AboutContexts
      BY <3>2, <3>3 DEF AboutContexts
    <3> HIDE DEF about
    <3> QED BY <3>4 DEF ContextFits
  <2> HIDE DEF rated, about
  <2>3. Aside(rated.doc, s) /\ DocumentFits(s)
    BY <2>1, TurnFits, AsideRated, AsideFits
  <2> HIDE DEF s
  <2>4. Aside(s, r)
    BY <2>2, <2>3, AsideActivate DEF DialogTypes, Flagged, Held
  <2>5. Aside(rated.doc, r)
    BY <2>3, <2>4, AsideTrans
  <2> HIDE DEF r
  <2>6. Turns(d, c, v)
    BY <2>1, <2>5, TurnAside
  <2> HIDE DEF v
  <2>7. Quiet(d, c, Says(v, k, about.item))
    BY <2>6, TurnSays
  <2> QED BY <1>2, <2>7 DEF NotEnjoyed, v, r, s, about, rated, x, b
<1> QED BY <1>1, <1>2

LEMMA QuietSkip ==
  ASSUME NEW d, NEW c, NEW u, NEW transport, Turns(d, c, u), u.doc.playing.item = d.playing.item
  PROVE  Quiet(d, c, Skip(u, transport))
<1> DEFINE cleared == [u EXCEPT !.doc = ClearFeedback(u.doc)]
           sent == Submit(u, "skipped")
           skipped == [sent EXCEPT !.doc = ClearFeedback(sent.doc)]
           dismissed == [u EXCEPT !.doc = DismissAmbiguity(u.doc)]
<1>1. Turns(d, c, cleared)
  BY TurnRated
<1>2. RatingAsked(u.doc) => Turns(d, c, skipped)
  <2> SUFFICES ASSUME RatingAsked(u.doc) PROVE Turns(d, c, skipped)
    OBVIOUS
  <2>1. Turns(d, c, sent)
    BY TurnSubmit
  <2> HIDE DEF sent
  <2> QED BY <2>1, TurnRated
<1>3. Turns(d, c, dismissed)
  BY TurnFits, AsideDismissAmbiguity, TurnAside
<1> HIDE DEF cleared, skipped, dismissed
<1>4. /\ Quiet(d, c, Idle(dismissed)) /\ Quiet(d, c, ContinueQueue(u))
      /\ Quiet(d, c, Restart(cleared)) /\ Quiet(d, c, FollowUp(cleared)) /\ Quiet(d, c, Idle(u))
  BY <1>1, <1>3, TurnIdle, QuietContinued, QuietRestart, QuietFollowUp
<1>5. Quiet(d, c, Continuation(cleared, FollowUp(cleared)))
  BY <1>1, <1>4, QuietContinuation
<1>6. RatingAsked(u.doc) =>
        /\ Quiet(d, c, Restart(skipped)) /\ Quiet(d, c, PlayNext(skipped))
        /\ Quiet(d, c, Continuation(skipped, FollowUp(skipped)))
  BY <1>2, QuietRestart, QuietFollowUp, QuietPlayNext, QuietContinuation
<1>7. \/ Skip(u, transport) \in {Idle(dismissed), ContinueQueue(u), Restart(cleared), Idle(u),
                                 Continuation(cleared, FollowUp(cleared))}
      \/ /\ RatingAsked(u.doc)
         /\ Skip(u, transport) \in {Restart(skipped), PlayNext(skipped),
                                    Continuation(skipped, FollowUp(skipped))}
  BY DEF Skip, dismissed, cleared, skipped, sent
<1> QED BY <1>4, <1>5, <1>6, <1>7

\* A dialogue is opened about something of what plays, and the answer asks it.
LEMMA TurnOpens ==
  ASSUME NEW d, NEW c, NEW u, NEW k \in DialogTypes \ {"feedback", "onboarding"}, NEW about,
         Turns(d, c, u), k \in Held => ContextFits(k, about),
         k = "availability" /\ PagesListed => ListFits(about)
  PROVE  /\ Turns(d, c, [u EXCEPT !.doc = Activate(u.doc, k, about)])
         /\ Turns(d, c, [u EXCEPT !.doc = Activate(Hold(u.doc, k, about), k, about)])
BY TurnFits, AsideActivate, TurnAside

LEMMA QuietRequestRating ==
  ASSUME NEW d, NEW c, NEW u, Turns(d, c, u) PROVE Quiet(d, c, RequestRating(u))
<1> DEFINE about == RequestedRating(u.doc)
           s == Activate(Hold(u.doc, "feedback", about), "feedback", about)
           v == [u EXCEPT !.doc = s]
<1>1. CASE about = NoContext
  BY <1>1, TurnIdle DEF RequestRating
<1>2. CASE about # NoContext
  <2>1. Aside(u.doc, s)
    BY <1>2, TurnFits, RequestedFits, AsideActivateRating
  <2> HIDE DEF s
  <2>2. Turns(d, c, v)
    BY <2>1, TurnAside
  <2> HIDE DEF v
  <2>3. Turns(d, c, PauseActive(v))
    BY <2>2, TurnPauses
  <2>4. Quiet(d, c, Says(PauseActive(v), "feedback", about.about))
    BY <2>3, TurnSays
  <2> QED BY <1>2, <2>4 DEF RequestRating, v, s
<1> QED BY <1>1, <1>2

LEMMA QuietReportContent ==
  ASSUME NEW d, NEW c, NEW u, Turns(d, c, u) PROVE Quiet(d, c, ReportContent(u))
<1> DEFINE about == ReportContext(u.doc)
           k == "report_decision"
           a == Does(u, "report", about.item)
           filed == [a EXCEPT !.doc = Clear(Lower(Release(a.doc, k), k), {k})]
           cleared == [filed EXCEPT !.doc = ClearFeedback(filed.doc)]
           settled == IF about.requested THEN filed ELSE cleared
           kept == [settled EXCEPT !.doc.keep = TRUE]
           paused == PauseActive(kept)
           keeps == Says(paused, "keep_listening", paused.doc.playing.item)
           ask == IF ~Unfinished(u.doc) THEN Idle(cleared) ELSE keeps
<1>1. Turns(d, c, a)
  BY TurnDoes DEF RatedKinds
<1> HIDE DEF a, about
<1>2. Turns(d, c, filed)
  BY <1>1, TurnClosed
<1> HIDE DEF filed
<1>3. Turns(d, c, cleared)
  BY <1>2, TurnRated
<1> HIDE DEF cleared
<1>4. Turns(d, c, settled)
  BY <1>2, <1>3
<1> HIDE DEF settled
<1>5. Turns(d, c, kept)
  BY <1>4, TurnFlag
<1> HIDE DEF kept
<1>6. Turns(d, c, paused)
  BY <1>5, TurnPauses
<1> HIDE DEF paused
<1>7. Quiet(d, c, keeps)
  BY <1>6, TurnSays
<1> HIDE DEF keeps
<1>8. Quiet(d, c, ask)
  BY <1>3, <1>7, TurnIdle
<1> HIDE DEF ask
<1>9. Quiet(d, c, Continuation(cleared, ask)) /\ Quiet(d, c, Idle(u))
  BY <1>3, <1>8, QuietContinuation, TurnIdle
<1>10. ReportContent(u) \in {Idle(u), ask, Continuation(cleared, ask)}
  BY DEF ReportContent, AskKeepListening, about, a, filed, cleared, settled, kept, paused, keeps,
         ask
<1> QED BY <1>8, <1>9, <1>10

LEMMA TurnRecords ==
  ASSUME NEW d, NEW c, NEW u, NEW x \in {"has", "lacks"}, NEW what, NEW about, Turns(d, c, u),
         what \notin RatedKinds
  PROVE  Turns(d, c, Does([u EXCEPT !.session = Record(@, x)], what, about))
<1> DEFINE n == Record(u.session, x)
           v == [u EXCEPT !.session = n]
<1>1. n \in Sessions
  BY SessionFits DEF Turns, Beneath
<1> HIDE DEF n
<1>2. Turns(d, c, v)
  BY <1>1, TurnSession
<1> HIDE DEF v
<1>3. Turns(d, c, Does(v, what, about))
  BY <1>2, TurnDoes
<1> QED BY <1>3 DEF v, n

LEMMA QuietFollow ==
  ASSUME NEW d, NEW c, NEW u, Turns(d, c, u) PROVE Quiet(d, c, Follow(u)) /\ Quiet(d, c, Unfollow(u))
<1> DEFINE i == u.doc.playing.item
           sent == Does([u EXCEPT !.session = Record(@, "has")], "follow", i)
           gone == Does([u EXCEPT !.session = Record(@, "lacks")], "unfollow", i)
           done == IF Following(u) THEN CheckFollow(u) ELSE sent
           cleared == [done EXCEPT !.doc = ClearFeedback(done.doc)]
<1>1. Turns(d, c, sent) /\ Turns(d, c, gone)
  BY TurnRecords DEF RatedKinds
<1> HIDE DEF sent, gone
<1>2. Turns(d, c, done)
  BY <1>1, TurnChecked
<1> HIDE DEF done
<1>3. Turns(d, c, cleared)
  BY <1>2, TurnRated
<1> HIDE DEF cleared
<1>4. /\ Quiet(d, c, Idle(u)) /\ Quiet(d, c, FollowUp(cleared)) /\ Quiet(d, c, Idle(done))
      /\ Quiet(d, c, Idle(gone)) /\ Quiet(d, c, Closes(u))
  BY <1>1, <1>2, <1>3, TurnIdle, QuietFollowUp
<1>5. Follow(u) \in {Idle(u), FollowUp(cleared), Idle(done)}
  BY DEF Follow, done, sent, cleared, i
<1>6. Unfollow(u) \in {Closes(u), Idle(gone)}
  BY DEF Unfollow, gone, i
<1> QED BY <1>4, <1>5, <1>6

\* A dialogue that is known by its flag alone is closed.
LEMMA TurnLowered ==
  ASSUME NEW d, NEW c, NEW u, NEW k, Turns(d, c, u)
  PROVE  Turns(d, c, [u EXCEPT !.doc = Clear(Lower(u.doc, k), {k})])
<1>1. Aside(u.doc, Clear(Lower(u.doc, k), {k}))
  BY TurnFits, AsideClosed
<1> QED BY <1>1, TurnAside

LEMMA QuietResumeYes ==
  ASSUME NEW d, NEW c, NEW u, Turns(d, c, u) PROVE Quiet(d, c, ResumeYes(u))
<1> DEFINE a == [u EXCEPT !.doc = Clear(Lower(u.doc, "resume"), {"resume"})]
           v == [a EXCEPT !.doc.playing.status = "starting", !.doc.prepared = FALSE]
           w == Does(v, "resume", u.doc.playing.item)
<1>1. Turns(d, c, a)
  BY TurnLowered
<1> HIDE DEF a
<1>2. Turns(d, c, v)
  <2>1. "starting" \in Statuses
    BY DEF Statuses
  <2> QED BY <1>1, <2>1, TurnStatus
<1> HIDE DEF v
<1>3. Turns(d, c, w)
  BY <1>2, TurnDoes DEF RatedKinds
<1> HIDE DEF w
<1>4. Quiet(d, c, Idle(a)) /\ Quiet(d, c, Closes(w))
  BY <1>1, <1>3, TurnIdle
<1>5. ResumeYes(u) \in {Idle(a), Closes(w)}
  BY DEF ResumeYes, a, v, w
<1> QED BY <1>4, <1>5

LEMMA QuietResumeNo ==
  ASSUME NEW d, NEW c, NEW u, Turns(d, c, u) PROVE Quiet(d, c, ResumeNo(u))
<1> DEFINE i == u.doc.playing.item
           status == IF i = NoItem THEN u.doc.playing.status ELSE "abandoned"
           a == [u EXCEPT !.doc.playing.status = status]
           s == a.doc
           f == Finalize(s)
           rated == IF i \in Tracks THEN ActivateBest(f, Finalized(s)) ELSE s
           closed == Clear(Lower(rated, "resume"), {"resume"})
           after == [a EXCEPT !.doc = closed]
<1>1. status \in Statuses /\ i \in Items \union {NoItem}
  BY TurnFits, DocumentShape DEF Statuses
<1>2. Turns(d, c, a) /\ a.doc.playing.item = i
  <2> HIDE DEF status
  <2>1. Turns(d, c, a) /\ a.doc.playing = [u.doc.playing EXCEPT !.status = status]
    <3>1. Turns(d, c, a)
      BY <1>1, TurnStatus
    <3>2. DOMAIN u = TurnFields /\ DOMAIN u.doc = Fields
      BY TurnFits, DocumentShape
    <3> QED BY <3>1, <3>2 DEF TurnFields, Fields
  <2>2. DOMAIN u.doc.playing = {"item", "status"}
    BY TurnFits, DocumentShape
  <2> QED BY <2>1, <2>2
<1> HIDE DEF a, status, i
<1>3. DocumentFits(s) /\ s.playing.item = i
  BY <1>2, TurnFits
<1>4. Aside(s, rated)
  <2> HIDE DEF s
  <2>1. CASE i \notin Tracks
    BY <1>3, <2>1, AsideSelf
  <2>2. CASE i \in Tracks
    <3>1. Aside(s, f) /\ f.playing = s.playing /\ DocumentFits(f)
      BY <1>1, <1>3, AsidePublication, AsideFits
    <3>2. \A x \in Finalized(s) : x \in AboutContexts /\ x.about = SubjectOf(f.playing.item)
      BY <1>3, <2>2, <3>1, FinalizedFits
    <3> HIDE DEF f
    <3>3. Aside(f, ActivateBest(f, Finalized(s)))
      BY <3>1, <3>2, AsideBest
    <3> QED BY <2>2, <3>1, <3>3, AsideTrans
  <2> QED BY <2>1, <2>2
<1> HIDE DEF rated
<1>5. Aside(s, closed)
  BY <1>4, AsideFits, AsideClosed, AsideTrans
<1> HIDE DEF closed
<1>6. Turns(d, c, after)
  BY <1>2, <1>5, TurnAside
<1> HIDE DEF after
<1>7. Quiet(d, c, FollowUp(after))
      /\ Quiet(d, c, Says(after, "feedback", closed.pending["feedback"].about))
  BY <1>6, TurnSays, QuietFollowUp
<1>8. ResumeNo(u) \in {FollowUp(after), Says(after, "feedback", closed.pending["feedback"].about)}
  BY DEF ResumeNo, after, closed, rated, f, s, a, status, i
<1> QED BY <1>7, <1>8

LEMMA QuietOfferLatest ==
  ASSUME NEW d, NEW c, NEW u, Turns(d, c, u) PROVE Quiet(d, c, OfferLatest(u))
<1> DEFINE k == "latest_source"
           s == u.doc
           i == s.latest.finished
           about == About(i, i)
           held == Hold(s, k, about)
           offered == [held EXCEPT !.latest.offered = i]
           r == Activate(offered, k, about)
           v == [u EXCEPT !.doc = r]
<1>1. DocumentFits(s) /\ PartsFit(s) /\ DOMAIN s = Fields /\ DOMAIN s.pending = Held
  BY TurnFits, FitsParts, DocumentShape
<1>2. s.latest \in [finished : Items \union {NoItem}, offered : Items \union {NoItem}]
      /\ s.playing \in [item : Items \union {NoItem}, status : Statuses]
      /\ s.topic \in Searches \union {NoSearch}
  BY <1>1 DEF PartsFit, PlayingFits, DialogFits
<1>3. i \in Items \union {NoItem}
  BY <1>2
<1>4. ContextFits(k, about)
  BY <1>3, AboutFits DEF ContextFits
<1> HIDE DEF about
<1> HIDE DEF s
<1>5. /\ DOMAIN r = Fields /\ SameSetup(s, r) /\ r.playing = s.playing
      /\ r.answered = s.answered /\ r.topic = s.topic
      /\ r.active = Fresh(k, about) /\ r.flags = {k} \intersect Flagged
      /\ r.pending = [s.pending EXCEPT ![k] = about]
      /\ r.latest = [s.latest EXCEPT !.offered = i]
  BY <1>1 DEF Activate, Hold, Fields, SameSetup
<1>6. [s.latest EXCEPT !.offered = i]
        \in [finished : Items \union {NoItem}, offered : Items \union {NoItem}]
  BY <1>2, <1>3
<1> HIDE DEF r, i
<1>7. PlayingFits(r)
  BY <1>2, <1>5, <1>6 DEF PlayingFits
<1>8. k \in DialogTypes /\ k # "feedback" /\ k # "availability" /\ k # "onboarding"
  BY DEF DialogTypes, Held
<1>9. Aside(s, r)
  BY <1>1, <1>2, <1>4, <1>5, <1>7, <1>8, FitsOpened
<1>10. Turns(d, c, v)
  BY <1>9, TurnAside DEF s
<1> HIDE DEF v
<1>11. Quiet(d, c, Says(v, k, i)) /\ Quiet(d, c, Idle(u))
  BY <1>10, TurnSays, TurnIdle
<1>12. OfferLatest(u) \in {Says(v, k, i), Idle(u)}
  BY DEF OfferLatest, v, r, about, i, s
<1> QED BY <1>11, <1>12

LEMMA QuietLaunchReturning ==
  ASSUME NEW d, NEW c, NEW u, Turns(d, c, u) PROVE Quiet(d, c, LaunchReturning(u))
<1> DEFINE f == Flush(u)
           quiet == [f EXCEPT !.doc = ClearTransient(f.doc)]
           k == [quiet EXCEPT !.doc.keep = FALSE]
           n == SyncForLaunch(quiet.session, quiet.world.following)
           free == [k EXCEPT !.session = n]
           about == About(quiet.doc.playing.item, quiet.doc.playing.item)
           v == [free EXCEPT !.doc = Activate(free.doc, "resume", about)]
<1>1. Turns(d, c, f)
  BY TurnPauses
<1> HIDE DEF f
<1>2. Turns(d, c, quiet)
  BY <1>1, TurnFits, AsideTransient, TurnAside
<1> HIDE DEF quiet
<1>3. Turns(d, c, k) /\ n \in Sessions
  <2>1. Turns(d, c, k)
    BY <1>2, TurnFlag
  <2>2. n \in Sessions
    BY <1>2, SessionFits DEF Turns, Beneath
  <2> QED BY <2>1, <2>2
<1>4. k.session = quiet.session /\ k.world = quiet.world
  BY <1>2 DEF Turns, TurnFields
<1> HIDE DEF n, k
<1>5. Turns(d, c, free)
  BY <1>3, TurnSession
<1> HIDE DEF free, about
<1>6. Turns(d, c, v)
  BY <1>5, TurnOpens DEF DialogTypes, Flagged, Held
<1> HIDE DEF v
<1>7. /\ Quiet(d, c, AskKeepListening(quiet))
      /\ Quiet(d, c, Says(v, "resume", about.item))
  BY <1>2, <1>6, TurnSays DEF AskKeepListening
<1>8. Quiet(d, c, Offer(free, FALSE, OfferLatest(free)))
  BY <1>5, QuietOfferLatest, QuietOffer
<1>9. free = [quiet EXCEPT !.doc.keep = FALSE, !.session = SyncForLaunch(@, u.world.following)]
  <2>1. quiet.world = u.world /\ DOMAIN quiet = TurnFields
    <3>1. DOMAIN u = TurnFields
      BY TurnFits
    <3>2. f.world = u.world /\ DOMAIN f = TurnFields
      BY <3>1 DEF f, Flush, TurnFields
    <3> QED BY <3>2 DEF quiet, TurnFields
  <2> QED BY <1>4, <2>1 DEF free, k, n, TurnFields
<1>10. LaunchReturning(u) \in {AskKeepListening(quiet), Says(v, "resume", about.item),
                               Offer(free, FALSE, OfferLatest(free))}
  BY <1>9 DEF LaunchReturning, quiet, v, about, f
<1> QED BY <1>7, <1>8, <1>10

-----------------------------------------------------------------------------
(* Operators of Finding on turns. *)

LEMMA TurnEnded ==
  ASSUME NEW d, NEW c, NEW u, Turns(d, c, u)
  PROVE  /\ Turns(d, c, [u EXCEPT !.doc = EndChoices(u.doc)])
         /\ Turns(d, c, [u EXCEPT !.doc = CloseLatest(u.doc)])
<1>1. Aside(u.doc, EndChoices(u.doc)) /\ Aside(u.doc, CloseLatest(u.doc))
  BY TurnFits, ChoicesEnded DEF Near
<1> QED BY <1>1, TurnAside

LEMMA QuietHear ==
  ASSUME NEW d, NEW c, NEW u, NEW what, Turns(d, c, u)
  PROVE  /\ Quiet(d, c, Hear(u, what)) /\ Quiet(d, c, HearFound(u, what))
         /\ Quiet(d, c, NothingThere(u))
<1> DEFINE v == [u EXCEPT !.doc = EndChoices(u.doc)]
           w == Start(v, Queue[1])
<1>1. Turns(d, c, v)
  BY TurnEnded
<1> HIDE DEF v
<1>2. Quiet(d, c, w)
  BY <1>1, FirstFits, QuietStart
<1> HIDE DEF w
<1>3. Quiet(d, c, Does(w, "hear", what))
  BY <1>2, TurnDoes DEF Quiet, RatedKinds
<1>4. Quiet(d, c, Idle(v)) /\ Quiet(d, c, Idle(u))
  BY <1>1, TurnIdle
<1> QED BY <1>3, <1>4 DEF Hear, HearFound, NothingThere, v, w

LEMMA QuietPlayLatest ==
  ASSUME NEW d, NEW c, NEW u, Turns(d, c, u)
  PROVE  Quiet(d, c, PlayLatest(u)) /\ Quiet(d, c, PlayFollowed(u))
<1> DEFINE v == [u EXCEPT !.doc = CloseLatest(u.doc)]
           f == [u EXCEPT !.doc.follow = FALSE]
<1>1. Turns(d, c, v) /\ Turns(d, c, f)
  BY TurnEnded, TurnFlag
<1> HIDE DEF v, f
<1>2. Quiet(d, c, HearFound(v, "latest")) /\ Quiet(d, c, HearFound(f, "followed"))
      /\ Quiet(d, c, Idle(f))
  BY <1>1, QuietHear, TurnIdle
<1> QED BY <1>2 DEF PlayLatest, PlayFollowed, v, f

LEMMA QuietAsks ==
  ASSUME NEW d, NEW c, NEW u, NEW kind, NEW list, Turns(d, c, u), kind # "confirm_city",
         PagesListed => ListFits(list)
  PROVE  Quiet(d, c, Asks(u, kind, list)) /\ Asks(u, kind, list).effects = u.effects
<1> DEFINE k == "availability"
           v == [u EXCEPT !.doc = Activate(u.doc, k, list)]
<1>1. k \in DialogTypes \ {"feedback", "onboarding"} /\ k \notin Held
  BY DEF DialogTypes, Transient, Held
<1>2. Turns(d, c, v)
  BY <1>1, TurnOpens
<1>3. v.effects = u.effects
  BY TurnFits DEF TurnFields
<1> HIDE DEF v
<1>4. Quiet(d, c, Says(v, kind, Displayed(list)))
      /\ Says(v, kind, Displayed(list)).effects = v.effects
  BY <1>2, TurnSays
<1> QED BY <1>3, <1>4 DEF Asks, v

\* The first page of a list that has one.
LEMMA FirstPageFits ==
  ASSUME PagesListed, NEW kind \in {"source", "publication", "format"}, NEW w \in DOMAIN Pages,
         NEW source, kind = "source" => w \in {"local", "creators", "recommended"},
         Pages[w] # <<>>
  PROVE  ListFits(Listed1(kind, w, source))
<1> DEFINE c == Listed1(kind, w, source)
           all == Pages[w][1]
<1>1. Pages[w] \in Seq(Seq(Listable))
  BY FindingAssumption
<1>2. Len(Pages[w]) \in Nat \ {0} /\ 1 \in 1..Len(Pages[w])
  BY <1>1
<1>3. /\ all \in Seq(Listable) /\ all # <<>> /\ Distinct(all)
      /\ w \in {"local", "creators", "recommended"} => all \in Seq(Sources)
      /\ Len(all) \in Nat \ {0}
  BY <1>2, PageFits
<1>4. /\ DOMAIN c = {"kind", "list", "source", "all", "offset", "page", "total", "single",
                     "failed"}
      /\ c.kind = kind /\ c.list = w /\ c.all = all /\ c.offset = 0 /\ c.page = 0
      /\ c.total = Len(Pages[w])
  BY DEF Listed1
<1> HIDE DEF c, all
<1>5. ListFits(c)
  BY <1>2, <1>3, <1>4 DEF ListFits
<1> QED BY <1>5 DEF c

LEMMA SingleFits ==
  ASSUME NEW c, ListFits(c)
  PROVE  /\ \A b : ListFits([c EXCEPT !.single = b]) /\ ListFits([c EXCEPT !.failed = b])
         /\ \A n \in 0..(Len(c.all) - 1) : ListFits([c EXCEPT !.offset = n])
         /\ c.kind = "format" => ListFits([c EXCEPT !.kind = "publication"])
         /\ c.kind = "publication" => ListFits([c EXCEPT !.kind = "format"])
<1>1. ASSUME NEW b PROVE ListFits([c EXCEPT !.single = b]) /\ ListFits([c EXCEPT !.failed = b])
  BY DEF ListFits
<1>2. ASSUME NEW n \in 0..(Len(c.all) - 1) PROVE ListFits([c EXCEPT !.offset = n])
  BY DEF ListFits
<1>3. c.kind = "format" => ListFits([c EXCEPT !.kind = "publication"])
  BY DEF ListFits
<1>4. c.kind = "publication" => ListFits([c EXCEPT !.kind = "format"])
  BY DEF ListFits
<1> QED BY <1>1, <1>2, <1>3, <1>4

LEMMA QuietAskSources ==
  ASSUME NEW d, NEW c, NEW u, NEW w \in {"local", "creators", "recommended"},
         Turns(d, c, u), HasEntries(w)
  PROVE  Quiet(d, c, AskSources(u, w)) /\ AskSources(u, w).effects = u.effects
<1> DEFINE list == Listed1("source", w, NoSource)
           one == [list EXCEPT !.single = TRUE]
<1>1. w \in DOMAIN Pages /\ Pages[w] # <<>>
  BY FindingAssumption DEF HasEntries
<1>2. PagesListed => ListFits(list)
  BY <1>1, FirstPageFits
<1> HIDE DEF list
<1>3. PagesListed => ListFits(one)
  BY <1>2, SingleFits
<1> HIDE DEF one
<1>4. /\ Quiet(d, c, Asks(u, "choices", list)) /\ Asks(u, "choices", list).effects = u.effects
      /\ Quiet(d, c, Asks(u, "choices", one)) /\ Asks(u, "choices", one).effects = u.effects
  BY <1>2, <1>3, QuietAsks
<1>5. AskSources(u, w) \in {Asks(u, "choices", list), Asks(u, "choices", one)}
  BY DEF AskSources, list, one
<1> QED BY <1>4, <1>5

\* Whoever has a town is read what is local, or told that there is nothing.
LEMMA QuietBeginLocal ==
  ASSUME NEW d, NEW c, NEW u, Turns(d, c, u)
  PROVE  /\ Quiet(d, c, BeginLocal(u))
         /\ c # NoTown => <<"list", "local">> \in BeginLocal(u).effects
<1> DEFINE a == [u.doc EXCEPT !.setup.consent = TRUE]
           b == [a EXCEPT !.setup.community = TRUE]
           v == [u EXCEPT !.doc.setup.consent = TRUE, !.doc.setup.community = TRUE]
           l == Does(u, "list", "local")
<1>1. u.doc.city = c /\ DocumentFits(u.doc) /\ DOMAIN u = TurnFields
  BY TurnFits
<1>2. Turns(d, c, v)
  <2>1. Onward(u.doc, a) /\ DocumentFits(a)
    BY <1>1, SetupMarked, OnwardFits
  <2>2. v = [u EXCEPT !.doc = b]
    <3>1. DOMAIN u.doc = Fields
      BY <1>1, DocumentShape
    <3> QED BY <1>1, <3>1 DEF TurnFields, Fields
  <2> HIDE DEF a, v
  <2>3. Onward(a, b)
    BY <2>1, SetupMarked
  <2>4. Onward(u.doc, b)
    BY <2>1, <2>3, OnwardTrans
  <2> HIDE DEF b
  <2> QED BY <2>2, <2>4, TurnDoc
<1> HIDE DEF v
<1>3. Turns(d, c, l) /\ <<"list", "local">> \in l.effects
  BY TurnDoes DEF RatedKinds
<1> HIDE DEF l
<1>4. Quiet(d, c, Says(v, "profile", NoItem)) /\ Quiet(d, c, NothingThere(l))
  BY <1>2, <1>3, TurnSays, QuietHear
<1>5. NothingThere(l).effects = l.effects
  <2>1. DOMAIN l = TurnFields
    BY <1>3, TurnFits
  <2> QED BY <2>1 DEF NothingThere, Idle, Says, TurnFields
<1>6. HasEntries("local") => Quiet(d, c, AskSources(l, "local"))
                             /\ AskSources(l, "local").effects = l.effects
  BY <1>3, QuietAskSources
<1>7. CASE u.doc.city = NoTown
  BY <1>1, <1>4, <1>7 DEF BeginLocal, v
<1>8. CASE u.doc.city # NoTown /\ u.world.listing = "answers" /\ HasEntries("local")
  BY <1>3, <1>6, <1>8 DEF BeginLocal, l
<1>9. CASE u.doc.city # NoTown /\ ~(u.world.listing = "answers" /\ HasEntries("local"))
  BY <1>3, <1>4, <1>5, <1>9 DEF BeginLocal, l
<1> QED BY <1>7, <1>8, <1>9

LEMMA QuietBeginPlace ==
  ASSUME NEW d, NEW c, NEW u, NEW q, Turns(d, c, u) PROVE Quiet(d, c, BeginPlace(u, q))
<1> DEFINE l == Does(u, "list", q)
<1>1. Turns(d, c, l)
  BY TurnDoes DEF RatedKinds
<1> HIDE DEF l
<1>2. Quiet(d, c, HearFound(u, q)) /\ Quiet(d, c, NothingThere(l))
  BY <1>1, QuietHear
<1>3. HasEntries("local") => Quiet(d, c, AskSources(l, "local"))
  BY <1>1, QuietAskSources
<1>4. CASE q \in Mixed
  BY <1>2, <1>4 DEF BeginPlace, PlayMixed
<1>5. CASE q \notin Mixed /\ u.world.listing = "answers" /\ HasEntries("local")
  BY <1>3, <1>5 DEF BeginPlace, l
<1>6. CASE q \notin Mixed /\ ~(u.world.listing = "answers" /\ HasEntries("local"))
  BY <1>2, <1>6 DEF BeginPlace, l
<1> QED BY <1>4, <1>5, <1>6

LEMMA QuietCreators ==
  ASSUME NEW d, NEW c, NEW u, NEW town, Turns(d, c, u)
  PROVE  Quiet(d, c, AskCreatorCity(u)) /\ Quiet(d, c, BeginCreators(u, town))
<1> DEFINE v == [u EXCEPT !.doc = Activate(u.doc, "creator_location", NoContext)]
           named == [u EXCEPT !.doc = Clear(u.doc, {"creator_location"})]
<1>1. Turns(d, c, v)
  BY TurnOpens DEF DialogTypes, Transient, Held
<1> HIDE DEF v
<1>2. Quiet(d, c, AskCreatorCity(u))
  <2>1. Quiet(d, c, Says(v, "creator_city", NoItem))
    BY <1>1, TurnSays
  <2> QED BY <2>1 DEF AskCreatorCity, v
<1>3. Turns(d, c, named)
  BY TurnFits, AsideClear, TurnAside
<1> HIDE DEF named
<1>4. Quiet(d, c, NothingThere(named))
      /\ (HasEntries("creators") => Quiet(d, c, AskSources(named, "creators")))
  BY <1>3, QuietHear, QuietAskSources
<1> DEFINE found == town # NoTown /\ u.world.lookup = "match"
<1>5. \/ BeginCreators(u, town) \in {AskCreatorCity(u), NothingThere(named)}
      \/ /\ HasEntries("creators")
         /\ BeginCreators(u, town) = AskSources(named, "creators")
  <2>1. CASE town = NoTown \/ u.world.lookup # "match"
    BY <2>1 DEF BeginCreators
  <2>2. CASE ~(town = NoTown \/ u.world.lookup # "match")
    <3> DEFINE ready == u.world.listing = "answers" /\ HasEntries("creators")
    <3>1. CASE ready
      BY <2>2, <3>1 DEF BeginCreators, named
    <3>2. CASE ~ready
      BY <2>2, <3>2 DEF BeginCreators, named
    <3> QED BY <3>1, <3>2
  <2> QED BY <2>1, <2>2
<1> QED BY <1>2, <1>4, <1>5

LEMMA QuietBeginSource ==
  ASSUME NEW d, NEW c, NEW u, NEW s, NEW v, Turns(d, c, u), Quiet(d, c, v),
         PagesListed => s \in Sources
  PROVE  Quiet(d, c, BeginSource(u, s, v)) /\ Quiet(d, c, BeginEditions(u, s, v))
<1> DEFINE list == Listed1("publication", s, s)
           formats == [list EXCEPT !.kind = "format"]
<1>1. Quiet(d, c, HearFound(u, s)) /\ Quiet(d, c, NothingThere(u))
      /\ Quiet(d, c, HearFound(u, Pages[s][1][1]))
  BY QuietHear
<1>2. ASSUME Pages[s] # <<>>
      PROVE  Quiet(d, c, Asks(u, "choices", list)) /\ Quiet(d, c, Asks(u, "choices", formats))
  <2>1. PagesListed => ListFits(list) /\ list.kind = "publication"
    <3>1. PagesListed => s \in DOMAIN Pages
      BY FindingAssumption
    <3>2. list.kind = "publication"
      BY DEF Listed1
    <3> QED BY <1>2, <3>1, <3>2, FirstPageFits
  <2> HIDE DEF list
  <2>2. PagesListed => ListFits(formats)
    BY <2>1, SingleFits
  <2> HIDE DEF formats
  <2> QED BY <2>1, <2>2, QuietAsks
<1>3. CASE u.world.listing = "down"
  BY <1>3 DEF BeginSource, BeginEditions
<1>4. CASE u.world.listing # "down" /\ Pages[s] = <<>>
  BY <1>1, <1>4 DEF BeginSource, BeginEditions
<1>5. CASE u.world.listing # "down" /\ Pages[s] # <<>>
  <2>1. BeginSource(u, s, v) \in {Asks(u, "choices", formats), Asks(u, "choices", list),
                                  NothingThere(u)}
    BY <1>5 DEF BeginSource
  <2>2. BeginEditions(u, s, v) \in {NothingThere(u), HearFound(u, Pages[s][1][1]),
                                    Asks(u, "choices", list)}
    BY <1>5 DEF BeginEditions
  <2> QED BY <1>1, <1>2, <1>5, <2>1, <2>2
<1> QED BY <1>3, <1>4, <1>5

LEMMA QuietRecommended ==
  ASSUME NEW d, NEW c, NEW u, Turns(d, c, u) PROVE Quiet(d, c, BeginRecommended(u))
BY QuietHear, QuietAskSources DEF BeginRecommended

\* The page after the one that is read out, and the page before it, of a list.
LEMMA MoreFits ==
  ASSUME PagesListed, NEW c, ListFits(c), NEW listing
  PROVE  /\ RemoteMore(c) => ListFits(LoadPage(c, c.page + 1, listing))
         /\ \A d : ListFits(d) /\ c.offset + Len(Displayed(c)) < Len(d.all) =>
              ListFits([d EXCEPT !.offset = c.offset + Len(Displayed(c))])
<1> DEFINE next == c.offset + Len(Displayed(c))
<1>1. next \in Nat
  BY ShownFits DEF ListFits
<1>2. RemoteMore(c) => c.page + 1 \in 0..(Len(Pages[c.list]) - 1)
  BY DEF RemoteMore, ListFits
<1>3. RemoteMore(c) => ListFits(LoadPage(c, c.page + 1, listing))
  BY <1>2, LoadFits
<1> HIDE DEF next
<1>4. ASSUME NEW d, ListFits(d), next < Len(d.all) PROVE ListFits([d EXCEPT !.offset = next])
  <2>1. Len(d.all) \in Nat
    BY <1>4, LenProperties DEF ListFits
  <2>2. next \in 0..(Len(d.all) - 1)
    BY <1>1, <1>4, <2>1
  <2> QED BY <1>4, <2>2, SingleFits
<1> QED BY <1>3, <1>4 DEF next

LEMMA PreviousFits ==
  ASSUME PagesListed, NEW c, ListFits(c), NEW listing
  PROVE  /\ c.page # 0 =>
              ListFits([LoadPage(c, c.page - 1, listing) EXCEPT !.failed = FALSE])
         /\ ListFits([c EXCEPT !.offset = IF c.offset >= PageSize THEN c.offset - PageSize ELSE 0])
<1> DEFINE back == IF c.offset >= PageSize THEN c.offset - PageSize ELSE 0
<1>1. c.page # 0 => c.page - 1 \in 0..(Len(Pages[c.list]) - 1)
  BY DEF ListFits
<1>2. c.page # 0 => ListFits([LoadPage(c, c.page - 1, listing) EXCEPT !.failed = FALSE])
  BY <1>1, LoadFits, SingleFits
<1>3. back \in 0..(Len(c.all) - 1)
  BY FindingAssumption DEF ListFits
<1> HIDE DEF back
<1>4. ListFits([c EXCEPT !.offset = back])
  BY <1>3, SingleFits
<1> QED BY <1>2, <1>4 DEF back

LEMMA ChoicesOf ==
  ASSUME NEW s, DocumentFits(s), s.active.type = "availability", PagesListed
  PROVE  ListFits(s.active.context)
BY DEF DocumentFits, DialogFits

LEMMA QuietMore ==
  ASSUME NEW d, NEW c, NEW u, Turns(d, c, u), u.doc.active.type = "availability"
  PROVE  Quiet(d, c, More(u))
<1> DEFINE e == u.doc.active.context
           next == e.offset + Len(Displayed(e))
           loads == next >= Len(e.all) /\ RemoteMore(e)
           page == IF loads THEN LoadPage(e, e.page + 1, u.world.listing) ELSE e
           v == IF loads THEN Does(u, "load", e.page + 1) ELSE u
           moved == [page EXCEPT !.offset = next]
<1>1. PagesListed => ListFits(e)
  BY TurnFits, ChoicesOf
<1>2. Turns(d, c, v)
  BY TurnDoes DEF RatedKinds
<1>3. PagesListed => ListFits(page) /\ (next < Len(page.all) => ListFits(moved))
  <2> HIDE DEF e
  <2> SUFFICES ASSUME PagesListed PROVE ListFits(page) /\ (next < Len(page.all) => ListFits(moved))
    OBVIOUS
  <2>1. ListFits(page)
    BY <1>1, MoreFits
  <2> HIDE DEF page
  <2> QED BY <1>1, <2>1, MoreFits DEF next
<1>4. PagesListed => next \in Nat /\ Len(page.all) \in Nat
  <2> HIDE DEF e
  <2>1. PagesListed => next \in Nat
    BY <1>1, ShownFits DEF ListFits
  <2> HIDE DEF page
  <2> QED BY <1>3, <2>1, LenProperties DEF ListFits
<1>5. \/ More(u) \in {Asks(u, "choices", e), Asks(v, "choices", page), Asks(v, "try_again", page),
                      Asks(v, "all_choices", page)}
      \/ ~(next >= Len(page.all)) /\ More(u) = Asks(v, "choices", moved)
  BY DEF More
<1> HIDE DEF e, v, page, moved, loads
<1>6. Quiet(d, c, Asks(u, "choices", e))
  BY <1>1, QuietAsks
<1>7. Quiet(d, c, Asks(v, "choices", page)) /\ Quiet(d, c, Asks(v, "try_again", page))
      /\ Quiet(d, c, Asks(v, "all_choices", page))
  BY <1>2, <1>3, QuietAsks
<1> HIDE DEF next
<1>8. CASE ~(next >= Len(page.all)) /\ More(u) = Asks(v, "choices", moved)
  <2>1. PagesListed => ListFits(moved)
    BY <1>3, <1>4, <1>8
  <2> QED BY <1>2, <1>8, <2>1, QuietAsks
<1> QED BY <1>5, <1>6, <1>7, <1>8

LEMMA QuietPrevious ==
  ASSUME NEW d, NEW c, NEW u, Turns(d, c, u), u.doc.active.type = "availability"
  PROVE  Quiet(d, c, Previous(u))
<1> DEFINE e == u.doc.active.context
           back == [e EXCEPT !.offset = IF e.offset >= PageSize THEN e.offset - PageSize ELSE 0]
           page == [LoadPage(e, e.page - 1, u.world.listing) EXCEPT !.failed = FALSE]
           v == Does(u, "load", e.page - 1)
<1>1. PagesListed => ListFits(e)
  BY TurnFits, ChoicesOf
<1>2. Turns(d, c, v)
  BY TurnDoes DEF RatedKinds
<1>3. PagesListed => ListFits(back) /\ (e.page # 0 => ListFits(page))
  <2> HIDE DEF e
  <2> QED BY <1>1, PreviousFits
<1>4. \/ Previous(u) \in {Asks(u, "choices", e), Asks(u, "choices", back)}
      \/ e.page # 0 /\ Previous(u) = Asks(v, "choices", page)
  BY DEF Previous
<1> HIDE DEF e, v, page, back
<1>5. Quiet(d, c, Asks(u, "choices", e)) /\ Quiet(d, c, Asks(u, "choices", back))
  BY <1>1, <1>3, QuietAsks
<1>6. e.page # 0 => Quiet(d, c, Asks(v, "choices", page))
  BY <1>2, <1>3, QuietAsks
<1> QED BY <1>4, <1>5, <1>6

LEMMA QuietReread ==
  ASSUME NEW d, NEW c, NEW u, Turns(d, c, u), u.doc.active.type = "availability"
  PROVE  Quiet(d, c, Reread(u))
<1> DEFINE e == u.doc.active.context
<1>1. PagesListed => ListFits(e)
  BY TurnFits, ChoicesOf
<1> HIDE DEF e
<1>2. Quiet(d, c, Asks(u, "choices", e))
  BY <1>1, QuietAsks
<1> QED BY <1>2 DEF Reread, e

LEMMA QuietSelect ==
  ASSUME NEW d, NEW c, NEW u, NEW choice, Turns(d, c, u),
         PagesListed /\ u.doc.active.context.kind = "source" => choice \in Sources
  PROVE  Quiet(d, c, Select(u, choice))
<1> DEFINE e == u.doc.active.context
           v == [u EXCEPT !.doc = EndChoices(u.doc)]
<1>1. Turns(d, c, v)
  BY TurnEnded
<1>2. Quiet(d, c, NothingThere(u)) /\ Quiet(d, c, HearFound(u, choice))
  BY QuietHear
<1> HIDE DEF v
<1>3. CASE e.kind = "source"
  <2>1. Quiet(d, c, BeginSource(v, choice, NothingThere(u)))
    BY <1>1, <1>2, <1>3, QuietBeginSource
  <2> QED BY <1>3, <2>1 DEF Select, v
<1>4. CASE e.kind # "source"
  BY <1>2, <1>4 DEF Select
<1> QED BY <1>3, <1>4

LEMMA QuietSelectFormat ==
  ASSUME NEW d, NEW c, NEW u, NEW format, Turns(d, c, u), u.doc.active.type = "availability",
         u.doc.active.context.kind = "format"
  PROVE  Quiet(d, c, SelectFormat(u, format))
<1> DEFINE e == u.doc.active.context
           editions == [e EXCEPT !.kind = "publication"]
<1>1. PagesListed => ListFits(e)
  BY TurnFits, ChoicesOf
<1>2. e.kind = "format"
  OBVIOUS
<1>3. SelectFormat(u, format) \in {HearFound(u, e.source), HearFound(u, e.all[1]),
                                   Asks(u, "choices", editions)}
  BY DEF SelectFormat
<1> HIDE DEF e
<1>4. PagesListed => ListFits(editions)
  BY <1>1, <1>2, SingleFits
<1> HIDE DEF editions
<1>5. Quiet(d, c, Asks(u, "choices", editions))
  BY <1>4, QuietAsks
<1>6. Quiet(d, c, HearFound(u, e.source)) /\ Quiet(d, c, HearFound(u, e.all[1]))
  BY QuietHear
<1> QED BY <1>3, <1>5, <1>6

LEMMA QuietChoose ==
  ASSUME NEW d, NEW c, NEW u, NEW choice, Turns(d, c, u), u.doc.active.type = "availability"
  PROVE  Quiet(d, c, Choose(u, choice))
<1> DEFINE e == u.doc.active.context
<1>1. PagesListed => ListFits(e)
  BY TurnFits, ChoicesOf
<1>2. Quiet(d, c, Reread(u))
  BY QuietReread
<1>3. CASE choice \notin Entries(Displayed(e))
  BY <1>2, <1>3 DEF Choose
<1>4. CASE choice \in Entries(Displayed(e)) /\ e.kind = "format"
  <2>1. Quiet(d, c, SelectFormat(u, choice))
    BY <1>4, QuietSelectFormat
  <2> QED BY <1>4, <2>1 DEF Choose
<1>5. CASE choice \in Entries(Displayed(e)) /\ e.kind # "format"
  <2>1. PagesListed /\ e.kind = "source" => choice \in Sources
    <3> HIDE DEF e
    <3> QED BY <1>1, <1>5, ShownFits
  <2>2. Quiet(d, c, Select(u, choice))
    BY <2>1, QuietSelect
  <2> QED BY <1>5, <2>2 DEF Choose
<1> QED BY <1>3, <1>4, <1>5

LEMMA QuietChooseYes ==
  ASSUME NEW d, NEW c, NEW u, Turns(d, c, u), u.doc.active.type = "availability"
  PROVE  Quiet(d, c, ChooseYes(u))
<1> DEFINE e == u.doc.active.context
<1>1. PagesListed => ListFits(e)
  BY TurnFits, ChoicesOf
<1>2. ChooseYes(u) \in {Select(u, e.all[1]), HearFound(u, e.all[1]), Reread(u)}
  <2>1. CASE e.single
    BY <2>1 DEF ChooseYes
  <2>2. CASE ~e.single /\ e.kind = "format" /\ e.total = 1 /\ Len(e.all) = 1
    BY <2>2 DEF ChooseYes
  <2>3. CASE ~e.single /\ ~(e.kind = "format" /\ e.total = 1 /\ Len(e.all) = 1)
    BY <2>3 DEF ChooseYes
  <2> QED BY <2>1, <2>2, <2>3
<1>3. PagesListed /\ e.kind = "source" => e.all[1] \in Sources
  <2> HIDE DEF e
  <2> QED BY <1>1 DEF ListFits
<1>4. Quiet(d, c, Select(u, e.all[1]))
  BY <1>3, QuietSelect
<1> HIDE DEF e
<1>5. Quiet(d, c, HearFound(u, e.all[1])) /\ Quiet(d, c, Reread(u))
  BY QuietHear, QuietReread
<1> QED BY <1>2, <1>4, <1>5

LEMMA QuietChooseNo ==
  ASSUME NEW d, NEW c, NEW u, Turns(d, c, u) PROVE Quiet(d, c, ChooseNo(u))
BY QuietHear DEF ChooseNo

\* The phrase that is kept, and the ages of what was resolved.
LEMMA TopicFits ==
  ASSUME NEW s, NEW q \in Searches \union {NoSearch}, DocumentFits(s)
  PROVE  Aside(s, [s EXCEPT !.topic = q])
<1> DEFINE r == [s EXCEPT !.topic = q]
<1>1. /\ DOMAIN r = Fields /\ r.topic = q /\ SameSetup(s, r) /\ r.active = s.active
      /\ r.flags = s.flags /\ r.pending = s.pending /\ r.playing = s.playing
      /\ r.answered = s.answered /\ r.latest = s.latest
  BY DocumentShape DEF Fields, SameSetup
<1> HIDE DEF r
<1>2. DialogFits(r)
  BY <1>1 DEF DocumentFits, DialogFits
<1>3. SetupFits(r)
  BY <1>1 DEF DocumentFits, SetupFits, SameSetup
<1>4. PlayingFits(r)
  BY <1>1 DEF DocumentFits, PlayingFits
<1>5. RatingFits(r)
  BY <1>1 DEF DocumentFits, RatingFits, RatesActive, RatingAsked
<1>6. CaptureFits(r)
  BY <1>1 DEF DocumentFits, CaptureFits, SameSetup
<1> QED BY <1>1, <1>2, <1>3, <1>4, <1>5, <1>6 DEF r, DocumentFits, Aside

LEMMA FreshFits ==
  ASSUME NEW s, NEW n, DocumentFits(s)
  PROVE  Aside(s, [s EXCEPT !.fresh.search = n]) /\ Aside(s, [s EXCEPT !.fresh.ambiguity = n])
<1> SUFFICES ASSUME NEW r \in {[s EXCEPT !.fresh.search = n], [s EXCEPT !.fresh.ambiguity = n]}
             PROVE  Aside(s, r)
  OBVIOUS
<1>1. /\ DOMAIN r = Fields /\ SameSetup(s, r) /\ r.active = s.active
      /\ r.flags = s.flags /\ r.pending = s.pending /\ r.playing = s.playing
      /\ r.answered = s.answered /\ r.latest = s.latest /\ r.topic = s.topic
  BY DocumentShape DEF Fields, SameSetup
<1> QED BY <1>1, DocumentShape, FitsBeside DEF PlayingFits

\* A phrase is asked about.
LEMMA ResolutionFits ==
  ASSUME NEW q \in Searches, NEW choice \in BOOLEAN PROVE Resolution(q, choice) \in Resolutions
BY DEF Resolution, Resolutions

LEMMA QuietAskSearch ==
  ASSUME NEW d, NEW c, NEW u, NEW q \in Searches, NEW choice \in BOOLEAN, Turns(d, c, u)
  PROVE  Quiet(d, c, AskSearch(u, q, choice))
<1> DEFINE k == "search_confirmation"
           s == u.doc
           e == Resolution(q, choice)
           a == [s EXCEPT !.topic = NoSearch]
           b == [a EXCEPT !.setup.community = FALSE]
           r == Activate(Hold(b, k, e), k, e)
           v == [u EXCEPT !.doc = r]
<1>1. DocumentFits(s)
  BY TurnFits
<1>2. Onward(s, a)
  BY <1>1, TopicFits, AsideOnward
<1>3. DocumentFits(a)
  BY <1>2, OnwardFits
<1> HIDE DEF a
<1>4. Onward(a, b)
  BY <1>3, SetupMarked
<1>5. DocumentFits(b)
  BY <1>4, OnwardFits
<1> HIDE DEF b
<1>6. k \in DialogTypes \ {"feedback", "onboarding"}
  BY DEF DialogTypes, Held
<1>7. ContextFits(k, e)
  BY ResolutionFits DEF ContextFits
<1> HIDE DEF e
<1>8. Onward(b, r)
  BY <1>5, <1>6, <1>7, AsideActivate, AsideOnward
<1> HIDE DEF r, s
<1>9. Onward(s, r)
  BY <1>2, <1>4, <1>8, OnwardTrans
<1>10. Turns(d, c, v)
  BY <1>9, TurnDoc DEF s
<1> HIDE DEF v
<1>11. Quiet(d, c, Says(v, k, q))
  BY <1>10, TurnSays
<1>12. [s EXCEPT !.topic = NoSearch, !.setup.community = FALSE] = b
  BY DEF a, b
<1> QED BY <1>11, <1>12 DEF AskSearch, v, r, e, s

LEMMA TurnFresh ==
  ASSUME NEW d, NEW c, NEW u, NEW n, Turns(d, c, u)
  PROVE  Turns(d, c, [u EXCEPT !.doc.fresh.search = n])
<1> DEFINE r == [u.doc EXCEPT !.fresh.search = n]
<1>1. Aside(u.doc, r)
  BY TurnFits, FreshFits
<1> HIDE DEF r
<1>2. Turns(d, c, [u EXCEPT !.doc = r])
  BY <1>1, TurnAside
<1> QED BY <1>2 DEF r

LEMMA QuietPresent ==
  ASSUME NEW d, NEW c, NEW u, NEW q \in Searches, Turns(d, c, u)
  PROVE  Quiet(d, c, Present(u, q))
<1> DEFINE v == [u EXCEPT !.doc.fresh.search = ResolutionLife]
           w == AskSearch(v, Named[q], TRUE)
           r == [w.doc EXCEPT !.topic = q]
           z == [w EXCEPT !.doc = r]
<1>1. Turns(d, c, v)
  BY TurnFresh
<1> HIDE DEF v
<1>2. Quiet(d, c, AskSearch(v, q, FALSE))
  BY <1>1, QuietAskSearch
<1>3. Named[q] \in Searches \union {NoSearch}
  BY FindingAssumption
<1>4. CASE Named[q] # NoSearch
  <2>1. Quiet(d, c, w)
    BY <1>1, <1>3, <1>4, QuietAskSearch
  <2> HIDE DEF w
  <2>2. Turns(d, c, w) /\ w.asked.kind # "confirm_city"
    BY <2>1 DEF Quiet
  <2>3. Aside(w.doc, r)
    BY <2>2, TurnFits, TopicFits
  <2> HIDE DEF r
  <2>4. Turns(d, c, z) /\ z.asked = w.asked
    BY <2>2, <2>3, TurnAside
  <2>5. Quiet(d, c, z)
    BY <2>2, <2>4 DEF Quiet
  <2>6. Present(u, q) = [w EXCEPT !.doc.topic = q]
    BY <1>4 DEF Present, v, w
  <2>7. z = [w EXCEPT !.doc.topic = q]
    BY DEF r
  <2> QED BY <2>5, <2>6, <2>7
<1>5. CASE Named[q] = NoSearch
  BY <1>2, <1>5 DEF Present, v
<1> QED BY <1>4, <1>5

LEMMA QuietTake ==
  ASSUME NEW d, NEW c, NEW u, NEW q \in Searches, Turns(d, c, u)
  PROVE  Quiet(d, c, Take(u, q))
BY QuietPresent, QuietBeginPlace DEF Take

\* The candidate for a town is forgotten, whatever is asked next.
LEMMA MeaningFits ==
  ASSUME NEW s, NEW c \in MeaningContexts, NEW n, DocumentFits(s)
  PROVE  LET held == Hold([ForgetTown(s) EXCEPT !.fresh.ambiguity = n], "ambiguity", c)
         IN  Onward(s, Activate(held, "ambiguity", c))
<1> DEFINE k == "ambiguity"
           b == ForgetTown(s)
           r == Activate(Hold([b EXCEPT !.fresh.ambiguity = n], k, c), k, c)
<1>1. /\ PartsFit(b) /\ b.stage = s.stage /\ b.city = s.city /\ b.onboarded = s.onboarded
      /\ b.known = s.known
  BY TownForgotten
<1> HIDE DEF b
<1>2. DOMAIN b = Fields /\ PlayingFits(b) /\ b.topic \in Searches \union {NoSearch}
  BY <1>1 DEF PartsFit, DialogFits
<1>3. /\ DOMAIN r = Fields /\ r.active = Fresh(k, c) /\ r.flags = {k} \intersect Flagged
      /\ r.pending = [b.pending EXCEPT ![k] = c] /\ r.topic = b.topic /\ SameSetup(b, r)
      /\ r.playing = b.playing /\ r.answered = b.answered /\ r.latest = b.latest
  BY <1>2 DEF Activate, Hold, Fields, SameSetup
<1>4. k \in DialogTypes /\ k \notin {"availability", "feedback", "onboarding"}
  BY DEF DialogTypes, Held
<1>5. ContextFits(k, c)
  BY DEF ContextFits
<1> HIDE DEF r
<1>6. PlayingFits(r)
  BY <1>2, <1>3 DEF PlayingFits
<1>7. r.topic \in Searches \union {NoSearch} /\ r.playing.item = b.playing.item
  BY <1>2, <1>3
<1> HIDE DEF k
<1>8. Aside(b, r)
  BY <1>1, <1>3, <1>4, <1>5, <1>6, <1>7, FitsOpened
<1>9. Onward(s, r)
  BY <1>1, <1>8 DEF Aside, SameSetup, Onward
<1> QED BY <1>9 DEF r, b, k

LEMMA FirstMeanings == [options |-> Meanings, offset |-> 0] \in MeaningContexts
<1>1. Len(Meanings) \in Nat
  BY FindingAssumption, LenProperties
<1> QED BY <1>1 DEF MeaningContexts

LEMMA QuietAskMeaning ==
  ASSUME NEW d, NEW c, NEW u, Turns(d, c, u)
  PROVE  Quiet(d, c, AskMeaning(u)) /\ Quiet(d, c, Unmatched(u))
<1> DEFINE e == [options |-> Meanings, offset |-> 0]
           r == Activate(Hold([ForgetTown(u.doc) EXCEPT !.fresh.ambiguity = ResolutionLife],
                              "ambiguity", e), "ambiguity", e)
           v == [u EXCEPT !.doc = r]
<1>1. e \in MeaningContexts /\ DocumentFits(u.doc)
  BY FirstMeanings, TurnFits
<1> HIDE DEF e
<1>2. Onward(u.doc, r)
  BY <1>1, MeaningFits
<1> HIDE DEF r
<1>3. Turns(d, c, v)
  BY <1>2, TurnDoc
<1> HIDE DEF v
<1>4. Quiet(d, c, Says(v, "ambiguity", NoItem))
  BY <1>3, TurnSays
<1>5. AskMeaning(u) = Says(v, "ambiguity", NoItem)
  BY DEF AskMeaning, v, r, e
<1>6. Quiet(d, c, Idle(u))
  BY TurnIdle
<1> QED BY <1>4, <1>5, <1>6 DEF Unmatched

\* Settling what an ambiguous phrase means.
LEMMA SettledFits ==
  ASSUME NEW s, DocumentFits(s), Waits(s)
  PROVE  Onward(s, Clear(ForgetTown(Release(s, "ambiguity")), {"ambiguity"}))
<1> DEFINE a == Release(s, "ambiguity")
           b == ForgetTown(a)
<1>1. Aside(s, a) /\ a.active = s.active
  BY AsideRelease, DocumentShape DEF Release, Hold, Fields
<1>2. ~(s.active.type = "onboarding" /\ s.setup.permission)
  BY DEF Waits, DocumentFits, CaptureFits
<1> HIDE DEF a
<1>3. DocumentFits(a) /\ ~(a.active.type = "onboarding" /\ a.setup.permission) /\ Onward(s, a)
  BY <1>1, <1>2, AsideOnward DEF Aside, SameSetup
<1>4. Onward(a, b)
  BY <1>3, TownForgotten
<1>5. DocumentFits(b)
  BY <1>4, OnwardFits
<1> HIDE DEF b
<1>6. Onward(b, Clear(b, {"ambiguity"}))
  BY <1>5, AsideClear, AsideOnward
<1>7. Onward(s, Clear(b, {"ambiguity"}))
  BY <1>3, <1>4, <1>6, OnwardTrans
<1> QED BY <1>7 DEF a, b

LEMMA TurnSettled ==
  ASSUME NEW d, NEW c, NEW u, Turns(d, c, u)
  PROVE  Turns(d, c, Settled(u))
<1> DEFINE r == Clear(ForgetTown(Release(u.doc, "ambiguity")), {"ambiguity"})
<1>1. Waits(u.doc) => Onward(u.doc, r)
  BY TurnFits, SettledFits
<1> HIDE DEF r
<1>2. Waits(u.doc) => Turns(d, c, [u EXCEPT !.doc = r])
  BY <1>1, TurnDoc
<1> QED BY <1>2 DEF Settled, r

LEMMA QuietDiscover ==
  ASSUME NEW d, NEW c, NEW u, NEW q \in Searches, Turns(d, c, u)
  PROVE  Quiet(d, c, Discover(u, q)) /\ Quiet(d, c, DiscoverSeveral(u))
<1>1. Turns(d, c, Settled(u))
  BY TurnSettled
<1>2. /\ Quiet(d, c, Take(Settled(u), q)) /\ Quiet(d, c, HearFound(Settled(u), q))
      /\ Quiet(d, c, Idle(u)) /\ Quiet(d, c, AskMeaning(u)) /\ Quiet(d, c, Unmatched(u))
  BY <1>1, QuietTake, QuietHear, TurnIdle, QuietAskMeaning
<1>3. Quiet(d, c, SettleMeaning(u, q))
  BY <1>2 DEF SettleMeaning
<1>4. u.world.lookup \in {"match", "several", "none", "down"}
  BY DEF Turns, Beneath
<1>5. Discover(u, q) \in {SettleMeaning(u, q), Idle(u), AskMeaning(u), Unmatched(u),
                          Take(Settled(u), q)}
  <2>1. CASE u.world.lookup = "down"
    BY <2>1 DEF Discover
  <2>2. CASE u.world.lookup = "several"
    BY <2>2 DEF Discover
  <2>3. CASE u.world.lookup = "none"
    BY <2>3 DEF Discover
  <2>4. CASE u.world.lookup = "match"
    BY <2>4 DEF Discover
  <2> QED BY <1>4, <2>1, <2>2, <2>3, <2>4
<1> QED BY <1>2, <1>3, <1>5 DEF DiscoverSeveral

\* Reading the meanings out a page at a time.
LEMMA QuietMeanings ==
  ASSUME NEW d, NEW c, NEW u, Turns(d, c, u), Waits(u.doc)
  PROVE  Quiet(d, c, MoreMeanings(u)) /\ Quiet(d, c, PreviousMeanings(u))
<1> DEFINE e == u.doc.pending["ambiguity"]
<1>1. DocumentFits(u.doc) /\ Len(Meanings) \in Nat /\ PageSize \in Nat \ {0}
  BY TurnFits, FindingAssumption, LenProperties
<1>2. e \in MeaningContexts
  <2>1. "ambiguity" \in Held
    BY DEF Held
  <2>2. ContextFits("ambiguity", e)
    BY <1>1, <2>1 DEF Waits, DocumentFits, DialogFits
  <2> QED BY <2>2 DEF ContextFits
<1>3. Quiet(d, c, Says(u, "ambiguity", NoItem))
  BY TurnSays
<1>4. ASSUME NEW n \in 0..Len(Meanings) PROVE Quiet(d, c, MeaningsFrom(u, n))
  <2> DEFINE m == [e EXCEPT !.offset = n]
             r == Activate(Hold(u.doc, "ambiguity", m), "ambiguity", m)
             v == [u EXCEPT !.doc = r]
  <2>1. m \in MeaningContexts
    <3> HIDE DEF e
    <3> QED BY <1>2 DEF MeaningContexts
  <2> HIDE DEF m
  <2>2. "ambiguity" \in DialogTypes \ {"feedback", "onboarding"} /\ ContextFits("ambiguity", m)
    BY <2>1 DEF ContextFits, DialogTypes, Held
  <2>3. Turns(d, c, v)
    BY <2>2, TurnOpens
  <2> HIDE DEF v, r
  <2>4. Quiet(d, c, Says(v, "ambiguity", NoItem))
    BY <2>3, TurnSays
  <2> QED BY <2>4 DEF MeaningsFrom, v, r, m
<1>5. e.offset \in 0..Len(Meanings)
  BY <1>2 DEF MeaningContexts
<1>6. e.offset + PageSize < Len(Meanings) => e.offset + PageSize \in 0..Len(Meanings)
  BY <1>1, <1>5
<1>7. (IF e.offset > PageSize THEN e.offset - PageSize ELSE 0) \in 0..Len(Meanings)
  BY <1>1, <1>5
<1>8. Quiet(d, c, PreviousMeanings(u))
  BY <1>3, <1>4, <1>7 DEF PreviousMeanings
<1>9. Quiet(d, c, MoreMeanings(u))
  <2>1. CASE e.offset + PageSize >= Len(Meanings)
    BY <1>3, <2>1 DEF MoreMeanings
  <2>2. CASE ~(e.offset + PageSize >= Len(Meanings))
    <3>1. e.offset + PageSize \in 0..Len(Meanings)
      BY <1>1, <1>5, <2>2
    <3>2. MoreMeanings(u) = MeaningsFrom(u, e.offset + PageSize)
      BY <2>2 DEF MoreMeanings
    <3> QED BY <1>4, <3>1, <3>2
  <2> QED BY <2>1, <2>2
<1> QED BY <1>8, <1>9

LEMMA QuietAskBroader ==
  ASSUME NEW d, NEW c, NEW u, NEW q \in Searches, Turns(d, c, u)
  PROVE  Quiet(d, c, AskBroader(u, q))
<1> DEFINE k == "search_confirmation"
           e == Relaxed(q)
           v == [u EXCEPT !.doc.fresh.search = ResolutionLife]
           r == Activate(Hold(v.doc, k, e), k, e)
           w == [v EXCEPT !.doc = r]
<1>1. Turns(d, c, v)
  BY TurnFresh
<1>2. DOMAIN u = TurnFields
  BY TurnFits
<1>3. v.doc = [u.doc EXCEPT !.fresh.search = ResolutionLife]
      /\ w = [u EXCEPT !.doc = r]
  BY <1>2 DEF TurnFields
<1>4. CASE Broader[q] # NoSearch
  <2>1. Broader[q] \in Searches
    BY <1>4, FindingAssumption
  <2>2. ContextFits(k, e)
    BY <2>1, ResolutionFits DEF ContextFits, Relaxed
  <2>3. k \in DialogTypes \ {"feedback", "onboarding"}
    BY DEF DialogTypes, Held
  <2>4. k # "availability"
    OBVIOUS
  <2> HIDE DEF e, v, k
  <2>5. Turns(d, c, w)
    BY <1>1, <2>2, <2>3, <2>4, TurnOpens
  <2> HIDE DEF w
  <2>6. Quiet(d, c, Says(w, "search_confirmation", Broader[q]))
    BY <2>5, TurnSays
  <2> HIDE DEF r
  <2>7. AskBroader(u, q) = Says(w, "search_confirmation", Broader[q])
    BY <1>3, <1>4 DEF AskBroader, r, e, k
  <2> QED BY <2>6, <2>7
<1>5. CASE Broader[q] = NoSearch
  BY <1>5, TurnIdle DEF AskBroader
<1> QED BY <1>4, <1>5

LEMMA QuietSearchCatalogue ==
  ASSUME NEW d, NEW c, NEW u, NEW q \in Searches, Turns(d, c, u)
  PROVE  Quiet(d, c, SearchCatalogue(u, q))
<1>1. Quiet(d, c, Hear(u, q)) /\ Quiet(d, c, AskBroader(u, q)) /\ Quiet(d, c, Idle(u))
  BY QuietHear, QuietAskBroader, TurnIdle
<1>2. SearchCatalogue(u, q) \in {Hear(u, q), AskBroader(u, q), Idle(u)}
  <2>1. CASE u.world.search = "plays"
    BY <2>1 DEF SearchCatalogue
  <2>2. CASE u.world.search = "empty"
    BY <2>2 DEF SearchCatalogue
  <2>3. CASE u.world.search \notin {"plays", "empty"}
    BY <2>3 DEF SearchCatalogue
  <2> QED BY <2>1, <2>2, <2>3
<1> QED BY <1>1, <1>2

LEMMA QuietExecute ==
  ASSUME NEW d, NEW c, NEW u, NEW q \in Searches, Turns(d, c, u)
  PROVE  Quiet(d, c, Execute(u, q))
<1> DEFINE s == SourceOf[q]
           v == Does(u, "search", q)
           found == SearchCatalogue(v, q)
<1>1. Turns(d, c, v)
  BY TurnDoes DEF RatedKinds
<1> HIDE DEF v
<1>2. Quiet(d, c, found) /\ Quiet(d, c, BeginPlace(v, q))
  BY <1>1, QuietSearchCatalogue, QuietBeginPlace
<1> HIDE DEF found
<1>3. s # NoSource => Quiet(d, c, BeginSource(v, s, found)) /\ Quiet(d, c, BeginEditions(v, s, found))
  <2>1. s # NoSource => s \in Sources
    BY FindingAssumption
  <2> QED BY <1>1, <1>2, <2>1, QuietBeginSource
<1>4. \/ Execute(u, q) \in {BeginPlace(v, q), found}
      \/ s # NoSource /\ Execute(u, q) \in {BeginSource(v, s, found), BeginEditions(v, s, found)}
  BY DEF Execute, v, found
<1> QED BY <1>2, <1>3, <1>4

\* The search that waits is run, or given up.
LEMMA ConfirmedFits ==
  ASSUME NEW s, DocumentFits(s), s.active.type # "onboarding"
  PROVE  /\ Onward(s, ClearConfirmed(s))
         /\ Onward(s, Clear(ForgetTown(Release(DropSearch(s), "ambiguity")),
                            {"search_confirmation"}))
<1> DEFINE a == DropSearch(s)
           b == [a EXCEPT !.topic = NoSearch]
           e == Release(a, "ambiguity")
<1>1. DocumentFits(a) /\ Aside(s, a) /\ a.active \in {NoDialog, s.active}
  BY ChoicesEnded DEF Near, Aside
<1>2. Aside(s, b) /\ b.active = a.active
  <2> HIDE DEF a
  <2>1. Aside(a, b) /\ b.active = a.active
    BY <1>1, TopicFits, DocumentShape DEF Fields
  <2> QED BY <1>1, <2>1, AsideTrans
<1>3. Aside(s, e) /\ e.active = a.active
  <2> HIDE DEF a
  <2>1. Aside(a, e) /\ e.active = a.active
    BY <1>1, AsideRelease, DocumentShape DEF Release, Hold, Fields
  <2> QED BY <1>1, <2>1, AsideTrans
<1> HIDE DEF a, b, e
<1>4. ASSUME NEW r, Aside(s, r), r.active = a.active
      PROVE  Onward(s, Clear(ForgetTown(r), {"search_confirmation"}))
  <2>1. DocumentFits(r) /\ r.active.type # "onboarding"
    BY <1>1, <1>4, AsideFits DEF NoDialog
  <2>2. Onward(r, ForgetTown(r))
    BY <2>1, TownForgotten
  <2>3. DocumentFits(ForgetTown(r))
    BY <2>2, OnwardFits
  <2>4. Onward(ForgetTown(r), Clear(ForgetTown(r), {"search_confirmation"}))
    BY <2>3, AsideClear, AsideOnward
  <2> QED BY <1>4, <2>2, <2>4, AsideOnward, OnwardTrans
<1> QED BY <1>2, <1>3, <1>4 DEF ClearConfirmed, a, b, e

LEMMA QuietConfirmSearch ==
  ASSUME NEW d, NEW c, NEW u, Turns(d, c, u), SearchWaits(u.doc)
  PROVE  Quiet(d, c, ConfirmSearch(u))
<1> DEFINE r == u.doc.pending["search_confirmation"]
           lowered == Lower(u.doc, "search_confirmation")
           dropped == DropSearch(u.doc)
           cleared == ClearConfirmed(u.doc)
           v == [u EXCEPT !.doc = cleared]
<1>1. DocumentFits(u.doc) /\ u.doc.active.type # "onboarding"
  BY TurnFits DEF SearchWaits
<1>2. r = NoContext \/ r.search \in Searches
  <2>1. "search_confirmation" \in Held
    BY DEF Held
  <2>2. r # NoContext => ContextFits("search_confirmation", r)
    BY <1>1, <2>1 DEF DocumentFits, DialogFits
  <2> QED BY <2>2 DEF ContextFits, Resolutions
<1>3. Onward(u.doc, lowered) /\ Onward(u.doc, dropped) /\ Onward(u.doc, cleared)
  BY <1>1, AsideLower, ChoicesEnded, ConfirmedFits, AsideOnward DEF Near
<1>4. \/ ConfirmSearch(u) \in {Idle([u EXCEPT !.doc = lowered]), Idle([u EXCEPT !.doc = dropped])}
      \/ r # NoContext /\ ConfirmSearch(u) = Execute(v, r.search)
  BY DEF ConfirmSearch
<1> HIDE DEF lowered, dropped, cleared, r
<1>5. /\ Turns(d, c, [u EXCEPT !.doc = lowered]) /\ Turns(d, c, [u EXCEPT !.doc = dropped])
      /\ Turns(d, c, v)
  BY <1>3, TurnDoc
<1> HIDE DEF v
<1>6. r # NoContext => Quiet(d, c, Execute(v, r.search))
  BY <1>2, <1>5, QuietExecute
<1>7. /\ Quiet(d, c, Idle([u EXCEPT !.doc = lowered]))
      /\ Quiet(d, c, Idle([u EXCEPT !.doc = dropped]))
  BY <1>5, TurnIdle
<1> QED BY <1>4, <1>6, <1>7

LEMMA QuietDeclineSearch ==
  ASSUME NEW d, NEW c, NEW u, Turns(d, c, u), SearchWaits(u.doc)
  PROVE  Quiet(d, c, DeclineSearch(u))
<1> DEFINE r == u.doc.pending["search_confirmation"]
           lowered == Lower(u.doc, "search_confirmation")
           gone == Clear(ForgetTown(Release(DropSearch(u.doc), "ambiguity")),
                         {"search_confirmation"})
<1>1. DocumentFits(u.doc) /\ u.doc.active.type # "onboarding"
  BY TurnFits DEF SearchWaits
<1>2. Onward(u.doc, lowered) /\ Onward(u.doc, gone)
  BY <1>1, AsideLower, ConfirmedFits, AsideOnward
<1>3. \/ DeclineSearch(u) \in {Idle([u EXCEPT !.doc = lowered]), Idle([u EXCEPT !.doc = gone])}
      \/ u.doc.topic # NoSearch /\ DeclineSearch(u) = AskSearch(u, u.doc.topic, FALSE)
  BY DEF DeclineSearch
<1> HIDE DEF lowered, gone
<1>4. Turns(d, c, [u EXCEPT !.doc = lowered]) /\ Turns(d, c, [u EXCEPT !.doc = gone])
  BY <1>2, TurnDoc
<1>5. /\ Quiet(d, c, Idle([u EXCEPT !.doc = lowered]))
      /\ Quiet(d, c, Idle([u EXCEPT !.doc = gone]))
  BY <1>4, TurnIdle
<1>6. u.doc.topic # NoSearch => u.doc.topic \in Searches
  BY <1>1 DEF DocumentFits, DialogFits
<1>7. u.doc.topic # NoSearch => Quiet(d, c, AskSearch(u, u.doc.topic, FALSE))
  BY <1>6, QuietAskSearch
<1> QED BY <1>3, <1>5, <1>7

\* Local content that waited for a town.
LEMMA QuietPlayCommunity ==
  ASSUME NEW d, NEW c, NEW u, Turns(d, c, u)
  PROVE  /\ Quiet(d, c, PlayCommunity(u))
         /\ c # NoTown => <<"list", "local">> \in PlayCommunity(u).effects
<1> DEFINE a == [u.doc EXCEPT !.setup.community = FALSE]
           b == DropSearch(a)
           r == Clear(b, {"search_confirmation"})
           v == [u EXCEPT !.doc = r]
<1>1. Onward(u.doc, a) /\ DocumentFits(a)
  BY TurnFits, SetupMarked, OnwardFits
<1> HIDE DEF a
<1>2. Onward(a, b) /\ DocumentFits(b)
  BY <1>1, ChoicesEnded, AsideOnward, OnwardFits DEF Near
<1> HIDE DEF b
<1>3. Onward(b, r)
  BY <1>2, AsideClear, AsideOnward
<1> HIDE DEF r
<1>4. Turns(d, c, v)
  BY <1>1, <1>2, <1>3, OnwardTrans, TurnDoc
<1> HIDE DEF v
<1>5. Quiet(d, c, BeginLocal(v)) /\ (c # NoTown => <<"list", "local">> \in BeginLocal(v).effects)
  BY <1>4, QuietBeginLocal
<1> QED BY <1>5 DEF PlayCommunity, v, r, b, a

LEMMA ShapeFits == ASSUME NEW p PROVE SearchOf[Shape(p)] \in Searches
<1>1. Shape(p) \in Shapes
  BY DEF Shape, Shapes
<1> QED BY <1>1, SourcesAssumption

LEMMA QuietWords ==
  ASSUME NEW d, NEW c, NEW u, Turns(d, c, u)
  PROVE  Quiet(d, c, DiscoverWords(u))
<1> DEFINE v == Does(u, "heard", u.world.heard)
           p == Payload(u.world.heard.entities, u.world.heard.service, FALSE)
<1>1. Turns(d, c, v)
  BY TurnDoes DEF RatedKinds
<1> HIDE DEF v, p
<1>2. Quiet(d, c, AskMeaning(v)) /\ Quiet(d, c, Idle(v)) /\ Quiet(d, c, Take(v, SearchOf[Shape(p)]))
  BY <1>1, QuietAskMeaning, TurnIdle, QuietTake, ShapeFits
<1>3. Quiet(d, c, Decide(v, p))
  BY <1>2 DEF Decide
<1> QED BY <1>3 DEF DiscoverWords, v, p

LEMMA QuietAskFor ==
  ASSUME NEW d, NEW c, NEW u, NEW k \in {"organization_name", "publication_source", "asr_repair"},
         Turns(d, c, u)
  PROVE  Quiet(d, c, AskFor(u, k))
<1>1. k \in DialogTypes \ {"feedback", "onboarding"} /\ k \notin Held /\ k # "availability"
  BY DEF DialogTypes, Held, Flagged, Transient
<1>2. Turns(d, c, [u EXCEPT !.doc = Activate(u.doc, k, NoContext)])
  BY <1>1, TurnOpens
<1> QED BY <1>2, TurnSays DEF AskFor

LEMMA RaisedFits ==
  ASSUME NEW s, DocumentFits(s) PROVE Aside(s, Raise(s, "organization_name"))
<1> DEFINE r == Raise(s, "organization_name")
<1>1. /\ DOMAIN r = Fields /\ SameSetup(s, r) /\ r.active = s.active
      /\ r.flags = s.flags \union {"organization_name"} /\ r.pending = s.pending
      /\ r.topic = s.topic /\ r.playing = s.playing /\ r.answered = s.answered
      /\ r.latest = s.latest
  BY DocumentShape DEF Raise, Fields, SameSetup
<1> HIDE DEF r
<1>2. r.flags \subseteq Flagged /\ (RatingAsked(r) <=> RatingAsked(s))
  BY <1>1 DEF DocumentFits, DialogFits, Flagged, RatingAsked
<1>3. DialogFits(r)
  BY <1>1, <1>2 DEF DocumentFits, DialogFits
<1>4. SetupFits(r)
  BY <1>1 DEF DocumentFits, SetupFits, SameSetup
<1>5. PlayingFits(r)
  BY <1>1 DEF DocumentFits, PlayingFits
<1>6. RatingFits(r)
  BY <1>1, <1>2 DEF DocumentFits, RatingFits, RatesActive
<1>7. CaptureFits(r)
  BY <1>1 DEF DocumentFits, CaptureFits, SameSetup
<1> QED BY <1>1, <1>3, <1>4, <1>5, <1>6, <1>7 DEF r, DocumentFits, Aside

LEMMA QuietRepair ==
  ASSUME NEW d, NEW c, NEW u, Turns(d, c, u)
  PROVE  Quiet(d, c, RepairYes(u)) /\ Quiet(d, c, RepairNo(u))
<1> DEFINE a == Clear(u.doc, {"asr_repair"})
           b == Raise(a, "organization_name")
<1>1. Onward(u.doc, a) /\ DocumentFits(a)
  BY TurnFits, AsideClear, AsideOnward, OnwardFits
<1> HIDE DEF a
<1>2. Onward(a, b)
  BY <1>1, RaisedFits, AsideOnward
<1> HIDE DEF b
<1>3. Turns(d, c, [u EXCEPT !.doc = a]) /\ Turns(d, c, [u EXCEPT !.doc = b])
  BY <1>1, <1>2, OnwardTrans, TurnDoc
<1>4. Quiet(d, c, AskNewspaper([u EXCEPT !.doc = b])) /\ Quiet(d, c, Idle([u EXCEPT !.doc = a]))
  BY <1>3, QuietAskFor, TurnIdle DEF AskNewspaper
<1> QED BY <1>4 DEF RepairYes, RepairNo, b, a

LEMMA QuietAnySource ==
  ASSUME NEW d, NEW c, NEW u, NEW kind, Turns(d, c, u)
  PROVE  Quiet(d, c, AnySource(u, kind))
<1> DEFINE v == [u EXCEPT !.doc = Clear(u.doc, {"organization_name"})]
<1>1. Turns(d, c, v)
  BY TurnFits, AsideClear, TurnAside
<1> HIDE DEF v
<1>2. /\ Quiet(d, c, AskNewspaper(u)) /\ Quiet(d, c, AskRepair(u)) /\ Quiet(d, c, AskPublication(u))
      /\ Quiet(d, c, AskCreatorCity(u)) /\ Quiet(d, c, Idle(v))
  BY <1>1, QuietAskFor, QuietCreators, TurnIdle DEF AskNewspaper, AskRepair, AskPublication
<1>3. AnySource(u, kind) \in {AskNewspaper(u), AskRepair(u), AskPublication(u), AskCreatorCity(u),
                              Idle(v)}
  <2>1. CASE kind \in {"organization", "repair", "publication", "creator"}
    BY <2>1 DEF AnySource
  <2>2. CASE kind \notin {"organization", "repair", "publication", "creator"}
    BY <2>2 DEF AnySource, v
  <2> QED BY <2>1, <2>2
<1> QED BY <1>2, <1>3

LEMMA QuietPlaySource ==
  ASSUME NEW d, NEW c, NEW u, NEW kind, NEW q, Turns(d, c, u)
  PROVE  Quiet(d, c, PlaySource(u, kind, q))
<1>1. /\ Quiet(d, c, Idle(u)) /\ Quiet(d, c, AskMeaning(u)) /\ Quiet(d, c, NotRecognised(u, kind))
      /\ q \in Searches => Quiet(d, c, Take(u, q))
  BY TurnIdle, QuietAskMeaning, QuietAskFor, QuietHear, QuietTake DEF NotRecognised, AskNewspaper
<1>2. \/ PlaySource(u, kind, q) \in {Idle(u), AskMeaning(u), NotRecognised(u, kind)}
      \/ q \in Searches /\ PlaySource(u, kind, q) = Take(u, q)
  <2>1. CASE u.world.lookup = "down"
    BY <2>1 DEF PlaySource
  <2>2. CASE u.world.lookup = "several"
    BY <2>2 DEF PlaySource
  <2>3. CASE u.world.lookup = "match" /\ q \in Searches
    BY <2>3 DEF PlaySource
  <2>4. CASE u.world.lookup \notin {"down", "several"} /\ ~(u.world.lookup = "match" /\ q \in Searches)
    BY <2>4 DEF PlaySource
  <2> QED BY <2>1, <2>2, <2>3, <2>4
<1> QED BY <1>1, <1>2

LEMMA QuietAnswerName ==
  ASSUME NEW d, NEW c, NEW u, NEW k, NEW q, Turns(d, c, u)
  PROVE  Quiet(d, c, AnswerName(u, k, q))
<1> DEFINE kind == IF k = "organization_name" THEN "organization" ELSE "publication"
           v == [u EXCEPT !.doc = Clear(u.doc, {k})]
<1>1. Turns(d, c, v)
  BY TurnFits, AsideClear, TurnAside
<1> HIDE DEF v
<1>2. q \in Searches => Wanted(kind, q) \in Searches
  BY FindingAssumption DEF Wanted
<1>3. /\ Quiet(d, c, PlaySource(u, kind, q)) /\ Quiet(d, c, Idle(v))
      /\ q \in Searches => Quiet(d, c, Present(v, Wanted(kind, q)))
  BY <1>1, <1>2, QuietPlaySource, TurnIdle, QuietPresent
<1>4. \/ AnswerName(u, k, q) \in {PlaySource(u, kind, q), Idle(v)}
      \/ q \in Searches /\ AnswerName(u, k, q) = Present(v, Wanted(kind, q))
  BY DEF AnswerName, v
<1> QED BY <1>3, <1>4

LEMMA QuietFindSource ==
  ASSUME NEW d, NEW c, NEW u, NEW kind, NEW q \in Searches, Turns(d, c, u)
  PROVE  Quiet(d, c, FindSource(u, kind, q))
<1> DEFINE v == [u EXCEPT !.doc = Lower(u.doc, "organization_name")]
<1>1. Turns(d, c, v)
  BY TurnFits, AsideLower, TurnAside
<1> HIDE DEF v
<1>2. /\ Quiet(d, c, Idle(u)) /\ Quiet(d, c, Idle(v)) /\ Quiet(d, c, AskMeaning(u))
      /\ Quiet(d, c, Present(u, q)) /\ Quiet(d, c, AskCreatorCity(u))
  BY <1>1, TurnIdle, QuietAskMeaning, QuietPresent, QuietCreators
<1>3. Unresolved(u, kind) \in {Idle(v), AskCreatorCity(u), Idle(u)}
  <2>1. CASE kind = "organization"
    BY <2>1 DEF Unresolved, v
  <2>2. CASE kind = "creator"
    BY <2>2 DEF Unresolved
  <2>3. CASE kind \notin {"organization", "creator"}
    BY <2>3 DEF Unresolved
  <2> QED BY <2>1, <2>2, <2>3
<1>4. FindSource(u, kind, q) \in {Idle(u), AskMeaning(u), Present(u, q), Unresolved(u, kind)}
  <2>1. CASE u.world.lookup = "down"
    BY <2>1 DEF FindSource
  <2>2. CASE u.world.lookup = "several"
    BY <2>2 DEF FindSource
  <2>3. CASE u.world.lookup = "match" /\ KindOf[q] \in SourceTypes
    BY <2>3 DEF FindSource
  <2>4. CASE u.world.lookup \notin {"down", "several"}
             /\ ~(u.world.lookup = "match" /\ KindOf[q] \in SourceTypes)
    BY <2>4 DEF FindSource
  <2> QED BY <2>1, <2>2, <2>3, <2>4
<1> QED BY <1>2, <1>3, <1>4

-----------------------------------------------------------------------------
(* Operators of Setup on a turn. *)

\* A setup that goes on asks for something.
LEMMA TownWanted ==
  ASSUME NEW s, NEW q \in Setups, NEW stage \in {"ask_permission", "ask_town"}, DocumentFits(s),
         q.permission => /\ s.setup.permission /\ ~q.profileActive
                         /\ s.pending["ambiguity"] = NoContext
  PROVE  LET r == [s EXCEPT !.stage = stage, !.setup = q]
         IN  Onward(s, AskTown(r)) /\ AskTown(r).setup = q /\ AskTown(r).stage = stage
<1> DEFINE r == [s EXCEPT !.stage = stage, !.setup = q]
<1>1. /\ DOMAIN r = Fields /\ r.stage = stage /\ r.setup = q /\ r.city = s.city
      /\ r.onboarded = s.onboarded /\ r.known = s.known /\ r.pending = s.pending /\ SameDialog(s, r)
  BY DocumentShape DEF Fields, SameDialog
<1>2. stage \in Stages /\ stage \notin {"none", "await_location_confirm"}
  BY DEF Stages
<1>3. PartsFit(s) /\ SetupFits(s)
  BY FitsParts DEF DocumentFits
<1> HIDE DEF r
<1>4. SetupFits(r)
  BY <1>1, <1>2, <1>3 DEF SetupFits
<1>5. PartsFit(r) /\ Capturable(r)
  BY <1>1, <1>3, <1>4, PartsSetUp DEF Capturable
<1>6. Aside(r, AskTown(r))
  BY <1>1, <1>2, <1>5, TownAsked
<1>7. Onward(s, AskTown(r)) /\ AskTown(r).setup = q /\ AskTown(r).stage = stage
  BY <1>1, <1>2, <1>6 DEF Aside, SameSetup, Onward
<1> QED BY <1>7 DEF r

\* A setup that ends without a town.
LEMMA SetupEnds ==
  ASSUME NEW s, DocumentFits(s) PROVE Onward(s, EndTown(CompleteWithoutLocation(s)))
<1> DEFINE a == CompleteWithoutLocation(s)
<1>1. Onward(s, a)
  <2>1. DeviceTown \in Towns /\ TRUE \in BOOLEAN
    BY FindingAssumption
  <2> QED BY <2>1, CompletedFits
<1> HIDE DEF a
<1>2. Onward(a, EndTown(a))
  BY <1>1, OnwardFits, FitsParts, TownEnded, AsideOnward
<1> QED BY <1>1, <1>2, OnwardTrans DEF a

LEMMA QuietPermission ==
  ASSUME NEW d, NEW c, NEW u, Turns(d, c, u)
  PROVE  /\ IsNew(u.doc) => Quiet(d, c, AskForPermission(u))
         /\ Quiet(d, c, HandlePermissionNo(u))
<1> DEFINE s == u.doc
           a == [s EXCEPT !.stage = "ask_permission"]
           r == AskTown(a)
           v == [u EXCEPT !.doc = r]
           e == EndTown(CompleteWithoutLocation(s))
           w == [u EXCEPT !.doc = e]
<1>1. DocumentFits(s) /\ s.setup \in Setups /\ DOMAIN s = Fields
  BY TurnFits, DocumentShape DEF DocumentFits, SetupFits
<1>2. Onward(s, e)
  BY <1>1, SetupEnds
<1> HIDE DEF e
<1>3. Turns(d, c, w)
  BY <1>2, TurnDoc
<1> HIDE DEF w
<1>4. Quiet(d, c, HandlePermissionNo(u))
  BY <1>3, TurnIdle DEF HandlePermissionNo, w, e
<1>5. ASSUME IsNew(u.doc) PROVE Quiet(d, c, AskForPermission(u))
  <2>1. ~s.setup.permission
    BY <1>1, <1>5 DEF IsNew, DocumentFits, SetupFits
  <2>2. a = [s EXCEPT !.stage = "ask_permission", !.setup = s.setup]
    BY <1>1 DEF Fields
  <2> HIDE DEF s, a
  <2>3. Onward(s, AskTown([s EXCEPT !.stage = "ask_permission", !.setup = s.setup]))
    BY <1>1, <2>1, TownWanted
  <2>4. Onward(s, r)
    BY <2>2, <2>3
  <2> HIDE DEF r
  <2>5. Turns(d, c, v)
    BY <2>4, TurnDoc DEF s
  <2> HIDE DEF v
  <2>6. Quiet(d, c, Says(v, "permission", NoItem))
    BY <2>5, TurnSays
  <2> QED BY <2>6 DEF AskForPermission, v, r, a, s
<1> QED BY <1>4, <1>5

\* Replies that are not understood, and lookups that fail.
LEMMA QuietResumeCapture ==
  ASSUME NEW d, NEW c, NEW u, Turns(d, c, u) PROVE Quiet(d, c, ResumeTownCapture(u))
<1> DEFINE s == u.doc
           n == s.setup.attempts + 1
           a == [s EXCEPT !.setup.attempts = n]
           e == EndTown(CompleteWithoutLocation(s))
<1>1. DocumentFits(s) /\ s.setup \in Setups /\ DOMAIN s = Fields /\ DOMAIN u = TurnFields
  BY TurnFits, DocumentShape DEF DocumentFits, SetupFits
<1>2. n \in Nat \ {0} /\ DOMAIN s.setup = {"attempts", "failures", "candidate", "choices",
         "consent", "permission", "profileTown", "profileActive", "community"}
  BY <1>1, SetupShape
<1>3. CompleteWithoutLocation(a) = CompleteWithoutLocation(s)
  <2> DEFINE over(q) == [q EXCEPT !.attempts = 0, !.failures = 0, !.candidate = NoTown,
                                   !.choices = <<>>]
             done(x) == [x EXCEPT !.stage = "none", !.onboarded = TRUE, !.setup = over(x.setup)]
  <2> HIDE DEF s, n
  <2>1. a.setup = [s.setup EXCEPT !.attempts = n] /\ DOMAIN a = Fields
    BY <1>1 DEF Fields
  <2>2. over(a.setup) = over(s.setup)
    <3>1. over([s.setup EXCEPT !.attempts = n]) = over(s.setup)
      BY <1>2
    <3> QED BY <2>1, <3>1
  <2>3. done(a) = done(s)
    <3> HIDE DEF over
    <3> QED BY <1>1, <2>1, <2>2 DEF Fields
  <2>4. CompleteWithoutLocation(a) = done(a)
    <3> HIDE DEF a
    <3> QED BY <2>1 DEF CompleteWithoutLocation, Fields
  <2>5. CompleteWithoutLocation(s) = done(s)
    BY <1>1 DEF CompleteWithoutLocation, Fields
  <2> QED BY <2>3, <2>4, <2>5
<1>4. \/ n >= MaxTownAttempts /\ ResumeTownCapture(u) = Idle([u EXCEPT !.doc = e])
      \/ ~(n >= MaxTownAttempts) /\ ResumeTownCapture(u) = AsksTown([u EXCEPT !.doc = a])
  <2> DEFINE noted == [u EXCEPT !.doc.setup.attempts = n]
  <2>1. noted = [u EXCEPT !.doc = a] /\ noted.doc = a
    BY <1>1 DEF TurnFields
  <2>2. [noted EXCEPT !.doc = EndTown(CompleteWithoutLocation(noted.doc))] = [u EXCEPT !.doc = e]
    <3> HIDE DEF a
    <3>1. [noted EXCEPT !.doc = e] = [u EXCEPT !.doc = e]
      <4> HIDE DEF e
      <4> QED BY <1>1, <2>1 DEF TurnFields
    <3> HIDE DEF noted
    <3> QED BY <1>3, <2>1, <3>1
  <2>3. \/ n >= MaxTownAttempts /\ ResumeTownCapture(u)
                = Idle([noted EXCEPT !.doc = EndTown(CompleteWithoutLocation(noted.doc))])
        \/ ~(n >= MaxTownAttempts) /\ ResumeTownCapture(u) = AsksTown(noted)
    BY DEF ResumeTownCapture
  <2> HIDE DEF noted
  <2> QED BY <2>1, <2>2, <2>3
<1>5. Onward(s, e)
  BY <1>1, SetupEnds
<1>6. ~(n >= MaxTownAttempts) => Onward(s, a)
  <2>1. ~(n >= MaxTownAttempts) => n \in 0..(MaxTownAttempts - 1)
    BY <1>2, SetupAssumption
  <2> HIDE DEF n
  <2> QED BY <1>1, <2>1, SetupCounted
<1> HIDE DEF e, a, n
<1>7. Quiet(d, c, Idle([u EXCEPT !.doc = e]))
  BY <1>5, TurnDoc, TurnIdle
<1>8. ~(n >= MaxTownAttempts) => Quiet(d, c, AsksTown([u EXCEPT !.doc = a]))
  BY <1>6, TurnDoc, TurnSays DEF AsksTown
<1> QED BY <1>4, <1>7, <1>8

LEMMA QuietUnavailable ==
  ASSUME NEW d, NEW c, NEW u, Turns(d, c, u), Capturable(u.doc)
  PROVE  Quiet(d, c, TownResolverUnavailable(u))
<1> DEFINE s == u.doc
           n == s.setup.failures + 1
           q == [s.setup EXCEPT !.failures = n]
           a == [s EXCEPT !.stage = "ask_town", !.setup = q]
           r == AskTown(a)
           e == EndTown(CompleteWithoutLocation(s))
<1>1. DocumentFits(s) /\ s.setup \in Setups /\ DOMAIN s = Fields /\ SetupFits(s)
  BY TurnFits, DocumentShape DEF DocumentFits, SetupFits
<1>2. n \in Nat \ {0}
  BY <1>1, SetupShape
<1>3. n < MaxTownFailures => n \in 0..(MaxTownFailures - 1)
  BY <1>2, SetupAssumption
<1>4. n < MaxTownFailures => q \in Setups
  <2> HIDE DEF n
  <2> QED BY <1>1, <1>3, SetupsEdited
<1>5. q.permission = s.setup.permission /\ q.profileActive = s.setup.profileActive
  <2> HIDE DEF n
  <2> QED BY <1>1, SetupShape
<1>6. [s EXCEPT !.stage = "ask_town", !.setup.failures = n] = a
  <2> HIDE DEF n, s
  <2> QED BY <1>1 DEF Fields
<1>7. q.permission => /\ s.setup.permission /\ ~q.profileActive
                      /\ s.pending["ambiguity"] = NoContext
  <2> HIDE DEF q
  <2> QED BY <1>1, <1>5 DEF SetupFits, Capturable
<1>8. TownResolverUnavailable(u) = IF n < MaxTownFailures THEN AsksTown([u EXCEPT !.doc = r])
                                   ELSE Idle([u EXCEPT !.doc = e])
  BY <1>6 DEF TownResolverUnavailable
<1> HIDE DEF n, q, s
<1>9. n < MaxTownFailures => Onward(s, r)
  BY <1>1, <1>4, <1>7, TownWanted
<1>10. Onward(s, e)
  BY <1>1, SetupEnds
<1> HIDE DEF a, r, e
<1>11. Quiet(d, c, Idle([u EXCEPT !.doc = e]))
  BY <1>10, TurnDoc, TurnIdle DEF s
<1>12. n < MaxTownFailures => Quiet(d, c, AsksTown([u EXCEPT !.doc = r]))
  BY <1>9, TurnDoc, TurnSays DEF AsksTown, s
<1> QED BY <1>8, <1>11, <1>12

\* The listener skips the town: the profile ends, the local content is forgotten, or the
\* listener is asked for a profile.
LEMMA SkippedFits ==
  ASSUME NEW s, DocumentFits(s)
  PROVE  LET a == CompleteWithoutLocation(s)
         IN  /\ Onward(s, EndTown(EndProfile(a)))
             /\ Onward(s, EndTown([a EXCEPT !.setup.community = FALSE,
                                            !.setup.permission = FALSE]))
             /\ ~s.setup.profileActive => Onward(s, EndTown([a EXCEPT !.setup.permission = TRUE]))
<1> DEFINE a == CompleteWithoutLocation(s)
           p == EndProfile(a)
           k == [a EXCEPT !.setup.community = FALSE]
           l == [k EXCEPT !.setup.permission = FALSE]
           q == [a.setup EXCEPT !.permission = TRUE]
           x == [a EXCEPT !.setup = q]
<1>1. DeviceTown \in Towns /\ TRUE \in BOOLEAN /\ FALSE \in BOOLEAN
  BY FindingAssumption
<1>2. Onward(s, a) /\ Ended(s, a) /\ a.onboarded
  BY <1>1, CompletedFits
<1> HIDE DEF a
<1>3. DocumentFits(a) /\ a.setup \in Setups /\ DOMAIN a = Fields /\ SetupFits(a) /\ PartsFit(a)
  BY <1>2, OnwardFits, DocumentShape, FitsParts DEF DocumentFits, SetupFits
<1>4. Onward(s, EndTown(p))
  <2>1. Onward(a, p)
    BY <1>3, ProfileEnded
  <2> HIDE DEF p
  <2>2. Onward(p, EndTown(p))
    BY <2>1, OnwardFits, FitsParts, TownEnded, AsideOnward
  <2> QED BY <1>2, <2>1, <2>2, OnwardTrans
<1>5. Onward(s, EndTown(l))
  <2>1. Onward(a, k)
    BY <1>1, <1>3, SetupMarked
  <2> HIDE DEF k
  <2>2. Onward(k, l)
    BY <2>1, OnwardFits, SetupMarked
  <2> HIDE DEF l
  <2>3. Onward(l, EndTown(l))
    BY <2>2, OnwardFits, FitsParts, TownEnded, AsideOnward
  <2> QED BY <1>2, <2>1, <2>2, <2>3, OnwardTrans
<1>6. ASSUME ~s.setup.profileActive PROVE Onward(s, EndTown(x))
  <2>1. q \in Setups
    BY <1>1, <1>3, SetupsEdited
  <2>2. q.profileActive = FALSE
    BY <1>2, <1>3, <1>6, SetupShape DEF Ended
  <2>3. /\ DOMAIN x = Fields /\ x.setup = q /\ x.stage = a.stage /\ x.city = a.city
        /\ x.onboarded = a.onboarded /\ x.known = a.known /\ SameDialog(a, x)
    BY <1>3 DEF Fields, SameDialog
  <2> HIDE DEF q, x
  <2>4. SetupFits(x)
    BY <1>2, <1>3, <2>1, <2>2, <2>3 DEF SetupFits
  <2>5. Aside(x, EndTown(x))
    BY <1>3, <2>3, <2>4, PartsSetUp, TownEnded
  <2>6. Onward(a, EndTown(x))
    BY <1>2, <2>3, <2>5 DEF Aside, SameSetup, Onward
  <2> QED BY <1>2, <2>6, OnwardTrans
<1>7. [a EXCEPT !.setup.community = FALSE, !.setup.permission = FALSE] = l
      /\ [a EXCEPT !.setup.permission = TRUE] = x
  OBVIOUS
<1> HIDE DEF p, l, x
<1>8. /\ Onward(s, EndTown(EndProfile(a)))
      /\ Onward(s, EndTown([a EXCEPT !.setup.community = FALSE, !.setup.permission = FALSE]))
      /\ ~s.setup.profileActive => Onward(s, EndTown([a EXCEPT !.setup.permission = TRUE]))
  BY <1>4, <1>5, <1>6, <1>7 DEF p
<1> QED BY <1>8 DEF a

LEMMA QuietTownSkipped ==
  ASSUME NEW d, NEW c, NEW u, Turns(d, c, u) PROVE Quiet(d, c, FinalizeTownSkipped(u))
<1> DEFINE s == u.doc
           a == CompleteWithoutLocation(s)
           p == EndTown(EndProfile(a))
           l == EndTown([a EXCEPT !.setup.community = FALSE, !.setup.permission = FALSE])
           x == EndTown([a EXCEPT !.setup.permission = TRUE])
<1>1. DocumentFits(s) /\ DOMAIN u = TurnFields /\ s.setup \in Setups
  BY TurnFits DEF DocumentFits, SetupFits
<1>2. Onward(s, p) /\ Onward(s, l) /\ (~s.setup.profileActive => Onward(s, x))
  BY <1>1, SkippedFits
<1>3. s.setup.profileActive \in BOOLEAN /\ s.setup.community \in BOOLEAN
  BY <1>1, SetupShape
<1>4. \/ FinalizeTownSkipped(u) \in {Idle([u EXCEPT !.doc = p]), Idle([u EXCEPT !.doc = l])}
      \/ ~s.setup.profileActive
         /\ FinalizeTownSkipped(u) = Says([u EXCEPT !.doc = x], "profile", NoItem)
  <2> DEFINE done == [u EXCEPT !.doc = a]
  <2>1. \A r : [done EXCEPT !.doc = r] = [u EXCEPT !.doc = r]
    <3> HIDE DEF a
    <3> QED BY <1>1 DEF TurnFields
  <2>2. done.doc = a
    <3> HIDE DEF a
    <3> QED BY <1>1 DEF TurnFields
  <2>3. /\ [done EXCEPT !.doc = EndTown(EndProfile(done.doc))] = [u EXCEPT !.doc = p]
        /\ [done EXCEPT !.doc = EndTown([done.doc EXCEPT !.setup.community = FALSE,
                                                         !.setup.permission = FALSE])]
             = [u EXCEPT !.doc = l]
        /\ [done EXCEPT !.doc = EndTown([done.doc EXCEPT !.setup.permission = TRUE])]
             = [u EXCEPT !.doc = x]
    <3> HIDE DEF done, a
    <3> QED BY <2>1, <2>2
  <2>4. CASE s.setup.profileActive
    <3>1. FinalizeTownSkipped(u) = Idle([done EXCEPT !.doc = EndTown(EndProfile(done.doc))])
      BY <2>4 DEF FinalizeTownSkipped
    <3> HIDE DEF done, p
    <3> QED BY <2>3, <3>1
  <2>5. CASE ~s.setup.profileActive /\ s.setup.community
    <3>1. FinalizeTownSkipped(u)
            = Idle([done EXCEPT !.doc = EndTown([done.doc EXCEPT !.setup.community = FALSE,
                                                                 !.setup.permission = FALSE])])
      BY <2>5 DEF FinalizeTownSkipped
    <3> HIDE DEF done, l
    <3> QED BY <2>3, <3>1
  <2>6. CASE ~s.setup.profileActive /\ ~s.setup.community
    <3>1. FinalizeTownSkipped(u)
            = Says([done EXCEPT !.doc = EndTown([done.doc EXCEPT !.setup.permission = TRUE])],
                   "profile", NoItem)
      BY <2>6 DEF FinalizeTownSkipped
    <3> HIDE DEF done, x
    <3> QED BY <2>3, <2>6, <3>1
  <2> QED BY <1>3, <2>4, <2>5, <2>6
<1> HIDE DEF a, p, l, x
<1>5. Quiet(d, c, Idle([u EXCEPT !.doc = p])) /\ Quiet(d, c, Idle([u EXCEPT !.doc = l]))
  BY <1>2, TurnDoc, TurnIdle
<1>6. ~s.setup.profileActive => Quiet(d, c, Says([u EXCEPT !.doc = x], "profile", NoItem))
  BY <1>2, TurnDoc, TurnSays
<1> QED BY <1>4, <1>5, <1>6

\* If the turn asks for a town to be confirmed, it is the one that a yes would save.
Confirms(d, c, u) == Turns(d, c, u) /\ ConfirmFits(u.asked, u.doc)

LEMMA QuietConfirms ==
  ASSUME NEW d, NEW c, NEW u, Quiet(d, c, u) PROVE Confirms(d, c, u)
BY DEF Quiet, Confirms, ConfirmFits

LEMMA TownStaged ==
  ASSUME NEW s, DocumentFits(s) PROVE Onward(s, [s EXCEPT !.stage = "ask_town"])
<1> DEFINE r == [s EXCEPT !.stage = "ask_town"]
<1>1. /\ DOMAIN r = Fields /\ r.stage = "ask_town" /\ r.setup = s.setup /\ r.city = s.city
      /\ r.onboarded = s.onboarded /\ r.known = s.known /\ SameDialog(s, r)
  BY DocumentShape DEF Fields, SameDialog
<1> HIDE DEF r
<1>2. SetupFits(r)
  BY <1>1 DEF DocumentFits, SetupFits, Stages
<1>3. DocumentFits(r)
  BY <1>1, <1>2, FitsSetUp
<1> QED BY <1>1, <1>3 DEF r, Onward

LEMMA TownNamed ==
  ASSUME NEW s, DocumentFits(s), Capturable(s), NEW town \in Towns
  PROVE  LET r == AskTown(AwaitConfirmation(s, town))
         IN  Onward(s, r) /\ r.stage = "await_location_confirm" /\ r.setup.candidate = town
<1> DEFINE a == AwaitConfirmation(s, town)
<1>1. Onward(s, a) /\ Capturable(a) /\ a.stage = "await_location_confirm" /\ a.setup.candidate = town
  BY TownAwaited
<1> HIDE DEF a
<1>2. town # NoTown
  BY FindingAssumption
<1>3. PartsFit(a)
  BY <1>1, OnwardFits, FitsParts
<1>4. Aside(a, AskTown(a))
  BY <1>1, <1>2, <1>3, TownAsked
<1>5. Onward(s, AskTown(a))
  BY <1>1, <1>4, AsideOnward, OnwardTrans
<1>6. AskTown(a).stage = "await_location_confirm" /\ AskTown(a).setup.candidate = town
  BY <1>1, <1>4 DEF Aside, SameSetup
<1> QED BY <1>5, <1>6 DEF a

LEMMA TownFoundConfirms ==
  ASSUME NEW d, NEW c, NEW u, NEW reply, NEW picked, Turns(d, c, u), Capturable(u.doc),
         picked => reply \in Towns
  PROVE  Confirms(d, c, TownFound(u, reply, picked))
<1> DEFINE s == u.doc
           a == [s EXCEPT !.setup.failures = 0]
           kept == [u EXCEPT !.doc = a]
           r == AskTown(AwaitConfirmation(a, reply))
           several == {x \in TownChoices : \E k \in DOMAIN x : x[k] = reply}
           choices == CHOOSE x \in several : TRUE
           b == [a EXCEPT !.setup.choices = choices]
           e == [b EXCEPT !.stage = "ask_town"]
<1>1. DocumentFits(s) /\ DOMAIN u = TurnFields /\ DOMAIN s = Fields
  BY TurnFits, DocumentShape
<1>2. Onward(s, a) /\ Capturable(a)
  BY <1>1, NothingFits, SetupCounted
<1>3. kept = [u EXCEPT !.doc.setup.failures = 0] /\ kept.doc = a
  <2> HIDE DEF s
  <2> QED BY <1>1 DEF TurnFields, s
<1>4. \A x : [kept EXCEPT !.doc = x] = [u EXCEPT !.doc = x]
  <2> HIDE DEF a
  <2> QED BY <1>1 DEF TurnFields
<1>5. [kept EXCEPT !.doc.stage = "ask_town", !.doc.setup.choices = choices]
        = [u EXCEPT !.doc = e]
  <2>1. [a EXCEPT !.stage = "ask_town", !.setup.choices = choices] = e
    <3>1. DOMAIN a = Fields
      BY <1>1
    <3> HIDE DEF a, choices
    <3> QED BY <3>1 DEF Fields
  <2> HIDE DEF a, e, choices
  <2>2. [kept EXCEPT !.doc.stage = "ask_town", !.doc.setup.choices = choices]
          = [kept EXCEPT !.doc = [kept.doc EXCEPT !.stage = "ask_town", !.setup.choices = choices]]
    OBVIOUS
  <2> HIDE DEF kept
  <2> QED BY <1>3, <1>4, <2>1, <2>2
<1>6. DocumentFits(a)
  BY <1>2, OnwardFits
<1>7. \/ reply \in Towns
         /\ TownFound(u, reply, picked) = Says([u EXCEPT !.doc = r], "confirm_city", reply)
      \/ several # {}
         /\ TownFound(u, reply, picked) = Says([u EXCEPT !.doc = e], "which_town", NoItem)
      \/ TownFound(u, reply, picked) = ResumeTownCapture(kept)
  <2> DEFINE kept0 == [u EXCEPT !.doc.setup.failures = 0]
  <2>1. CASE (u.world.lookup = "match" /\ reply \in Towns) \/ picked
    <3>1. TownFound(u, reply, picked)
            = Says([kept0 EXCEPT !.doc = AskTown(AwaitConfirmation(kept0.doc, reply))],
                   "confirm_city", reply)
      BY <2>1 DEF TownFound
    <3> HIDE DEF kept0, kept, a, r
    <3>2. kept0 = kept
      BY <1>3 DEF kept0
    <3> QED BY <1>3, <1>4, <2>1, <3>1, <3>2 DEF r
  <2>2. CASE u.world.lookup = "several" /\ ~picked /\ several # {}
    <3>1. TownFound(u, reply, picked)
            = Says([kept0 EXCEPT !.doc.stage = "ask_town", !.doc.setup.choices = choices],
                   "which_town", NoItem)
      BY <2>2 DEF TownFound
    <3> HIDE DEF kept0, kept, a, e, several, choices
    <3>2. kept0 = kept
      BY <1>3 DEF kept0
    <3> QED BY <1>5, <2>2, <3>1, <3>2
  <2>3. CASE ~((u.world.lookup = "match" /\ reply \in Towns) \/ picked)
             /\ ~(u.world.lookup = "several" /\ ~picked /\ several # {})
    <3>1. TownFound(u, reply, picked) = ResumeTownCapture(kept0)
      BY <2>3 DEF TownFound
    <3> HIDE DEF kept0, kept, a
    <3>2. kept0 = kept
      BY <1>3 DEF kept0
    <3> QED BY <3>1, <3>2
  <2> QED BY <2>1, <2>2, <2>3
<1> HIDE DEF kept, e, r
<1>8. Confirms(d, c, ResumeTownCapture(kept))
  <2>1. Turns(d, c, kept)
    BY <1>2, TurnDoc DEF kept
  <2> QED BY <2>1, QuietResumeCapture, QuietConfirms
<1>9. ASSUME reply \in Towns
      PROVE  Confirms(d, c, Says([u EXCEPT !.doc = r], "confirm_city", reply))
  <2> HIDE DEF a
  <2>1. Onward(a, r) /\ r.stage = "await_location_confirm" /\ r.setup.candidate = reply
    BY <1>2, <1>6, <1>9, TownNamed DEF r
  <2>2. reply # NoTown
    BY <1>9, FindingAssumption
  <2>3. Turns(d, c, [u EXCEPT !.doc = r]) /\ [u EXCEPT !.doc = r].doc = r
    BY <1>2, <2>1, OnwardTrans, TurnDoc
  <2> DEFINE v == [u EXCEPT !.doc = r]
  <2> HIDE DEF v
  <2>4. Turns(d, c, v) /\ v.doc = r
    BY <2>3 DEF v
  <2>5. LET w == Says(v, "confirm_city", reply)
        IN  Turns(d, c, w) /\ w.asked.about = reply /\ w.doc = v.doc
    BY <2>4, TurnSays
  <2>6. Confirms(d, c, Says(v, "confirm_city", reply))
    BY <2>1, <2>2, <2>4, <2>5 DEF Confirms, ConfirmFits
  <2> QED BY <2>6 DEF v
<1>10. ASSUME several # {}
       PROVE  Confirms(d, c, Says([u EXCEPT !.doc = e], "which_town", NoItem))
  <2>1. choices \in {<<>>} \union TownChoices
    BY <1>10
  <2> HIDE DEF choices, a
  <2>2. Onward(a, b)
    BY <1>6, <2>1, SetupCounted
  <2> HIDE DEF b
  <2>3. Onward(b, e)
    BY <2>2, OnwardFits, TownStaged DEF e
  <2>4. Turns(d, c, [u EXCEPT !.doc = e])
    BY <1>2, <2>2, <2>3, OnwardTrans, TurnDoc
  <2> QED BY <2>4, TurnSays, QuietConfirms
<1> QED BY <1>7, <1>8, <1>9, <1>10

LEMMA TownStagedConfirms ==
  ASSUME NEW d, NEW c, NEW u, NEW reply, Turns(d, c, u), Capturable(u.doc)
  PROVE  Confirms(d, c, StageTownConfirmation(u, reply)) /\ Confirms(d, c, CaptureTown(u, reply))
<1> DEFINE s == u.doc
           picked == s.setup.choices # <<>> /\ PicksTown(s, reply)
           name == IF picked THEN PickedTown(s, reply) ELSE reply
           a == [s EXCEPT !.setup.choices = <<>>]
           looking == [u EXCEPT !.doc = a]
<1>1. DocumentFits(s) /\ DOMAIN u = TurnFields /\ s.setup \in Setups
  BY TurnFits DEF DocumentFits, SetupFits
<1>2. Onward(s, a) /\ Capturable(a)
  BY <1>1, SetupCounted
<1>3. Turns(d, c, looking) /\ Capturable(looking.doc)
  <2> HIDE DEF a
  <2> QED BY <1>2, TurnDoc
<1>4. picked => name \in Towns
  <2>1. s.setup.choices \in {<<>>} \union TownChoices
    BY <1>1, SetupShape
  <2> SUFFICES ASSUME picked PROVE PickedTown(s, reply) \in Towns
    OBVIOUS
  <2>2. s.setup.choices \in Seq(Towns) /\ Len(s.setup.choices) >= 2
    BY <2>1, FindingAssumption
  <2>3. CASE reply = "second"
    BY <2>2, <2>3 DEF PickedTown
  <2>4. CASE reply # "second"
    <3>1. \E k \in DOMAIN s.setup.choices : s.setup.choices[k] = reply
      BY <2>4 DEF PicksTown
    <3> QED BY <2>2, <2>4, <3>1 DEF PickedTown
  <2> QED BY <2>3, <2>4
<1>5. /\ Confirms(d, c, FinalizeTownSkipped(u)) /\ Confirms(d, c, ResumeTownCapture(u))
      /\ Confirms(d, c, TownResolverUnavailable(looking))
      /\ Confirms(d, c, TownFound(looking, name, picked))
  <2> HIDE DEF looking, name, picked
  <2>1. Confirms(d, c, TownFound(looking, name, picked))
    BY <1>3, <1>4, TownFoundConfirms
  <2>2. Confirms(d, c, TownResolverUnavailable(looking))
    BY <1>3, QuietUnavailable, QuietConfirms
  <2> QED BY <2>1, <2>2, QuietTownSkipped, QuietResumeCapture, QuietConfirms
<1>6. StageTownConfirmation(u, reply) \in
        {FinalizeTownSkipped(u), ResumeTownCapture(u), TownResolverUnavailable(looking),
         TownFound(looking, name, picked)}
  <2>1. [u EXCEPT !.doc.setup.choices = <<>>] = looking
    OBVIOUS
  <2>2. CASE reply \in {"skip", "content"}
    BY <2>2 DEF StageTownConfirmation
  <2>3. CASE reply = "second" /\ s.setup.choices # <<>> /\ ~picked
    BY <2>3 DEF StageTownConfirmation
  <2>4. CASE reply \notin {"skip", "content"}
             /\ ~(reply = "second" /\ s.setup.choices # <<>> /\ ~picked)
    <3>1. StageTownConfirmation(u, reply) \in
            {TownResolverUnavailable([u EXCEPT !.doc.setup.choices = <<>>]),
             TownFound([u EXCEPT !.doc.setup.choices = <<>>], name, picked)}
      BY <2>4 DEF StageTownConfirmation
    <3> HIDE DEF name, picked, looking
    <3> QED BY <2>1, <3>1
  <2> QED BY <2>2, <2>3, <2>4
<1>7. Confirms(d, c, StageTownConfirmation(u, reply))
  <2> HIDE DEF looking, name, picked
  <2> QED BY <1>5, <1>6
<1> QED BY <1>5, <1>7 DEF CaptureTown

LEMMA SetLocationConfirms ==
  ASSUME NEW d, NEW c, NEW u, NEW reply, Turns(d, c, u), reply # "nothing" => Capturable(u.doc)
  PROVE  Confirms(d, c, SetLocation(u, reply))
<1> DEFINE a == RequestLocationChange(u.doc)
           r == AskTown(a)
<1>1. CASE reply = "nothing"
  <2>1. Onward(u.doc, a) /\ Capturable(a) /\ a.stage = "ask_town"
    BY TurnFits, StartFits
  <2> HIDE DEF a
  <2>2. Aside(a, r)
    BY <2>1, OnwardFits, FitsParts, TownAsked
  <2> HIDE DEF r
  <2>3. Turns(d, c, [u EXCEPT !.doc = r])
    BY <2>1, <2>2, AsideOnward, OnwardTrans, TurnDoc
  <2>4. Quiet(d, c, AsksTown([u EXCEPT !.doc = r]))
    BY <2>3, TurnSays DEF AsksTown
  <2> QED BY <1>1, <2>4, QuietConfirms DEF SetLocation, r, a
<1>2. CASE reply # "nothing"
  BY <1>2, TownStagedConfirms DEF SetLocation
<1> QED BY <1>1, <1>2

LEMMA KnownFits ==
  ASSUME NEW s, DocumentFits(s), NEW b \in BOOLEAN, s.known => b
  PROVE  Onward(s, [s EXCEPT !.known = b])
<1> DEFINE r == [s EXCEPT !.known = b]
<1>1. /\ DOMAIN r = Fields /\ r.stage = s.stage /\ r.setup = s.setup /\ r.city = s.city
      /\ r.onboarded = s.onboarded /\ r.known = b /\ SameDialog(s, r) /\ r.active = s.active
      /\ r.pending = s.pending
  BY DocumentShape DEF Fields, SameDialog
<1> HIDE DEF r
<1>2. SetupFits(r) /\ CaptureFits(r)
  BY <1>1 DEF DocumentFits, SetupFits, CaptureFits
<1>3. PartsFit(r)
  BY <1>1, <1>2, FitsParts, PartsSetUp
<1> QED BY <1>1, <1>2, <1>3, PartsFits DEF r, Onward

\* The town that is found is saved.
LEMMA LocatedSince ==
  ASSUME NEW d, NEW c, NEW s, NEW town \in Towns, NEW community \in BOOLEAN, Since(d, c, s)
  PROVE  LET r == CompleteLocation(s, town, community)
         IN  Since(d, town, r) /\ (s.setup.community => r.setup.community)
<1> DEFINE r == CompleteLocation(s, town, community)
<1>1. DocumentFits(s)
  BY DEF Since
<1>2. Ended(s, r) /\ r.onboarded /\ r.city = town
      /\ r.setup.community = (s.setup.community \/ community)
  BY <1>1, CompletedFits
<1> HIDE DEF r
<1>3. s.setup.community => r.setup.community
  BY <1>2
<1>4. Since(d, town, r)
  BY <1>2 DEF Since, Ended
<1> QED BY <1>3, <1>4 DEF r

\* A turn whose document goes on from one that saves the town e.
LEMMA TurnSaves ==
  ASSUME NEW d, NEW c, NEW e, NEW u, NEW s, NEW r, Turns(d, c, u), Since(d, e, s), Onward(s, r)
  PROVE  Turns(d, e, [u EXCEPT !.doc = r])
BY SinceOnward, TurnSince

LEMMA QuietFirstRun ==
  ASSUME NEW d, NEW c, NEW u, Turns(d, c, u)
  PROVE  Quiet(d, c, CompleteFirstRun(u)) \/ Quiet(d, DeviceTown, CompleteFirstRun(u))
<1> DEFINE s == u.doc
           a == CompleteLocation(s, DeviceTown, FALSE)
           l == [EndTown(a) EXCEPT !.known = TRUE]
           b == StartTownCapture(s)
           r == AskTown(b)
           e == EndTown(CompleteWithoutLocation(s))
           f == [e EXCEPT !.known = TRUE]
<1>1. DocumentFits(s) /\ Since(d, c, s) /\ DeviceTown \in Towns /\ FALSE \in BOOLEAN
      /\ TRUE \in BOOLEAN
  BY TurnFits, FindingAssumption DEF Turns
<1>2. Quiet(d, DeviceTown, Idle([u EXCEPT !.doc = l]))
  <2>1. Since(d, DeviceTown, a)
    BY <1>1, LocatedSince
  <2> HIDE DEF a
  <2>2. Onward(a, EndTown(a))
    BY <2>1, FitsParts, TownEnded, AsideOnward DEF Since
  <2>3. Onward(EndTown(a), l)
    BY <1>1, <2>2, OnwardFits, KnownFits
  <2> HIDE DEF l
  <2> QED BY <2>1, <2>2, <2>3, OnwardTrans, TurnSaves, TurnIdle
<1>3. Quiet(d, c, AsksTown([u EXCEPT !.doc = r]))
  <2>1. Onward(s, b) /\ Capturable(b) /\ b.stage = "ask_town"
    BY <1>1, StartFits
  <2> HIDE DEF b
  <2>2. Aside(b, r)
    BY <2>1, OnwardFits, FitsParts, TownAsked
  <2> HIDE DEF r
  <2> QED BY <2>1, <2>2, AsideOnward, OnwardTrans, TurnDoc, TurnSays DEF AsksTown
<1>4. Quiet(d, c, Idle([u EXCEPT !.doc = f]))
  <2>1. Onward(s, e)
    BY <1>1, SetupEnds
  <2> HIDE DEF e
  <2>2. Onward(e, f)
    BY <1>1, <2>1, OnwardFits, KnownFits
  <2> HIDE DEF f
  <2> QED BY <2>1, <2>2, OnwardTrans, TurnDoc, TurnIdle
<1>5. CompleteFirstRun(u) \in {Idle([u EXCEPT !.doc = l]), AsksTown([u EXCEPT !.doc = r]),
                               Idle([u EXCEPT !.doc = f])}
  <2>1. CASE u.world.device = "resolved"
    BY <2>1 DEF CompleteFirstRun
  <2>2. CASE u.world.device = "denied"
    BY <2>2 DEF CompleteFirstRun
  <2>3. CASE u.world.device \notin {"resolved", "denied"}
    BY <2>3 DEF CompleteFirstRun
  <2> QED BY <2>1, <2>2, <2>3
<1> HIDE DEF l, r, f
<1> QED BY <1>2, <1>3, <1>4, <1>5

LEMMA QuietProfile ==
  ASSUME NEW d, NEW c, NEW u, Turns(d, c, u)
  PROVE  /\ Quiet(d, c, AskProfileSetup(u)) /\ Quiet(d, c, FinalizeProfileSkipped(u))
         /\ Quiet(d, c, SkipsSetup(u))
<1> DEFINE s == u.doc
           a == [s EXCEPT !.setup.consent = TRUE]
           b == [s EXCEPT !.setup.permission = FALSE]
           r == [b EXCEPT !.known = TRUE]
<1>1. DocumentFits(s) /\ TRUE \in BOOLEAN
  BY TurnFits
<1>2. Quiet(d, c, AskProfileSetup(u))
  <2>1. Onward(s, a)
    BY <1>1, SetupMarked
  <2> HIDE DEF a
  <2>2. Quiet(d, c, Says([u EXCEPT !.doc = a], "profile", NoItem))
    BY <2>1, TurnDoc, TurnSays
  <2> QED BY <2>2 DEF AskProfileSetup, a
<1>3. Quiet(d, c, FinalizeProfileSkipped(u))
  <2>1. Onward(s, b)
    BY <1>1, SetupMarked
  <2>2. [s EXCEPT !.setup.permission = FALSE, !.known = TRUE] = r
    OBVIOUS
  <2> HIDE DEF b
  <2>3. Onward(b, r)
    BY <1>1, <2>1, OnwardFits, KnownFits
  <2> HIDE DEF r
  <2>4. Quiet(d, c, Idle([u EXCEPT !.doc = r]))
    BY <2>1, <2>3, OnwardTrans, TurnDoc, TurnIdle
  <2>5. [u EXCEPT !.doc.setup.permission = FALSE, !.doc.known = TRUE] = [u EXCEPT !.doc = r]
    BY <2>2
  <2> QED BY <2>4, <2>5 DEF FinalizeProfileSkipped
<1> QED BY <1>2, <1>3, QuietTownSkipped DEF SkipsSetup

LEMMA QuietManual ==
  ASSUME NEW d, NEW c, NEW u, Turns(d, c, u) PROVE Quiet(d, c, BeginManualProfile(u))
<1> DEFINE s == u.doc
           b == StartTownCapture(s)
           q1 == [b.setup EXCEPT !.permission = FALSE]
           q2 == [q1 EXCEPT !.profileTown = TRUE]
           q == [q2 EXCEPT !.profileActive = TRUE]
           x == [b EXCEPT !.stage = "ask_town", !.setup = q]
           r == AskTown(x)
<1>1. Onward(s, b) /\ b.stage = "ask_town"
  BY TurnFits, StartFits
<1> HIDE DEF b
<1>2. DocumentFits(b) /\ b.setup \in Setups /\ DOMAIN b = Fields
  BY <1>1, OnwardFits, DocumentShape DEF DocumentFits, SetupFits
<1>3. q1 \in Setups /\ ~q1.permission /\ TRUE \in BOOLEAN
  BY <1>2, SetupsEdited, SetupShape
<1>4. q2 \in Setups /\ ~q2.permission
  <2> HIDE DEF q1
  <2> QED BY <1>3, SetupsEdited, SetupShape
<1>5. q \in Setups /\ ~q.permission
  <2> HIDE DEF q2
  <2> QED BY <1>3, <1>4, SetupsEdited, SetupShape
<1>6. [b EXCEPT !.setup.permission = FALSE, !.setup.profileTown = TRUE,
                !.setup.profileActive = TRUE] = x
  BY <1>1, <1>2 DEF Fields
<1> HIDE DEF q
<1>7. Onward(b, r)
  BY <1>2, <1>5, TownWanted
<1> HIDE DEF x, r
<1>8. Quiet(d, c, AsksTown([u EXCEPT !.doc = r]))
  BY <1>1, <1>7, OnwardTrans, TurnDoc, TurnSays DEF AsksTown
<1> QED BY <1>6, <1>8 DEF BeginManualProfile, r, b

-----------------------------------------------------------------------------
(* What a request may do to the document d that it loaded. *)

\* A town is saved when it was confirmed, or nothing was to be confirmed.
Saves(d, town) ==
  \/ d.setup.consent \/ d.stage # "await_location_confirm" \/ town = d.setup.candidate
  \/ d.setup.permission /\ d.setup.candidate = NoTown

\* Local content that waited for the town is listed.
Resumes(d, town, effects) ==
  d.setup.community /\ d.city = NoTown /\ town # NoTown /\ ~IsNew(d) =>
    <<"list", "local">> \in effects

Answer(d, u) ==
  /\ DocumentFits(u.doc) /\ ConfirmFits(u.asked, u.doc)
  /\ u.session \in Sessions /\ u.inbox \in [Notices -> InboxStatuses] /\ MissedFits(u.missed)
  /\ \A e \in u.effects : e[1] \in RatedKinds => e[2] = SubjectOf(d.playing.item)
  /\ d.stage # "none" /\ IsNew(d) /\ u.doc.stage = "none" /\ u.asked.kind # "town" =>
       ~IsNew(u.doc)
  /\ u.doc.city # d.city => Saves(d, u.doc.city) /\ Resumes(d, u.doc.city, u.effects)

LEMMA TurnAnswers ==
  ASSUME NEW d, NEW c, NEW u, Confirms(d, c, u),
         c # d.city => Saves(d, c) /\ Resumes(d, c, u.effects)
  PROVE  Answer(d, u)
BY DEF Confirms, Turns, Since, Answer, IsNew

LEMMA QuietAnswers ==
  ASSUME NEW d, NEW u, Quiet(d, d.city, u) PROVE Answer(d, u)
BY QuietConfirms, TurnAnswers

LEMMA ConfirmsAnswers ==
  ASSUME NEW d, NEW u, Confirms(d, d.city, u) PROVE Answer(d, u)
BY TurnAnswers

LEMMA DeclineTownAnswers ==
  ASSUME NEW d, NEW u, Turns(d, d.city, u) PROVE Answer(d, DeclineTown(u))
<1> DEFINE r == ClearConfirmation(u.doc)
           v == DeclineTown(u)
<1>1. DocumentFits(r) /\ r.city = d.city
  BY TurnFits, ConfirmationCleared
<1> HIDE DEF r
<1>2. DOMAIN u = TurnFields
  BY TurnFits
<1>3. /\ v.doc = r /\ v.asked.kind = "town" /\ v.effects = u.effects /\ v.session = u.session
      /\ v.inbox = u.inbox /\ v.missed = u.missed
  BY <1>2 DEF DeclineTown, AsksTown, Says, TurnFields, r
<1> HIDE DEF v
<1>4. Answer(d, v)
  BY <1>1, <1>3 DEF Turns, Answer, ConfirmFits
<1> QED BY <1>4 DEF v

\* start_profile saves the device's town, or asks for one.
LEMMA QuietStartProfile ==
  ASSUME NEW d, NEW c, NEW u, Turns(d, c, u)
  PROVE  \/ Quiet(d, c, StartProfile(u))
         \/ /\ Quiet(d, DeviceTown, StartProfile(u))
            /\ u.doc.setup.community => <<"list", "local">> \in StartProfile(u).effects
<1> DEFINE s == u.doc
           k == s.known \/ u.world.scopes
           a == [s EXCEPT !.setup.consent = FALSE]
           b == [a EXCEPT !.known = k]
           agreed == [u EXCEPT !.doc = b]
           l == CompleteLocation(b, DeviceTown, FALSE)
           r == EndProfile(l)
           located == [agreed EXCEPT !.doc = r]
<1>1. DocumentFits(s) /\ DOMAIN s = Fields /\ s.setup \in Setups /\ s.known \in BOOLEAN
  BY TurnFits, DocumentShape DEF DocumentFits, SetupFits
<1>2. k \in BOOLEAN /\ FALSE \in BOOLEAN /\ DeviceTown \in Towns /\ DeviceTown # NoTown
  BY <1>1, FindingAssumption DEF Turns, Beneath
<1>3. Onward(s, a) /\ DOMAIN a = Fields /\ a.known = s.known
      /\ a.setup.community = s.setup.community
  BY <1>1, <1>2, SetupMarked, SetupShape DEF Fields
<1>4. [s EXCEPT !.setup.consent = FALSE, !.known = k] = b
  <2> HIDE DEF k
  <2> QED BY <1>1 DEF Fields
<1>5. [u EXCEPT !.doc.setup.consent = FALSE, !.doc.known = @ \/ u.world.scopes] = agreed
  BY <1>4
<1> HIDE DEF a
<1>6. Onward(a, b) /\ b.setup = a.setup
  <2>1. Onward(a, b)
    BY <1>2, <1>3, OnwardFits, KnownFits
  <2> HIDE DEF k
  <2> QED BY <1>3, <2>1 DEF Fields
<1> HIDE DEF b, k
<1>7. Turns(d, c, agreed) /\ agreed.doc = b /\ agreed.world = u.world
  BY <1>3, <1>6, OnwardTrans, TurnDoc
<1> HIDE DEF agreed
<1>8. Quiet(d, c, BeginManualProfile(agreed))
  BY <1>7, QuietManual
<1>9. Since(d, DeviceTown, l) /\ (s.setup.community => l.setup.community)
  <2>1. Since(d, c, b)
    BY <1>7 DEF Turns
  <2>2. b.setup.community = s.setup.community
    BY <1>3, <1>6
  <2> QED BY <1>2, <2>1, <2>2, LocatedSince
<1> HIDE DEF l
<1>10. Onward(l, r) /\ r.setup.community = l.setup.community
  BY <1>9, ProfileEnded DEF Since
<1> HIDE DEF r
<1>11. Turns(d, DeviceTown, located) /\ located.doc = r
  <2>1. Since(d, DeviceTown, r)
    BY <1>9, <1>10, SinceOnward
  <2> QED BY <1>7, <2>1, TurnSince
<1> HIDE DEF located
<1> DEFINE Then(v) == IF v.doc.setup.community /\ v.doc.city # NoTown THEN PlayCommunity(v)
                      ELSE v
<1>12. Quiet(d, c, Then(BeginManualProfile(agreed)))
  <2> DEFINE v == BeginManualProfile(agreed)
  <2>1. Quiet(d, c, v)
    BY <1>8
  <2> HIDE DEF v
  <2>2. Quiet(d, c, PlayCommunity(v))
    BY <2>1, QuietPlayCommunity DEF Quiet
  <2>3. Then(v) \in {PlayCommunity(v), v}
    OBVIOUS
  <2> HIDE DEF Then
  <2>4. Quiet(d, c, Then(v))
    BY <2>1, <2>2, <2>3
  <2> QED BY <2>4 DEF v
<1>13. /\ Quiet(d, DeviceTown, Then(Idle(located)))
       /\ r.setup.community => <<"list", "local">> \in Then(Idle(located)).effects
  <2> DEFINE v == Idle(located)
  <2>1. Quiet(d, DeviceTown, v) /\ v.doc = r
    BY <1>11, TurnIdle
  <2> HIDE DEF v
  <2>2. /\ Quiet(d, DeviceTown, PlayCommunity(v))
        /\ <<"list", "local">> \in PlayCommunity(v).effects
    BY <1>2, <2>1, QuietPlayCommunity DEF Quiet
  <2>3. r.city # NoTown
    BY <1>2, <2>1, TurnFits DEF Quiet
  <2>4. Then(v) \in {PlayCommunity(v), v} /\ (r.setup.community => Then(v) = PlayCommunity(v))
    BY <2>1, <2>3
  <2> HIDE DEF Then
  <2>5. /\ Quiet(d, DeviceTown, Then(v))
        /\ r.setup.community => <<"list", "local">> \in Then(v).effects
    BY <2>1, <2>2, <2>4
  <2> QED BY <2>5 DEF v
<1>14. StartProfile(u) \in {Then(BeginManualProfile(agreed)), Then(Idle(located))}
  <2> DEFINE agreed0 == [u EXCEPT !.doc.setup.consent = FALSE, !.doc.known = @ \/ u.world.scopes]
             located0 == [agreed0 EXCEPT
               !.doc = EndProfile(CompleteLocation(agreed0.doc, DeviceTown, FALSE))]
             started0 == IF ~u.world.scopes \/ u.world.device # "resolved"
                         THEN BeginManualProfile(agreed0) ELSE Idle(located0)
  <2>1. StartProfile(u) = Then(started0)
    BY DEF StartProfile
  <2> HIDE DEF Then
  <2>2. StartProfile(u) \in {Then(BeginManualProfile(agreed0)), Then(Idle(located0))}
    BY <2>1
  <2> HIDE DEF agreed0
  <2>3. agreed0 = agreed
    BY <1>5 DEF agreed0, agreed
  <2>4. located0 = located
    BY <1>7, <2>3 DEF located, r, l
  <2> HIDE DEF located0
  <2> QED BY <2>2, <2>3, <2>4
<1> HIDE DEF Then
<1> QED BY <1>9, <1>10, <1>12, <1>13, <1>14

\* _confirm_location saves the town that was confirmed.
LEMMA QuietConfirmLocation ==
  ASSUME NEW d, NEW c, NEW u, Turns(d, c, u), u.doc.setup.candidate # NoTown
  PROVE  /\ Quiet(d, u.doc.setup.candidate, ConfirmLocation(u))
         /\ u.doc.setup.community => <<"list", "local">> \in ConfirmLocation(u).effects
<1> DEFINE s == u.doc
           town == s.setup.candidate
           waiting == s.setup.community
           l == CompleteLocation(s, town, waiting)
           a == EndTown(l)
           b == IF a.setup.profileActive THEN EndProfile(a) ELSE a
           k == b.known \/ s.setup.profileActive
           r == [b EXCEPT !.known = k]
           done == [u EXCEPT !.doc = a]
           kept == [done EXCEPT !.doc = b]
           ended == [kept EXCEPT !.doc = r]
<1>1. DocumentFits(s) /\ s.setup \in Setups /\ Since(d, c, s)
  BY TurnFits DEF DocumentFits, SetupFits, Turns
<1>2. town \in Towns /\ waiting \in BOOLEAN /\ s.setup.profileActive \in BOOLEAN
  BY <1>1, SetupShape
<1>3. Since(d, town, l)
  BY <1>1, <1>2, LocatedSince
<1> HIDE DEF l
<1>4. Onward(l, a)
  BY <1>3, FitsParts, TownEnded, AsideOnward DEF Since
<1> HIDE DEF a
<1>5. Onward(a, b)
  BY <1>4, OnwardFits, ProfileEnded, OnwardSelf
<1>6. DocumentFits(b) /\ b.known \in BOOLEAN
  <2>1. DocumentFits(b)
    BY <1>5, OnwardFits
  <2> QED BY <2>1 DEF DocumentFits, SetupFits
<1> HIDE DEF b
<1>7. Onward(b, r)
  <2>1. k \in BOOLEAN /\ (b.known => k)
    BY <1>2, <1>6
  <2> HIDE DEF k
  <2> QED BY <1>6, <2>1, KnownFits
<1> HIDE DEF town
<1>8. Turns(d, town, done) /\ done.doc = a
  BY <1>3, <1>4, SinceOnward, TurnSince
<1> HIDE DEF done
<1>9. Turns(d, town, kept) /\ kept.doc = b
  BY <1>5, <1>8, TurnDoc
<1> HIDE DEF kept, r
<1>10. Turns(d, town, ended)
  BY <1>7, <1>9, TurnDoc
<1> HIDE DEF ended
<1>11. /\ Quiet(d, town, Idle(ended)) /\ Quiet(d, town, PlayCommunity(ended))
       /\ <<"list", "local">> \in PlayCommunity(ended).effects
  <2>1. town # NoTown
    BY DEF town
  <2> QED BY <1>10, <2>1, TurnIdle, QuietPlayCommunity
<1>12. ConfirmLocation(u) = IF waiting THEN PlayCommunity(ended) ELSE Idle(ended)
  <2> DEFINE kept0 == [done EXCEPT !.doc = IF done.doc.setup.profileActive
                                           THEN EndProfile(done.doc) ELSE done.doc]
             ended0 == [kept0 EXCEPT !.doc.known = @ \/ s.setup.profileActive]
  <2>1. ConfirmLocation(u) = IF waiting THEN PlayCommunity(ended0) ELSE Idle(ended0)
    BY DEF ConfirmLocation, done, a, l, town
  <2>2. kept0 = kept
    BY <1>8 DEF kept, b
  <2> HIDE DEF kept0
  <2>3. ended0 = ended
    BY <1>9, <2>2 DEF ended, r
  <2> HIDE DEF ended0
  <2> QED BY <2>1, <2>3
<1>13. Quiet(d, town, ConfirmLocation(u))
       /\ (waiting => <<"list", "local">> \in ConfirmLocation(u).effects)
  BY <1>11, <1>12
<1> QED BY <1>13 DEF town

-----------------------------------------------------------------------------
(* Requests, as they reach the gates and the handlers. *)

\* u is about the document d as the interceptors leave it.
Begins(d, u) ==
  /\ Turns(d, d.city, u) /\ SameSetup(d, u.doc) /\ u.doc.playing = d.playing
  /\ u.doc.active.type = "onboarding" => u.doc.stage # "none" /\ ~RatingAsked(u.doc)

LEMMA RejectAnswers ==
  ASSUME NEW d, NEW u, NEW intent, Begins(d, u),
         u.doc.active.type = "onboarding" => u.doc.stage # "ask_town"
  PROVE  Answer(d, Reject(u, intent))
<1> DEFINE k == u.doc.active.type
           c == u.doc.active.context
           choice == k = "search_confirmation" /\ c # NoContext /\ c.choice
           s == CASE k = "feedback" -> NoteUnrecognised(u.doc)
                  [] choice -> [u.doc EXCEPT !.active.context.unclear = 1]
                  [] OTHER -> u.doc
           v == [u EXCEPT !.doc = s]
           q == Clear(s, {k})
           w == [v EXCEPT !.doc = q]
           about == IF c = NoContext THEN NoItem ELSE c.about
<1>1. Turns(d, d.city, u) /\ DocumentFits(u.doc)
  BY TurnFits DEF Begins
<1>2. Aside(u.doc, s)
  <2>1. CASE k = "feedback"
    BY <1>1, <2>1, AsideUnrecognised
  <2>2. CASE choice
    <3> DEFINE e == [c EXCEPT !.unclear = 1]
               a == [u.doc.active EXCEPT !.context = e]
               r == [u.doc EXCEPT !.active = a]
    <3>1. DOMAIN u.doc = Fields /\ DOMAIN u.doc.active = {"type", "context", "left"}
          /\ DialogFits(u.doc) /\ PlayingFits(u.doc)
      BY <1>1, DocumentShape DEF DocumentFits
    <3>2. c \in Resolutions
      BY <2>2, <3>1 DEF DialogFits, ContextFits, Held
    <3>3. e \in Resolutions
      BY <3>2 DEF Resolutions
    <3>4. [u.doc EXCEPT !.active.context.unclear = 1] = r
      BY <3>1 DEF Fields
    <3> HIDE DEF e
    <3>5. a.type = k /\ a.context = e /\ DOMAIN a = DOMAIN u.doc.active
      BY <3>1
    <3> HIDE DEF a
    <3>6. /\ DOMAIN r = Fields /\ r.active = a /\ r.flags = u.doc.flags /\ r.pending = u.doc.pending
          /\ r.topic = u.doc.topic /\ SameSetup(u.doc, r) /\ r.playing = u.doc.playing
          /\ r.answered = u.doc.answered /\ r.latest = u.doc.latest
      BY <3>1 DEF Fields, SameSetup
    <3> HIDE DEF r
    <3>7. DialogFits(r)
      BY <2>2, <3>1, <3>3, <3>5, <3>6 DEF DialogFits, ContextFits
    <3>8. SetupFits(r) /\ PlayingFits(r) /\ RatingFits(r) /\ CaptureFits(r)
      <4>1. SetupFits(r)
        BY <1>1, <3>6 DEF DocumentFits, SetupFits, SameSetup
      <4>2. PlayingFits(r)
        BY <3>1, <3>6 DEF PlayingFits
      <4>3. RatingFits(r)
        BY <1>1, <2>2, <3>5, <3>6 DEF DocumentFits, RatingFits, RatesActive, RatingAsked
      <4>4. CaptureFits(r)
        BY <2>2, <3>5, <3>6 DEF CaptureFits
      <4> QED BY <4>1, <4>2, <4>3, <4>4
    <3>9. Aside(u.doc, r)
      BY <3>6, <3>7, <3>8 DEF Aside, DocumentFits
    <3> QED BY <2>2, <3>4, <3>9
  <2>3. CASE k # "feedback" /\ ~choice
    BY <1>1, <2>3, AsideSelf
  <2> QED BY <2>1, <2>2, <2>3
<1>3. s.stage = u.doc.stage /\ s.setup = u.doc.setup
  BY <1>2 DEF Aside, SameSetup
<1> HIDE DEF s
<1>4. Turns(d, d.city, v) /\ v.doc = s
  BY <1>1, <1>2, TurnAside
<1> HIDE DEF v
<1>5. Turns(d, d.city, w)
  BY <1>2, <1>4, AsideClear, AsideFits, TurnAside
<1> HIDE DEF w
<1>6. Quiet(d, d.city, Idle(v)) /\ Quiet(d, d.city, Idle(w))
  BY <1>4, <1>5, TurnIdle
<1>7. \A what, x : what # "confirm_city" => Quiet(d, d.city, Says(v, what, x))
  BY <1>4, TurnSays
<1>8. Answer(d, Idle(v)) /\ Answer(d, Idle(w))
      /\ \A what, x : what # "confirm_city" => Answer(d, Says(v, what, x))
  BY <1>6, <1>7, QuietAnswers
<1>9. ASSUME k = "onboarding", s.stage # "ask_permission"
      PROVE  Answer(d, Says(v, "confirm_city", s.setup.candidate))
  <2> DEFINE z == Says(v, "confirm_city", s.setup.candidate)
  <2>1. Turns(d, d.city, z) /\ z.asked.about = s.setup.candidate /\ z.doc = s
    BY <1>4, TurnSays
  <2> HIDE DEF z
  <2>2. s.stage \in Stages /\ s.stage # "none" /\ s.stage # "ask_town"
    BY <1>1, <1>3, <1>9 DEF Begins, DocumentFits, SetupFits
  <2>3. s.stage = "await_location_confirm"
    BY <1>9, <2>2 DEF Stages
  <2>4. s.setup.permission => s.setup.candidate # NoTown
    BY <1>1, <1>3, <1>9, <2>3 DEF DocumentFits, CaptureFits
  <2>5. Confirms(d, d.city, z)
    BY <2>1, <2>3, <2>4 DEF Confirms, ConfirmFits
  <2> QED BY <2>5, ConfirmsAnswers DEF z
<1>10. \/ Reject(u, intent) = Idle(v) \/ Reject(u, intent) = Idle(w)
       \/ Reject(u, intent) = Says(v, k, c.search) /\ k = "search_confirmation"
       \/ Reject(u, intent) = Says(v, "creator_city", NoItem)
       \/ Reject(u, intent) = Says(v, "permission", NoItem)
       \/ /\ Reject(u, intent) = Says(v, "confirm_city", s.setup.candidate)
          /\ k = "onboarding" /\ s.stage # "ask_permission"
       \/ Reject(u, intent) = Says(v, k, NoItem) /\ k \in {"help", "ambiguity"}
       \/ Reject(u, intent) = Says(v, k, about)
  <2>1. w = [v EXCEPT !.doc = Clear(@, {k})]
    BY <1>4, TurnFits DEF w, q, TurnFields
  <2> QED BY <2>1 DEF Reject, v, s
<1>11. k # "confirm_city"
  <2>1. k \in DialogTypes \union {"none"}
    BY <1>1 DEF DocumentFits, DialogFits
  <2> QED BY <2>1 DEF DialogTypes, Flagged, Held, Transient
<1> HIDE DEF k, c, about
<1> QED BY <1>8, <1>9, <1>10, <1>11

LEMMA GateAnswers ==
  ASSUME NEW d, NEW u, NEW intent, NEW reply, Begins(d, u), IsNew(d)
  PROVE  Answer(d, Gate(u, intent, reply))
<1> DEFINE s == u.doc
           r == StartTownCapture(s)
           v == [u EXCEPT !.doc = r]
           z == Says(u, "confirm_city", s.setup.candidate)
<1>1. Turns(d, d.city, u) /\ DocumentFits(s) /\ SameSetup(d, s)
  BY TurnFits DEF Begins
<1>2. /\ Quiet(d, d.city, SkipsSetup(u)) /\ Quiet(d, d.city, ResumeTownCapture(u))
      /\ Quiet(d, d.city, HandlePermissionNo(u)) /\ Quiet(d, d.city, Says(u, "permission", NoItem))
  BY <1>1, QuietProfile, QuietResumeCapture, QuietPermission, TurnSays
<1>3. Answer(d, CaptureTown(v, reply))
  <2>1. Onward(s, r) /\ Capturable(r)
    BY <1>1, StartFits
  <2> HIDE DEF r
  <2>2. Turns(d, d.city, v) /\ v.doc = r
    BY <1>1, <2>1, TurnDoc
  <2> HIDE DEF v
  <2> QED BY <2>1, <2>2, TownStagedConfirms, ConfirmsAnswers
<1>4. ASSUME s.stage = "await_location_confirm" PROVE Answer(d, z)
  <2>1. Turns(d, d.city, z) /\ z.asked.about = s.setup.candidate /\ z.doc = s
    BY <1>1, TurnSays
  <2> HIDE DEF z
  <2>2. ~s.setup.permission
    BY <1>1 DEF IsNew, SameSetup, DocumentFits, SetupFits
  <2>3. Confirms(d, d.city, z)
    BY <1>4, <2>1, <2>2 DEF Confirms, ConfirmFits
  <2> QED BY <2>3, ConfirmsAnswers
<1>5. ASSUME s.stage # "await_location_confirm" PROVE Answer(d, CompleteFirstRun(u))
  <2>1. Saves(d, DeviceTown) /\ Resumes(d, DeviceTown, CompleteFirstRun(u).effects)
    BY <1>1, <1>5 DEF Saves, Resumes, SameSetup
  <2>2. CASE Quiet(d, d.city, CompleteFirstRun(u))
    BY <2>2, QuietAnswers
  <2>3. CASE Quiet(d, DeviceTown, CompleteFirstRun(u))
    BY <2>1, <2>3, QuietConfirms, TurnAnswers
  <2> QED BY <1>1, <2>2, <2>3, QuietFirstRun
<1>6. /\ Answer(d, SkipsSetup(u)) /\ Answer(d, ResumeTownCapture(u))
      /\ Answer(d, HandlePermissionNo(u)) /\ Answer(d, Says(u, "permission", NoItem))
  BY <1>2, QuietAnswers
<1>7. \/ Gate(u, intent, reply) = SkipsSetup(u) \/ Gate(u, intent, reply) = ResumeTownCapture(u)
      \/ Gate(u, intent, reply) = HandlePermissionNo(u)
      \/ Gate(u, intent, reply) = Says(u, "permission", NoItem)
      \/ Gate(u, intent, reply) = z /\ s.stage = "await_location_confirm"
      \/ Gate(u, intent, reply) = CompleteFirstRun(u) /\ s.stage # "await_location_confirm"
      \/ Gate(u, intent, reply) = CaptureTown(v, reply)
  BY DEF Gate
<1> HIDE DEF z, v
<1> QED BY <1>3, <1>4, <1>5, <1>6, <1>7

LEMMA StartProfileAnswers ==
  ASSUME NEW d, NEW u, Begins(d, u),
         d.setup.consent \/ (d.setup.permission /\ d.setup.candidate = NoTown)
  PROVE  Answer(d, StartProfile(u))
<1> DEFINE v == StartProfile(u)
<1>1. Turns(d, d.city, u) /\ SameSetup(d, u.doc)
  BY DEF Begins
<1>2. \/ Quiet(d, d.city, v)
      \/ Quiet(d, DeviceTown, v) /\ (u.doc.setup.community => <<"list", "local">> \in v.effects)
  BY <1>1, QuietStartProfile
<1> HIDE DEF v
<1>3. Saves(d, DeviceTown)
  BY DEF Saves
<1>4. ASSUME Quiet(d, DeviceTown, v),
             u.doc.setup.community => <<"list", "local">> \in v.effects
      PROVE  Answer(d, v)
  <2>1. Resumes(d, DeviceTown, v.effects)
    BY <1>1, <1>4 DEF Resumes, SameSetup
  <2> QED BY <1>3, <1>4, <2>1, QuietConfirms, TurnAnswers
<1>5. Answer(d, v)
  BY <1>2, <1>4, QuietAnswers
<1> QED BY <1>5 DEF v

LEMMA ConfirmLocationAnswers ==
  ASSUME NEW d, NEW u, Begins(d, u), u.doc.setup.candidate # NoTown
  PROVE  Answer(d, ConfirmLocation(u))
<1> DEFINE v == ConfirmLocation(u)
           town == u.doc.setup.candidate
<1>1. Turns(d, d.city, u) /\ SameSetup(d, u.doc)
  BY DEF Begins
<1>2. Quiet(d, town, v) /\ (u.doc.setup.community => <<"list", "local">> \in v.effects)
  BY <1>1, QuietConfirmLocation
<1> HIDE DEF v
<1>3. Saves(d, town) /\ Resumes(d, town, v.effects)
  BY <1>1, <1>2 DEF Saves, Resumes, SameSetup
<1> HIDE DEF town
<1>4. Answer(d, v)
  BY <1>2, <1>3, QuietConfirms, TurnAnswers
<1> QED BY <1>4 DEF v

LEMMA PlayCommunityAnswers ==
  ASSUME NEW d, NEW u, Begins(d, u) PROVE Answer(d, PlayCommunity(u))
BY QuietPlayCommunity, QuietAnswers DEF Begins

\* A question is left behind.
LEMMA TurnLeaves ==
  ASSUME NEW d, NEW u, NEW types, Turns(d, d.city, u)
  PROVE  /\ Quiet(d, d.city, Idle([u EXCEPT !.doc = Clear(@, types)]))
         /\ Quiet(d, d.city, Idle([u EXCEPT !.doc = DismissAmbiguity(@)]))
         /\ Quiet(d, d.city, Idle([u EXCEPT !.doc = CloseLatest(@)]))
         /\ Quiet(d, d.city, FollowUp([u EXCEPT !.doc = ClearFeedback(@)]))
<1>1. DocumentFits(u.doc) /\ DOMAIN u = TurnFields
  BY TurnFits
<1>2. /\ Turns(d, d.city, [u EXCEPT !.doc = Clear(u.doc, types)])
      /\ Turns(d, d.city, [u EXCEPT !.doc = DismissAmbiguity(u.doc)])
  BY <1>1, AsideClear, AsideDismissAmbiguity, TurnAside
<1>3. /\ Turns(d, d.city, [u EXCEPT !.doc = CloseLatest(u.doc)])
      /\ Turns(d, d.city, [u EXCEPT !.doc = ClearFeedback(u.doc)])
  BY TurnEnded, TurnRated
<1> QED BY <1>2, <1>3, TurnIdle, QuietFollowUp

LEMMA AffirmAnswers ==
  ASSUME NEW d, NEW u, Begins(d, u) PROVE Answer(d, Affirm(u))
<1> DEFINE setup == u.doc.setup
           helped == Idle([u EXCEPT !.doc = Clear(@, {"help"})])
           again == Restart([u EXCEPT !.doc.keep = FALSE])
<1>1. Turns(d, d.city, u) /\ SameSetup(d, u.doc) /\ u.doc.playing.item = d.playing.item
  BY DEF Begins
<1>2. /\ Quiet(d, d.city, helped) /\ Quiet(d, d.city, RepairYes(u))
      /\ Quiet(d, d.city, PlayLatest(u)) /\ Quiet(d, d.city, Accept(u))
      /\ Quiet(d, d.city, ContinueQueue(u)) /\ Quiet(d, d.city, Idle(u))
  BY <1>1, TurnLeaves, QuietRepair, QuietPlayLatest, QuietAccept, QuietContinued, TurnIdle
<1>3. SearchWaits(u.doc) => Quiet(d, d.city, ConfirmSearch(u))
  BY <1>1, QuietConfirmSearch
<1>4. /\ Quiet(d, d.city, ResumeYes(u)) /\ Quiet(d, d.city, again)
      /\ Quiet(d, d.city, Enjoyed(u)) /\ Quiet(d, d.city, Follow(u))
  <2>1. Turns(d, d.city, [u EXCEPT !.doc.keep = FALSE])
    BY <1>1, TurnFlag
  <2> QED BY <1>1, <2>1, QuietResumeYes, QuietRestart, QuietEnjoyed, QuietFollow
<1>5. /\ setup.consent => Answer(d, StartProfile(u))
      /\ setup.permission /\ setup.candidate = NoTown => Answer(d, StartProfile(u))
      /\ setup.candidate # NoTown => Answer(d, ConfirmLocation(u))
      /\ Answer(d, PlayCommunity(u))
  BY <1>1, StartProfileAnswers, ConfirmLocationAnswers, PlayCommunityAnswers DEF SameSetup
<1>6. \/ Affirm(u) \in {helped, RepairYes(u), PlayLatest(u), Accept(u), ContinueQueue(u), Idle(u),
                        ResumeYes(u), again, Enjoyed(u), Follow(u)}
      \/ Affirm(u) = ConfirmSearch(u) /\ SearchWaits(u.doc)
      \/ Affirm(u) = StartProfile(u) /\ setup.consent
      \/ Affirm(u) = StartProfile(u) /\ setup.permission /\ setup.candidate = NoTown
      \/ Affirm(u) = ConfirmLocation(u) /\ setup.candidate # NoTown
      \/ Affirm(u) = PlayCommunity(u)
  BY DEF Affirm
<1> HIDE DEF setup, helped, again
<1>7. CASE Affirm(u) \in {helped, RepairYes(u), PlayLatest(u), Accept(u), ContinueQueue(u), Idle(u),
                        ResumeYes(u), again, Enjoyed(u), Follow(u)}
  BY <1>2, <1>4, <1>7, QuietAnswers
<1>8. CASE Affirm(u) = ConfirmSearch(u) /\ SearchWaits(u.doc)
  BY <1>3, <1>8, QuietAnswers
<1> QED BY <1>5, <1>6, <1>7, <1>8

LEMMA DenyAnswers ==
  ASSUME NEW d, NEW u, Begins(d, u) PROVE Answer(d, Deny(u))
<1> DEFINE s == u.doc
           helped == Idle([u EXCEPT !.doc = Clear(@, {"help"})])
           dismissed == Idle([u EXCEPT !.doc = DismissAmbiguity(@)])
           closed == Idle([u EXCEPT !.doc = CloseLatest(@)])
           alone == Idle([u EXCEPT !.doc.setup.community = FALSE])
           unconsented == [u EXCEPT !.doc.setup.consent = FALSE, !.doc.setup.community = FALSE]
           next == PlayNext([u EXCEPT !.doc.keep = FALSE])
           follow == FollowUp([u EXCEPT !.doc = ClearFeedback(@)])
<1>1. Turns(d, d.city, u) /\ u.doc.playing.item = d.playing.item
  BY DEF Begins
<1>2. /\ Quiet(d, d.city, helped) /\ Quiet(d, d.city, dismissed) /\ Quiet(d, d.city, closed)
      /\ Quiet(d, d.city, follow)
  BY <1>1, TurnLeaves
<1>3. Quiet(d, d.city, alone) /\ Quiet(d, d.city, Idle(unconsented))
  <2> DEFINE a == [s EXCEPT !.setup.consent = FALSE]
             b == [a EXCEPT !.setup.community = FALSE]
             e == [s EXCEPT !.setup.community = FALSE]
  <2>1. DocumentFits(s) /\ DOMAIN u = TurnFields /\ DOMAIN s = Fields /\ s.setup \in Setups
    BY <1>1, TurnFits, DocumentShape DEF DocumentFits, SetupFits
  <2>2. Onward(s, a) /\ Onward(s, e)
    BY <2>1, SetupMarked
  <2>3. Onward(s, b)
    <3> HIDE DEF a
    <3> QED BY <2>2, OnwardFits, OnwardTrans, SetupMarked
  <2>4. unconsented = [u EXCEPT !.doc = b]
    BY <2>1 DEF TurnFields, Fields
  <2> HIDE DEF b, e, s
  <2>5. Turns(d, d.city, [u EXCEPT !.doc = b]) /\ Turns(d, d.city, [u EXCEPT !.doc = e])
    BY <1>1, <2>2, <2>3, TurnDoc DEF s
  <2> QED BY <2>4, <2>5, TurnIdle DEF e, s
<1>4. Quiet(d, d.city, next)
  <2>1. Turns(d, d.city, [u EXCEPT !.doc.keep = FALSE])
    BY <1>1, TurnFlag
  <2> QED BY <2>1, QuietPlayNext
<1>5. /\ Quiet(d, d.city, RepairNo(u)) /\ Quiet(d, d.city, Decline(u))
      /\ Quiet(d, d.city, Skip(u, FALSE)) /\ Quiet(d, d.city, DeclineContinuation(u))
      /\ Quiet(d, d.city, NotEnjoyed(u)) /\ Quiet(d, d.city, ResumeNo(u))
      /\ Quiet(d, d.city, FinalizeProfileSkipped(u)) /\ Quiet(d, d.city, Idle(u))
  BY <1>1, QuietRepair, QuietDecline, QuietSkip, QuietContinued, QuietNotEnjoyed, QuietResumeNo,
     QuietProfile, TurnIdle
<1>6. SearchWaits(u.doc) => Quiet(d, d.city, DeclineSearch(u))
  BY <1>1, QuietDeclineSearch
<1>7. Answer(d, DeclineTown(u))
  BY <1>1, DeclineTownAnswers
<1>8. \/ Deny(u) \in {helped, dismissed, closed, alone, Idle(unconsented), next, follow}
      \/ Deny(u) \in {RepairNo(u), Decline(u), Skip(u, FALSE), DeclineContinuation(u),
                      NotEnjoyed(u), ResumeNo(u), FinalizeProfileSkipped(u), Idle(u)}
      \/ Deny(u) = DeclineSearch(u) /\ SearchWaits(u.doc)
      \/ Deny(u) = DeclineTown(u)
  BY DEF Deny
<1> HIDE DEF helped, dismissed, closed, alone, unconsented, next, follow
<1>9. CASE Deny(u) \in {helped, dismissed, closed, alone, Idle(unconsented), next, follow}
  BY <1>2, <1>3, <1>4, <1>9, QuietAnswers
<1>10. CASE Deny(u) \in {RepairNo(u), Decline(u), Skip(u, FALSE), DeclineContinuation(u),
                         NotEnjoyed(u), ResumeNo(u), FinalizeProfileSkipped(u), Idle(u)}
  BY <1>5, <1>10, QuietAnswers
<1>11. CASE Deny(u) = DeclineSearch(u) /\ SearchWaits(u.doc)
  BY <1>6, <1>11, QuietAnswers
<1> QED BY <1>7, <1>8, <1>9, <1>10, <1>11

-----------------------------------------------------------------------------
(* Steps of the conversation. *)

SoundInv == scenario \in Scenarios /\ DocumentInv

\* What every step does, whichever it is.
Step ==
  /\ scenario' = scenario
  /\ DocumentFits(doc') /\ ConfirmFits(asked', doc')
  /\ inbox' \in [Notices -> InboxStatuses] /\ session' \in Sessions /\ MissedFits(missed')
  /\ \A e \in last' : e[1] \in RatedKinds => e[2] = SubjectOf(doc.playing.item)
  /\ doc.stage # "none" /\ IsNew(doc) /\ doc'.stage = "none" /\ asked'.kind # "town" =>
       ~IsNew(doc')
  /\ doc'.city # doc.city => Saves(doc, doc'.city) /\ Resumes(doc, doc'.city, last')

At(w, intent) == [Turn(w) EXCEPT !.doc = Passed(@, intent)]

LEMMA WorldsFit ==
  ASSUME SoundInv
  PROVE  /\ Beneath(Still)
         /\ \A w \in Inboxes \union Follows : Beneath(w)
         /\ \A w \in Searched \union Catalogues \union Listings \union Lookups : Beneath(w)
         /\ \A w \in Heards \union Devices \union Accepting : Beneath(w)
         /\ \A status : \A w \in Settling(status) : Beneath(w)
<1>1. scenario.notices \subseteq Notices /\ scenario.follows \subseteq Standings \union {"down"}
  BY ConversationAssumption DEF SoundInv
<1>2. Beneath(Still)
  BY DEF Still, Beneath
<1>3. \A w \in Inboxes : Beneath(w) /\ DOMAIN w = DOMAIN Still
  <2> DEFINE Told(n, l) == [Still EXCEPT !.notice = n, !.lost = l]
  <2>1. \A n \in scenario.notices :
          \A l : Beneath(Told(n, l)) /\ DOMAIN Told(n, l) = DOMAIN Still
    BY <1>1 DEF Still, Beneath
  <2>2. Inboxes = {Still} \union {Told(n, l) : n \in scenario.notices, l \in Losses({"offered"})}
    BY DEF Inboxes
  <2> HIDE DEF Told
  <2>3. ASSUME NEW w \in Inboxes PROVE Beneath(w) /\ DOMAIN w = DOMAIN Still
    <3>1. CASE w = Still
      BY <1>2, <3>1
    <3>2. CASE w # Still
      <4>1. PICK n \in scenario.notices, l \in Losses({"offered"}) : w = Told(n, l)
        BY <2>2, <3>2
      <4> QED BY <2>1, <4>1
    <3> QED BY <3>1, <3>2
  <2> QED BY <2>3
<1>4. \A w \in Follows : Beneath(w)
  BY <1>1, <1>3 DEF Follows, Still, Beneath
<1>5. \A w \in Searched \union Catalogues : Beneath(w)
  BY DEF Searched, Catalogues, Still, Beneath
<1>6. \A w \in Listings \union Lookups : Beneath(w)
  BY DEF Listings, Lookups, Still, Beneath
<1>7. /\ \A w \in Heards \union Devices \union Accepting : Beneath(w)
      /\ \A status : \A w \in Settling(status) : Beneath(w)
  <2>1. ASSUME NEW w, NEW l, Beneath(w), DOMAIN w = DOMAIN Still
        PROVE  Beneath([w EXCEPT !.lost = l])
    BY <2>1 DEF Still, Beneath
  <2>2. \A w \in Searched : DOMAIN w = DOMAIN Still
    BY DEF Searched, Still
  <2>3. \A w \in Accepting : Beneath(w)
    BY <1>5, <2>1, <2>2 DEF Accepting
  <2>4. \A status : \A w \in Settling(status) : Beneath(w)
    BY <1>2, <2>1 DEF Settling
  <2>5. \A w \in Heards \union Devices : Beneath(w)
    BY DEF Heards, Devices, Still, Beneath
  <2> QED BY <2>3, <2>4, <2>5
<1> QED BY <1>2, <1>3, <1>4, <1>5, <1>6, <1>7

LEMMA TurnBegins ==
  ASSUME SoundInv, NEW w, Beneath(w)
  PROVE  Begins(doc, Turn(w)) /\ Turn(w).asked = asked /\ Turn(w).doc = Migrate(doc)
<1> DEFINE t == Turn(w)
           s == Migrate(doc)
<1>1. /\ t.doc = s /\ t.saved = doc /\ t.inbox = inbox /\ t.asked = asked
      /\ t.session = Hydrate(session, w.following) /\ t.effects = {} /\ t.world = w
      /\ t.missed = missed /\ DOMAIN t = TurnFields
  BY DEF Turn, TurnFields
<1> HIDE DEF t
<1>2. /\ Aside(doc, s) /\ s.playing = doc.playing
      /\ s.active.type = "onboarding" => doc.stage # "none"
      /\ s.flags = {s.active.type} \intersect Flagged
  BY MigratedFits DEF SoundInv, DocumentInv
<1> HIDE DEF s
<1>3. t.session \in Sessions
  BY <1>1, SessionFits DEF SoundInv, DocumentInv, Beneath
<1>4. Since(doc, doc.city, s) /\ SameSetup(doc, s)
  BY <1>2 DEF Aside, SameSetup, Since, SoundInv, DocumentInv, DocumentFits, SetupFits
<1>5. Turns(doc, doc.city, t)
  BY <1>1, <1>3, <1>4 DEF Turns, SoundInv, DocumentInv
<1>6. s.active.type = "onboarding" => s.stage # "none" /\ ~RatingAsked(s)
  BY <1>2 DEF Aside, SameSetup, RatingAsked
<1>7. Begins(doc, t)
  BY <1>1, <1>2, <1>4, <1>5, <1>6 DEF Begins
<1> QED BY <1>1, <1>7 DEF t, s

LEMMA AtBegins ==
  ASSUME SoundInv, NEW w, Beneath(w), NEW intent
  PROVE  /\ Begins(doc, At(w, intent)) /\ At(w, intent).doc = Passed(Migrate(doc), intent)
         /\ Turns(doc, doc.city, At(w, intent))
         /\ At(w, intent).doc.playing.item = doc.playing.item
<1> DEFINE t == Turn(w)
           s == Passed(t.doc, intent)
           u == [t EXCEPT !.doc = s]
<1>1. Begins(doc, t) /\ t.doc = Migrate(doc)
  BY TurnBegins
<1>2. At(w, intent) = u
  BY DEF At
<1> HIDE DEF t
<1>3. Turns(doc, doc.city, t) /\ DocumentFits(t.doc)
  BY <1>1, TurnFits DEF Begins
<1>4. Near(t.doc, s)
  BY <1>3, PassedFits
<1>5. s = Passed(Migrate(doc), intent)
  BY <1>1
<1> HIDE DEF s
<1>6. Turns(doc, doc.city, u) /\ u.doc = s
  BY <1>3, <1>4, TurnAside DEF Near
<1> HIDE DEF u
<1>7. SameSetup(doc, s) /\ s.playing = doc.playing
  BY <1>1, <1>4 DEF Begins, Near, Aside, SameSetup
<1>8. ASSUME s.active.type = "onboarding" PROVE s.stage # "none" /\ ~RatingAsked(s)
  <2>1. s.active = t.doc.active
    BY <1>4, <1>8 DEF Near, NoDialog
  <2>2. t.doc.stage # "none" /\ ~RatingAsked(t.doc)
    BY <1>1, <1>8, <2>1 DEF Begins
  <2> QED BY <1>4, <2>2 DEF Near, Aside, SameSetup, RatingAsked
<1>9. Begins(doc, u)
  BY <1>6, <1>7, <1>8 DEF Begins
<1> QED BY <1>2, <1>5, <1>6, <1>7, <1>9

\* An answer, or silence, whether or not the document is saved.
LEMMA Told ==
  ASSUME SoundInv, NEW u, NEW q, Answer(doc, u), ConfirmFits(q, doc), Saved(u) \/ Unsaved(u, q)
  PROVE  Step
<1>1. NoSession \in Sessions
  BY DEF NoSession, Sessions, Standings
<1>2. CASE Saved(u)
  <2>1. /\ doc' = u.doc /\ inbox' = u.inbox /\ asked' = u.asked /\ last' = u.effects
        /\ scenario' = scenario /\ missed' = u.missed
        /\ session' = IF u.asked.kind = "closed" THEN NoSession ELSE u.session
    BY <1>2 DEF Saved, SessionAfter
  <2> QED BY <1>1, <2>1 DEF Step, Answer
<1>3. CASE Unsaved(u, q)
  <2>1. /\ doc' = doc /\ inbox' = u.inbox /\ asked' = q /\ last' = {} /\ scenario' = scenario
        /\ session' = IF q.kind = "closed" THEN NoSession ELSE u.session
    BY <1>3 DEF Unsaved, SessionAfter
  <2>2. MissedFits(missed')
    BY <1>3 DEF Unsaved, Answer, MissedFits
  <2> QED BY <1>1, <2>1, <2>2 DEF Step, Answer, SoundInv, DocumentInv
<1> QED BY <1>2, <1>3

LEMMA Answered ==
  ASSUME SoundInv, NEW u, Answer(doc, u), Answers(u) PROVE Step
<1>1. ConfirmFits(Apology, doc)
  BY DEF Apology, ConfirmFits
<1> QED BY <1>1, Told DEF Answers

LEMMA QuietAnswered ==
  ASSUME SoundInv, NEW u, Quiet(doc, doc.city, u), Answers(u) PROVE Step
BY QuietAnswers, Answered

\* What is said of a recording, and yes and no.
LEMMA RatingsAnswered ==
  ASSUME SoundInv, SayEnjoyed \/ SaySomewhat \/ SayNotEnjoyed \/ SaySkip \/ SayResume \/ SayRate
         \/ SayReport \/ SayFollow \/ SayUnfollow \/ SayFollowed \/ SayHearNotices \/
         SayPlay \/ SayTrending \/ SayRecommend \/ SayUnclear \/ Yes \/ No
  PROVE  Step
<1>1. CASE SayEnjoyed
  <2>1. PICK w \in Follows : Answers(Enjoyed(At(w, "Enjoyed")))
    BY <1>1 DEF SayEnjoyed, Handles, At
  <2> QED BY <2>1, WorldsFit, AtBegins, QuietEnjoyed, QuietAnswered
<1>2. CASE SaySomewhat
  <2>1. PICK w \in Inboxes : Answers(Somewhat(At(w, "Somewhat")))
    BY <1>2 DEF SaySomewhat, Handles, At
  <2> QED BY <2>1, WorldsFit, AtBegins, QuietEnjoyed, QuietAnswered
<1>3. CASE SayNotEnjoyed
  <2>1. PICK w \in {Still} : Answers(NotEnjoyed(At(w, "NotEnjoyed")))
    BY <1>3 DEF SayNotEnjoyed, Handles, At
  <2> QED BY <2>1, WorldsFit, AtBegins, QuietNotEnjoyed, QuietAnswered
<1>4. CASE SaySkip
  <2>1. PICK w \in Inboxes : Answers(Skip(At(w, "SkipFeedback"), FALSE))
    BY <1>4 DEF SaySkip, Handles, At
  <2> QED BY <2>1, WorldsFit, AtBegins, QuietSkip, QuietAnswered
<1>5. CASE SayResume
  <2>1. PICK w \in {Still} : Answers(Restart(At(w, "Resume")))
    BY <1>5 DEF SayResume, Handles, At
  <2> QED BY <2>1, WorldsFit, AtBegins, QuietRestart, QuietAnswered
<1>6. CASE SayRate
  <2>1. PICK w \in {Still} : Answers(RequestRating(At(w, "Rate")))
    BY <1>6 DEF SayRate, Handles, At
  <2> QED BY <2>1, WorldsFit, AtBegins, QuietRequestRating, QuietAnswered
<1>7. CASE SayReport
  <2>1. PICK w \in {Still} : Answers(ReportContent(At(w, "Report")))
    BY <1>7 DEF SayReport, Handles, At
  <2> QED BY <2>1, WorldsFit, AtBegins, QuietReportContent, QuietAnswered
<1>8. CASE SayFollow
  <2>1. PICK w \in Follows : Answers(Follow(At(w, "Follow")))
    BY <1>8 DEF SayFollow, Handles, At
  <2> QED BY <2>1, WorldsFit, AtBegins, QuietFollow, QuietAnswered
<1>9. CASE SayUnfollow
  <2>1. PICK w \in Follows : Answers(Unfollow(At(w, "Unfollow")))
    BY <1>9 DEF SayUnfollow, Handles, At
  <2> QED BY <2>1, WorldsFit, AtBegins, QuietFollow, QuietAnswered
<1>10. CASE SayFollowed
  <2>1. PICK w \in Follows : Answers(PlayFollowed(At(w, "Followed")))
    BY <1>10 DEF SayFollowed, Handles, At
  <2> QED BY <2>1, WorldsFit, AtBegins, QuietPlayLatest, QuietAnswered
<1>11. CASE SayHearNotices
  <2>1. PICK w \in Inboxes :
          Answers(Offer(At(w, "HearNotices"), TRUE, Idle(At(w, "HearNotices"))))
    BY <1>11 DEF SayHearNotices, Handles, At
  <2> QED BY <2>1, WorldsFit, AtBegins, TurnIdle, QuietOffer, QuietAnswered
<1>12. CASE SayPlay
  <2>1. PICK i \in scenario.plays, w \in {Still} : Answers(Start(At(w, "Play"), i))
    BY <1>12 DEF SayPlay, Handles, At
  <2>2. i \in Items
    BY ConversationAssumption DEF SoundInv
  <2> QED BY <2>1, <2>2, WorldsFit, AtBegins, QuietStart, QuietAnswered
<1>13. CASE SayTrending
  <2>1. PICK w \in Searched : Answers(HearFound(At(w, "Trending"), "trending"))
    BY <1>13 DEF SayTrending, Handles, At
  <2> QED BY <2>1, WorldsFit, AtBegins, QuietHear, QuietAnswered
<1>14. CASE SayRecommend
  <2>1. PICK w \in Listings : Answers(BeginRecommended(At(w, "Recommend")))
    BY <1>14 DEF SayRecommend, Handles, At
  <2> QED BY <2>1, WorldsFit, AtBegins, QuietRecommended, QuietAnswered
<1>15. CASE SayUnclear
  <2>1. PICK w \in {Still} : Answers(Idle(At(w, "Unclear")))
    BY <1>15 DEF SayUnclear, Handles, At
  <2> QED BY <2>1, WorldsFit, AtBegins, TurnIdle, QuietAnswered
<1>16. CASE Yes
  <2>1. PICK w \in Follows \union Catalogues \union Devices \union Accepting :
          Answers(Affirm(At(w, "Yes")))
    BY <1>16 DEF Yes, Handles, At
  <2> QED BY <2>1, WorldsFit, AtBegins, AffirmAnswers, Answered
<1>17. CASE No
  <2>1. PICK w \in Inboxes \union Searched \union Settling("dismissed") :
          Answers(Deny(At(w, "No")))
    BY <1>17 DEF No, Handles, At
  <2> QED BY <2>1, WorldsFit, AtBegins, DenyAnswers, Answered
<1> QED BY <1>1, <1>2, <1>3, <1>4, <1>5, <1>6, <1>7, <1>8, <1>9, <1>10, <1>11, <1>12, <1>13,
           <1>14, <1>15, <1>16, <1>17

\* What ends a conversation, and what lets its question go.
LEMMA QuietStops ==
  ASSUME NEW d, NEW u, Turns(d, d.city, u)
  PROVE  /\ Quiet(d, d.city, Closes(PauseActive([u EXCEPT !.doc = ClearTransient(u.doc)])))
         /\ Quiet(d, d.city, Closes([u EXCEPT !.doc = ClearTransient(u.doc)]))
         /\ Quiet(d, d.city, Idle([u EXCEPT !.doc = DismissAmbiguity(u.doc)]))
         /\ Quiet(d, d.city, Says([u EXCEPT !.doc = Activate(u.doc, "help", NoContext)],
                                  "help", NoItem))
<1>1. DocumentFits(u.doc)
  BY TurnFits
<1>2. /\ Turns(d, d.city, [u EXCEPT !.doc = ClearTransient(u.doc)])
      /\ Turns(d, d.city, [u EXCEPT !.doc = DismissAmbiguity(u.doc)])
  BY <1>1, AsideTransient, AsideDismissAmbiguity, TurnAside
<1>3. Turns(d, d.city, [u EXCEPT !.doc = Activate(u.doc, "help", NoContext)])
  BY TurnOpens DEF DialogTypes, Flagged, Held, Transient
<1>4. Turns(d, d.city, PauseActive([u EXCEPT !.doc = ClearTransient(u.doc)]))
  BY <1>2, TurnPauses
<1> QED BY <1>2, <1>3, <1>4, TurnIdle, TurnSays

LEMMA StopsAnswered ==
  ASSUME SoundInv, SayStop \/ SayCancel \/ SayDismiss \/ SayHelp PROVE Step
<1>1. CASE SayStop
  <2> DEFINE t == At(Still, "Stop")
  <2>1. Answers(Closes(PauseActive([t EXCEPT !.doc = ClearTransient(t.doc)])))
    BY <1>1 DEF SayStop, Handles, At
  <2> HIDE DEF t
  <2>2. Turns(doc, doc.city, t)
    BY WorldsFit, AtBegins DEF t
  <2> QED BY <2>1, <2>2, QuietStops, QuietAnswered
<1>2. CASE SayCancel
  <2> DEFINE t == At(Still, "Cancel")
  <2>1. Answers(Closes([t EXCEPT !.doc = ClearTransient(t.doc)]))
    BY <1>2 DEF SayCancel, Handles, At
  <2> HIDE DEF t
  <2>2. Turns(doc, doc.city, t)
    BY WorldsFit, AtBegins DEF t
  <2> QED BY <2>1, <2>2, QuietStops, QuietAnswered
<1>3. CASE SayDismiss
  <2> DEFINE t == At(Still, "Dismiss")
  <2>1. Answers(Idle([t EXCEPT !.doc = DismissAmbiguity(t.doc)]))
    BY <1>3 DEF SayDismiss, Handles, At
  <2> HIDE DEF t
  <2>2. Turns(doc, doc.city, t)
    BY WorldsFit, AtBegins DEF t
  <2> QED BY <2>1, <2>2, QuietStops, QuietAnswered
<1>4. CASE SayHelp
  <2> DEFINE t == At(Still, "Help")
  <2>1. Answers(Says([t EXCEPT !.doc = Activate(t.doc, "help", NoContext)], "help", NoItem))
    BY <1>4 DEF SayHelp, Handles, At
  <2> HIDE DEF t
  <2>2. Turns(doc, doc.city, t)
    BY WorldsFit, AtBegins DEF t
  <2>3. Quiet(doc, doc.city, Says([t EXCEPT !.doc = Activate(t.doc, "help", NoContext)], "help", NoItem))
    BY <2>2, QuietStops
  <2> QED BY <2>1, <2>2, <2>3, QuietAnswered
<1> QED BY <1>1, <1>2, <1>3, <1>4


\* What a request names.
LEMMA NamedSearches ==
  ASSUME NEW intent \in {"Search", "Newspaper", "Publication", "FindNewspaper",
                         "FindPublication", "FindCreator"},
         NEW says \in Hears(intent)
  PROVE  says.about \in Searches
<1>1. NamedIn(intent) = Searches \ Editions
  BY DEF NamedIn
<1>2. says \in Spoken(intent)
  BY DEF Hears
<1> QED BY <1>1, <1>2 DEF Spoken

\* More and less of the meanings is asked for only while there are any.
LEMMA MeaningsWait ==
  ASSUME SoundInv, NEW intent \in {"More", "Previous"}, Taker(intent) = "handler",
         Hears(intent) # {}
  PROVE  Waits(Passed(Migrate(doc), intent))
<1> DEFINE s == Migrate(doc)
<1>1. Sayable(intent)
  BY DEF Hears, Spoken
<1>2. Choosing(s) \/ Waits(s)
  BY <1>1 DEF Sayable, ChoicesOpen, ListOpen
<1>3. ~Choosing(s)
  BY DEF Taker, TakerOf, ChoicesTake, Exits, Phrases
<1>4. Waits(s) /\ DocumentFits(s)
  BY <1>2, <1>3, MigratedFits, AsideFits DEF SoundInv, DocumentInv
<1> HIDE DEF s
<1>5. DOMAIN s = Fields
  BY <1>4, DocumentShape
<1>6. Intercepted(s, intent) = s
  BY DEF Intercepted, Phrases
<1>7. Settle(s, intent).pending = s.pending
  BY <1>5 DEF Settle, Lower, Fields
<1>8. Waits(Passed(s, intent))
  BY <1>4, <1>6, <1>7 DEF Waits, Passed
<1> QED BY <1>8 DEF s

\* While a town is asked for, nothing ambiguous is left that its answer would forget.
LEMMA TownIsWanted ==
  ASSUME NEW s, DocumentFits(s), LocationActive(s) PROVE Capturable(s)
BY DEF LocationActive, CapturingTown, Capturable, DocumentFits, CaptureFits, SetupFits

LEMMA TownAnswers ==
  ASSUME NEW d, NEW u, NEW reply, Turns(d, d.city, u)
  PROVE  /\ Quiet(d, d.city, Discover(u, PlaceSearch))
         /\ LocationActive(u.doc) => Answer(d, CaptureTown(u, reply))
         /\ LocationActive(u.doc) \/ reply = "nothing" => Answer(d, SetLocation(u, reply))
<1>1. Quiet(d, d.city, Discover(u, PlaceSearch))
  BY ConversationAssumption, QuietDiscover
<1>2. DocumentFits(u.doc)
  BY TurnFits
<1>3. LocationActive(u.doc) => Capturable(u.doc)
  BY <1>2, TownIsWanted
<1>4. /\ LocationActive(u.doc) => Confirms(d, d.city, CaptureTown(u, reply))
      /\ LocationActive(u.doc) \/ reply = "nothing" => Confirms(d, d.city, SetLocation(u, reply))
  BY <1>3, TownStagedConfirms, SetLocationConfirms
<1> QED BY <1>1, <1>4, ConfirmsAnswers

\* What the listener asks for.
LEMMA PhrasesAnswered ==
  ASSUME SoundInv, SayNext \/ SayResponse \/ SaySeveral \/ SayWords \/ SayLocal \/
         SaySetUpAccount \/ SayMore \/ SayPrevious \/ SayClarify
  PROVE  Step
<1>1. CASE SayNext
  <2>1. PICK w \in Listings :
          Answers(IF Waits(At(w, "Next").doc)
                  THEN MoreMeanings(At(w, "Next"))
                  ELSE PlayNext(At(w, "Next")))
    BY <1>1 DEF SayNext, Handles, At
  <2> QED BY <2>1, WorldsFit, AtBegins, QuietMeanings, QuietPlayNext, QuietAnswered
<1>2. CASE SayResponse
  <2>1. PICK w \in {Still} :
          Answers(IF RatingAsked(At(w, "Response").doc)
                  THEN Reject(At(w, "Response"), "Response")
                  ELSE Says(At(w, "Response"), "feedback", NoItem))
    BY <1>2 DEF SayResponse, Handles, At
  <2> DEFINE t == At(Still, "Response")
  <2>2. Begins(doc, t)
    BY WorldsFit, AtBegins
  <2>3. Answers(IF RatingAsked(t.doc) THEN Reject(t, "Response") ELSE Says(t, "feedback", NoItem))
    BY <2>1
  <2> HIDE DEF t
  <2>4. Quiet(doc, doc.city, Says(t, "feedback", NoItem))
    BY <2>2, TurnSays DEF Begins
  <2>5. RatingAsked(t.doc) => Answer(doc, Reject(t, "Response"))
    BY <2>2, RejectAnswers DEF Begins
  <2> QED BY <2>3, <2>4, <2>5, QuietAnswered, Answered
<1>3. CASE SaySeveral
  <2>1. PICK w \in Lookups : Answers(DiscoverSeveral(At(w, "Several")))
    BY <1>3 DEF SaySeveral, Handles, At
  <2> QED BY <2>1, WorldsFit, AtBegins, ConversationAssumption, QuietDiscover, QuietAnswered
<1>4. CASE SayWords
  <2>1. PICK w \in Heards : Answers(DiscoverWords(At(w, "Words")))
    BY <1>4 DEF SayWords, Handles, At
  <2> QED BY <2>1, WorldsFit, AtBegins, QuietWords, QuietAnswered
<1>5. CASE SayLocal
  <2>1. PICK w \in Listings : Answers(BeginLocal(At(w, "Local")))
    BY <1>5 DEF SayLocal, Handles, At
  <2> QED BY <2>1, WorldsFit, AtBegins, QuietBeginLocal, QuietAnswered
<1>6. CASE SaySetUpAccount
  <2>1. PICK w \in {Still} : Answers(AskProfileSetup(At(w, "SetUpAccount")))
    BY <1>6 DEF SaySetUpAccount, Handles, At
  <2> QED BY <2>1, WorldsFit, AtBegins, QuietProfile, QuietAnswered
<1>7. CASE SayMore
  <2>1. PICK w \in {Still} : Answers(MoreMeanings(At(w, "More")))
    BY <1>7 DEF SayMore, Handles, At
  <2>2. Waits(Passed(Migrate(doc), "More"))
    BY <1>7, MeaningsWait DEF SayMore, Handles
  <2> QED BY <2>1, <2>2, WorldsFit, AtBegins, QuietMeanings, QuietAnswered
<1>8. CASE SayPrevious
  <2>1. PICK w \in {Still} : Answers(PreviousMeanings(At(w, "Previous")))
    BY <1>8 DEF SayPrevious, Handles, At
  <2>2. Waits(Passed(Migrate(doc), "Previous"))
    BY <1>8, MeaningsWait DEF SayPrevious, Handles
  <2> QED BY <2>1, <2>2, WorldsFit, AtBegins, QuietMeanings, QuietAnswered
<1>9. CASE SayClarify
  <2>1. PICK w \in {Still} : Answers(Unmatched(At(w, "Clarify")))
    BY <1>9 DEF SayClarify, Handles, At
  <2> QED BY <2>1, WorldsFit, AtBegins, QuietAskMeaning, QuietAnswered
<1> QED BY <1>1, <1>2, <1>3, <1>4, <1>5, <1>6, <1>7, <1>8, <1>9

\* What is asked for by a name.
LEMMA NamesAnswered ==
  ASSUME SoundInv, SaySearch \/ SayAnySource \/ SayNewspaper \/ SayPublication \/
         SayFindNewspaper \/ SayFindPublication \/ SayFindCreator \/ SayCreators \/ SayTown
         \/ SaySetLocation
  PROVE  Step
<1>1. CASE SaySearch
  <2>1. PICK says \in Hears("Search"), w \in Lookups \union Catalogues :
          Answers(Discover(At(w, "Search"), says.about))
    BY <1>1 DEF SaySearch, Handled, At
  <2> QED BY <2>1, WorldsFit, AtBegins, NamedSearches, QuietDiscover, QuietAnswered
<1>2. CASE SayAnySource
  <2>1. PICK says \in Hears("AnySource"), w \in {Still} :
          Answers(AnySource(At(w, "AnySource"), says.about))
    BY <1>2 DEF SayAnySource, Handled, At
  <2> QED BY <2>1, WorldsFit, AtBegins, QuietAnySource, QuietAnswered
<1>3. CASE SayNewspaper
  <2>1. PICK says \in Hears("Newspaper"), w \in Lookups \union Listings :
          Answers(PlaySource(At(w, "Newspaper"), "organization", says.about))
    BY <1>3 DEF SayNewspaper, Handled, At
  <2> QED BY <2>1, WorldsFit, AtBegins, QuietPlaySource, QuietAnswered
<1>4. CASE SayPublication
  <2>1. PICK says \in Hears("Publication"), w \in Lookups \union Catalogues :
          Answers(PlaySource(At(w, "Publication"), "publication", says.about))
    BY <1>4 DEF SayPublication, Handled, At
  <2> QED BY <2>1, WorldsFit, AtBegins, QuietPlaySource, QuietAnswered
<1>5. CASE SayFindNewspaper
  <2>1. PICK says \in Hears("FindNewspaper"), w \in Lookups :
          Answers(FindSource(At(w, "FindNewspaper"), "organization", says.about))
    BY <1>5 DEF SayFindNewspaper, Handled, At
  <2> QED BY <2>1, WorldsFit, AtBegins, NamedSearches, QuietFindSource, QuietAnswered
<1>6. CASE SayFindPublication
  <2>1. PICK says \in Hears("FindPublication"), w \in Lookups :
          Answers(FindSource(At(w, "FindPublication"), "publication", says.about))
    BY <1>6 DEF SayFindPublication, Handled, At
  <2> QED BY <2>1, WorldsFit, AtBegins, NamedSearches, QuietFindSource, QuietAnswered
<1>7. CASE SayFindCreator
  <2>1. PICK says \in Hears("FindCreator"), w \in Lookups :
          Answers(FindSource(At(w, "FindCreator"), "creator", says.about))
    BY <1>7 DEF SayFindCreator, Handled, At
  <2> QED BY <2>1, WorldsFit, AtBegins, NamedSearches, QuietFindSource, QuietAnswered
<1>8. CASE SayCreators
  <2>1. PICK says \in Hears("Creators"), w \in Lookups \union Listings :
          Answers(BeginCreators(At(w, "Creators"),
                                IF says.about = NoItem THEN NoTown ELSE says.about))
    BY <1>8 DEF SayCreators, Handled, At
  <2> QED BY <2>1, WorldsFit, AtBegins, QuietCreators, QuietAnswered
<1>9. CASE SayTown
  <2>1. PICK says \in Hears("Town"), w \in Lookups \union Listings :
          Answers(IF LocationActive(At(w, "Town").doc)
                  THEN CaptureTown(At(w, "Town"), says.about)
                  ELSE Discover(At(w, "Town"), PlaceSearch))
    BY <1>9 DEF SayTown, Handled, At
  <2> QED BY <2>1, WorldsFit, AtBegins, TownAnswers, QuietAnswered, Answered
<1>10. CASE SaySetLocation
  <2>1. PICK says \in Hears("SetLocation"), w \in Lookups \union Listings :
          Answers(IF LocationActive(At(w, "SetLocation").doc) \/ says.about = "nothing"
                  THEN SetLocation(At(w, "SetLocation"), says.about)
                  ELSE Discover(At(w, "SetLocation"), PlaceSearch))
    BY <1>10 DEF SaySetLocation, Handled, At
  <2> QED BY <2>1, WorldsFit, AtBegins, TownAnswers, QuietAnswered, Answered
<1> QED BY <1>1, <1>2, <1>3, <1>4, <1>5, <1>6, <1>7, <1>8, <1>9, <1>10

LEMMA CapturedTowns ==
  ASSUME NEW intent, Taker(intent) = "capture"
  PROVE  LocationActive(Passed(Migrate(doc), intent))
BY DEF Taker, TakerOf, CaptureTakes, LocationActive

LEMMA ChoicesTaken ==
  ASSUME NEW intent, Taker(intent) = "choices" PROVE Migrate(doc).active.type = "availability"
BY DEF Taker, TakerOf, ChoicesTake, Choosing
\* What the gates before the handlers answer.
LEMMA GatesAnswered ==
  ASSUME SoundInv, SkipGate \/ ProfileGate \/ TownCaptureGate \/ OnboardingGate
                 \/ CreatorCityGate \/ NameGate
  PROVE  Step
<1>1. CASE SkipGate
  <2>1. PICK w \in Inboxes : Answers(Skip(Turn(w), TRUE))
    BY <1>1 DEF SkipGate
  <2> QED BY <2>1, WorldsFit, TurnBegins, QuietSkip, QuietAnswered DEF Begins
<1>2. CASE ProfileGate
  <2>1. PICK intent \in scenario.says : Answers(FinalizeProfileSkipped(At(Still, intent)))
    BY <1>2 DEF ProfileGate, Taken, At
  <2> QED BY <2>1, WorldsFit, AtBegins, QuietProfile, QuietAnswered
<1>3. CASE TownCaptureGate
  <2>1. PICK intent \in scenario.says, w \in Lookups : \E says \in Hears(intent) :
          /\ Taker(intent) = "capture"
          /\ Answers(IF says.intent \in {"No", "SkipFeedback", "Next", "Cancel"}
                     THEN FinalizeTownSkipped(At(w, intent))
                     ELSE CaptureTown(At(w, intent), ReplyOf(says)))
    BY <1>3 DEF TownCaptureGate, Taken, At
  <2>2. LocationActive(At(w, intent).doc)
    BY <2>1, WorldsFit, AtBegins, CapturedTowns
  <2> DEFINE t == At(w, intent)
  <2>3. Turns(doc, doc.city, t)
    BY WorldsFit, AtBegins
  <2>4. PICK reply : Answers(FinalizeTownSkipped(t)) \/ Answers(CaptureTown(t, reply))
    BY <2>1
  <2> HIDE DEF t
  <2>5. CASE Answers(FinalizeTownSkipped(t))
    BY <2>3, <2>5, QuietTownSkipped, QuietAnswered
  <2>6. CASE Answers(CaptureTown(t, reply))
    <3>1. Answer(doc, CaptureTown(t, reply))
      BY <2>2, <2>3, TownAnswers DEF t
    <3> QED BY <2>6, <3>1, Answered
  <2> QED BY <2>4, <2>5, <2>6
<1>4. CASE OnboardingGate
  <2>1. PICK intent \in scenario.says, w \in Devices \union Lookups :
          \E says \in Hears(intent) : Answers(Gate(At(w, intent), says.intent, ReplyOf(says)))
    BY <1>4 DEF OnboardingGate, Taken, At
  <2>2. IsNew(doc)
    BY <1>4 DEF OnboardingGate
  <2> QED BY <2>1, <2>2, WorldsFit, AtBegins, GateAnswers, Answered
<1>5. CASE CreatorCityGate
  <2>1. PICK intent \in scenario.says, w \in Lookups \union Listings :
          Answers(BeginCreators(At(w, intent), DeviceTown))
    BY <1>5 DEF CreatorCityGate, Taken, At
  <2> QED BY <2>1, WorldsFit, AtBegins, QuietCreators, QuietAnswered
<1>6. CASE NameGate
  <2>1. PICK intent \in scenario.says, w \in Lookups \union Searched :
          \E says \in Hears(intent) :
          Answers(IF says.intent = "Several" THEN DiscoverSeveral(At(w, intent))
                  ELSE AnswerName(At(w, intent), At(w, intent).doc.active.type, says.about))
    BY <1>6 DEF NameGate, Taken, At
  <2> QED BY <2>1, WorldsFit, AtBegins, ConversationAssumption, QuietDiscover, QuietAnswerName,
             QuietAnswered
<1> QED BY <1>1, <1>2, <1>3, <1>4, <1>5, <1>6

LEMMA ChoicesAnswered ==
  ASSUME SoundInv, MoreChoices \/ PreviousChoices \/ OneChoice \/ YesToChoices \/ NoToChoices
                 \/ NoneOfThem \/ NoChoice
  PROVE  Step
<1>1. CASE MoreChoices
  <2>1. PICK w \in Listings : Answers(More(Turn(w)))
    BY <1>1 DEF MoreChoices, AtChoices
  <2>2. Migrate(doc).active.type = "availability"
    BY <1>1, ChoicesTaken DEF MoreChoices, AtChoices
  <2> QED BY <2>1, <2>2, WorldsFit, TurnBegins, QuietMore, QuietPrevious, QuietReread,
      QuietAnswered DEF Begins
<1>2. CASE PreviousChoices
  <2>1. PICK w \in Listings : Answers(Previous(Turn(w)))
    BY <1>2 DEF PreviousChoices, AtChoices
  <2>2. Migrate(doc).active.type = "availability"
    BY <1>2, ChoicesTaken DEF PreviousChoices, AtChoices
  <2> QED BY <2>1, <2>2, WorldsFit, TurnBegins, QuietMore, QuietPrevious, QuietReread,
      QuietAnswered DEF Begins
<1>3. CASE OneChoice
  <2>1. PICK says \in Hears("Choose"), w \in Catalogues : Answers(Choose(Turn(w), says.about))
    BY <1>3 DEF OneChoice, AtChoices
  <2>2. Migrate(doc).active.type = "availability"
    BY <1>3, ChoicesTaken DEF OneChoice, AtChoices
  <2> QED BY <2>1, <2>2, WorldsFit, TurnBegins, QuietChoose, QuietChooseYes,
      QuietChooseNo, QuietAnswered DEF Begins
<1>4. CASE YesToChoices
  <2>1. PICK w \in Catalogues : Answers(ChooseYes(Turn(w)))
    BY <1>4 DEF YesToChoices, AtChoices
  <2>2. Migrate(doc).active.type = "availability"
    BY <1>4, ChoicesTaken DEF YesToChoices, AtChoices
  <2> QED BY <2>1, <2>2, WorldsFit, TurnBegins, QuietChoose, QuietChooseYes,
      QuietChooseNo, QuietAnswered DEF Begins
<1>5. CASE NoToChoices
  <2>1. PICK w \in Searched : Answers(ChooseNo(Turn(w)))
    BY <1>5 DEF NoToChoices, AtChoices
  <2> QED BY <2>1, WorldsFit, TurnBegins, QuietChoose, QuietChooseYes,
      QuietChooseNo, QuietAnswered DEF Begins
<1>6. CASE NoneOfThem
  <2>1. Answers(NothingThere(Turn(Still)))
    BY <1>6 DEF NoneOfThem, AtChoices
  <2> QED BY <2>1, WorldsFit, TurnBegins, QuietHear, QuietAnswered DEF Begins
<1>7. CASE NoChoice
  <2>1. Answers(Reread(Turn(Still)))
    BY <1>7 DEF NoChoice, AtChoices
  <2>2. Migrate(doc).active.type = "availability"
    BY <1>7, ChoicesTaken DEF NoChoice, AtChoices
  <2> QED BY <2>1, <2>2, WorldsFit, TurnBegins, QuietMore, QuietPrevious, QuietReread,
      QuietAnswered DEF Begins
<1> QED BY <1>1, <1>2, <1>3, <1>4, <1>5, <1>6, <1>7


LEMMA RefuseAnswered == ASSUME SoundInv, Refuse PROVE Step
<1>1. PICK intent \in scenario.says : \E says \in Spoken(intent) :
        Refused(says) /\ Answers(Reject(Turn(Still), intent))
  BY DEF Refuse
<1>2. Migrate(doc).active.type = "onboarding" => Migrate(doc).stage # "ask_town"
  BY <1>1 DEF Refused, Accepted, Captured
<1>3. Begins(doc, Turn(Still)) /\ Turn(Still).doc = Migrate(doc)
  BY WorldsFit, TurnBegins
<1>4. Answer(doc, Reject(Turn(Still), intent))
  BY <1>2, <1>3, RejectAnswers
<1> QED BY <1>1, <1>4, Answered

LEMMA LaunchAnswered == ASSUME SoundInv, Launch PROVE Step
<1>1. PICK w \in Follows :
        LET t == [Turn(w) EXCEPT !.session = Hydrate(NoSession, w.following)]
        IN  Answers(IF RatingAsked(t.doc)
                    THEN Says(t, "feedback", t.doc.pending["feedback"].about)
                    ELSE IF IsNew(t.doc) THEN AskForPermission(t)
                    ELSE LaunchReturning(Known(t)))
  BY DEF Launch
<1> DEFINE begun == Turn(w)
           n == Hydrate(NoSession, w.following)
           t == [begun EXCEPT !.session = n]
           asking == Says(t, "feedback", t.doc.pending["feedback"].about)
<1>2. Answers(IF RatingAsked(t.doc) THEN asking
              ELSE IF IsNew(t.doc) THEN AskForPermission(t) ELSE LaunchReturning(Known(t)))
  BY <1>1
<1>3. Turns(doc, doc.city, begun) /\ Beneath(w)
  BY WorldsFit, TurnBegins DEF Begins
<1>4. n \in Sessions
  <2>1. NoSession \in Sessions
    BY DEF NoSession, Sessions, Standings
  <2> QED BY <1>3, <2>1, SessionFits DEF Beneath
<1> HIDE DEF begun, n
<1>5. Turns(doc, doc.city, t)
  BY <1>3, <1>4, TurnSession
<1> HIDE DEF t
<1>6. ~IsNew(t.doc) => Turns(doc, doc.city, Known(t))
  <2> DEFINE r == RepairSetup(t.doc)
             s == [r EXCEPT !.known = TRUE]
  <2>1. Onward(t.doc, r) /\ DocumentFits(r)
    <3>1. DocumentFits(t.doc)
      BY <1>5, TurnFits
    <3>2. CASE t.doc.onboarded
      BY <3>1, <3>2, SetupForgotten, OnwardFits
    <3>3. CASE ~t.doc.onboarded
      BY <3>1, <3>3, OnwardSelf DEF RepairSetup
    <3> QED BY <3>2, <3>3
  <2> HIDE DEF r
  <2>2. Onward(t.doc, s)
    BY <2>1, KnownFits, OnwardTrans
  <2> HIDE DEF s
  <2>3. Turns(doc, doc.city, [t EXCEPT !.doc = s])
    BY <1>5, <2>2, TurnDoc
  <2> QED BY <2>3 DEF Known, s, r
<1>7. Quiet(doc, doc.city, asking)
  BY <1>5, TurnSays
<1>8. IsNew(t.doc) => Quiet(doc, doc.city, AskForPermission(t))
  BY <1>5, QuietPermission
<1>9. ~IsNew(t.doc) => Quiet(doc, doc.city, LaunchReturning(Known(t)))
  BY <1>6, QuietLaunchReturning
<1> HIDE DEF asking
<1> QED BY <1>2, <1>7, <1>8, <1>9, QuietAnswered

LEMMA EndAnswered == ASSUME SoundInv, EndSession PROVE Step
<1> DEFINE t == Turn(Still)
           f == Flush(t)
           u == Closes([f EXCEPT !.doc = ClearTransient(f.doc)])
<1>1. Saved(u) \/ Unsaved(u, Silence)
  BY DEF EndSession
<1>2. Turns(doc, doc.city, t)
  BY WorldsFit, TurnBegins DEF Begins
<1> HIDE DEF t
<1>3. Turns(doc, doc.city, f)
  BY <1>2, TurnPauses
<1> HIDE DEF f
<1>4. Quiet(doc, doc.city, u)
  BY <1>3, QuietStops
<1> HIDE DEF u
<1>5. ConfirmFits(Silence, doc)
  BY DEF Silence, ConfirmFits
<1> QED BY <1>1, <1>4, <1>5, QuietAnswers, Told

-----------------------------------------------------------------------------
(* Events of the player, and time. *)

\* An event asks nothing, and leaves the setup as it is.
LEMMA EventAnswered ==
  ASSUME SoundInv, NEW u, Turns(doc, doc.city, u), SameSetup(doc, u.doc), u.asked = asked,
         Event(u)
  PROVE  Step
<1>1. Confirms(doc, doc.city, u) /\ ConfirmFits(asked, doc)
  BY DEF Confirms, ConfirmFits, SameSetup, SoundInv, DocumentInv
<1> QED BY <1>1, ConfirmsAnswers, Told DEF Event

LEMMA EventResolved ==
  ASSUME SoundInv, NEW u, NEW i, NEW status \in {"consumed", "pending"},
         Turns(doc, doc.city, u), SameSetup(doc, u.doc), u.asked = asked,
         Event(ResolveNotice(u, i, status))
  PROVE  Step
<1>1. status \in InboxStatuses
  BY DEF InboxStatuses
<1>2. /\ Turns(doc, doc.city, ResolveNotice(u, i, status))
      /\ SameSetup(doc, ResolveNotice(u, i, status).doc)
      /\ ResolveNotice(u, i, status).asked = asked
  BY <1>1, TurnResolved DEF Aside, SameSetup
<1> QED BY <1>2, EventAnswered

\* The status of what plays, and whether what comes next is prepared.
LEMMA AsideStatus ==
  ASSUME NEW s, NEW status \in Statuses, NEW b, DocumentFits(s)
  PROVE  LET r == [s EXCEPT !.playing = [s.playing EXCEPT !.status = status]]
             q == [s EXCEPT !.playing = [s.playing EXCEPT !.status = status], !.prepared = FALSE]
         IN  /\ Aside(s, r) /\ r.playing.item = s.playing.item
             /\ Aside(s, q) /\ Aside(s, [s EXCEPT !.prepared = b])
<1> DEFINE p == [s.playing EXCEPT !.status = status]
           r == [s EXCEPT !.playing = p]
           q == [s EXCEPT !.playing = p, !.prepared = FALSE]
           f == [s EXCEPT !.prepared = b]
<1>1. s.playing \in [item : Items \union {NoItem}, status : Statuses] /\ DOMAIN s = Fields
  BY DocumentShape DEF PlayingFits
<1>2. p \in [item : Items \union {NoItem}, status : Statuses] /\ p.item = s.playing.item
  BY <1>1
<1> HIDE DEF p
<1>3. ASSUME NEW x \in {r, q, f}
      PROVE  /\ DOMAIN x = Fields /\ SameSetup(s, x) /\ x.active = s.active
             /\ x.flags = s.flags /\ x.pending = s.pending /\ x.topic = s.topic
             /\ x.answered = s.answered /\ x.latest = s.latest /\ x.playing \in {p, s.playing}
  BY <1>1, <1>3 DEF Fields, SameSetup
<1>4. r.playing = p
  BY <1>1 DEF Fields
<1> HIDE DEF r, q, f
<1>5. ASSUME NEW x \in {r, q, f} PROVE Aside(s, x)
  BY <1>1, <1>2, <1>3, <1>5, FitsBeside DEF Aside
<1>6. Aside(s, r) /\ Aside(s, q) /\ Aside(s, f)
  BY <1>5
<1> QED BY <1>2, <1>4, <1>6 DEF r, q, f, p

\* A turn of an event, in whatever world.
Eventful(t) ==
  /\ Turns(doc, doc.city, t) /\ SameSetup(doc, t.doc) /\ t.asked = asked
  /\ t.doc.playing.item = doc.playing.item

LEMMA EventBegins == ASSUME SoundInv, NEW w, Beneath(w) PROVE Eventful(Turn(w))
BY TurnBegins, TurnFits DEF Begins, Eventful

LEMMA EventDoc ==
  ASSUME NEW t, NEW s, Eventful(t), Aside(t.doc, s)
  PROVE  /\ Turns(doc, doc.city, [t EXCEPT !.doc = s])
         /\ SameSetup(doc, [t EXCEPT !.doc = s].doc) /\ [t EXCEPT !.doc = s].asked = asked
         /\ [t EXCEPT !.doc = s].doc = s
<1>1. /\ Turns(doc, doc.city, [t EXCEPT !.doc = s]) /\ [t EXCEPT !.doc = s].doc = s
      /\ [t EXCEPT !.doc = s].asked = asked
  BY TurnAside DEF Eventful
<1>2. SameSetup(doc, s)
  BY DEF Eventful, Aside, SameSetup
<1> QED BY <1>1, <1>2

LEMMA EventStatus ==
  ASSUME NEW t, NEW status \in Statuses, Eventful(t)
  PROVE  LET p == [t.doc.playing EXCEPT !.status = status]
             r == [t.doc EXCEPT !.playing = p]
             q == [t.doc EXCEPT !.playing = p, !.prepared = FALSE]
         IN  /\ Aside(t.doc, r) /\ r.playing.item = doc.playing.item
             /\ Aside(t.doc, q) /\ Aside(t.doc, [t.doc EXCEPT !.prepared = TRUE])
             /\ [t EXCEPT !.doc.playing.status = status] = [t EXCEPT !.doc = r]
             /\ [t EXCEPT !.doc.playing.status = status, !.doc.prepared = FALSE]
                  = [t EXCEPT !.doc = q]
             /\ [t EXCEPT !.doc.prepared = TRUE]
                  = [t EXCEPT !.doc = [t.doc EXCEPT !.prepared = TRUE]]
<1> DEFINE p == [t.doc.playing EXCEPT !.status = status]
           r == [t.doc EXCEPT !.playing = p]
           q == [t.doc EXCEPT !.playing = p, !.prepared = FALSE]
           f == [t.doc EXCEPT !.prepared = TRUE]
<1>1. DOMAIN t = TurnFields /\ DocumentFits(t.doc) /\ t.doc.playing.item = doc.playing.item
  BY TurnFits DEF Eventful
<1>2. Aside(t.doc, r) /\ r.playing.item = doc.playing.item /\ Aside(t.doc, q) /\ Aside(t.doc, f)
  BY <1>1, AsideStatus
<1>3. /\ [t EXCEPT !.doc.playing.status = status] = [t EXCEPT !.doc = r]
      /\ [t EXCEPT !.doc.playing.status = status, !.doc.prepared = FALSE] = [t EXCEPT !.doc = q]
      /\ [t EXCEPT !.doc.prepared = TRUE] = [t EXCEPT !.doc = f]
  BY <1>1, DocumentShape DEF TurnFields, Fields
<1> QED BY <1>2, <1>3

LEMMA EventsAnswered ==
  ASSUME SoundInv, PlaybackStarted \/ PlaybackNearlyFinished \/ PlaybackProgress
                     \/ PlaybackFinished \/ SuccessorStarted \/ PlaybackFailed
  PROVE  Step
<1> DEFINE i == doc.playing.item
<1>1. i \in Items \union {NoItem} /\ DocumentFits(doc)
  BY DocumentShape DEF SoundInv, DocumentInv
<1>2. /\ Eventful(Turn(Still))
      /\ \A status : \A w \in Settling(status) : Eventful(Turn(w))
  BY WorldsFit, EventBegins
<1>3. CASE PlaybackStarted
  <2>1. PICK w \in Settling("consumed") :
          Event(ResolveNotice([Turn(w) EXCEPT !.doc.playing.status = "playing"], i, "consumed"))
    BY <1>3 DEF PlaybackStarted
  <2> DEFINE t == Turn(w)
             s == [t.doc EXCEPT !.playing = [t.doc.playing EXCEPT !.status = "playing"]]
             u == [t EXCEPT !.doc = s]
  <2>2. Eventful(t)
    BY <1>2
  <2>3. Event(ResolveNotice([t EXCEPT !.doc.playing.status = "playing"], i, "consumed"))
    BY <2>1
  <2> HIDE DEF t
  <2>4. Aside(t.doc, s) /\ [t EXCEPT !.doc.playing.status = "playing"] = u
    BY <2>2, EventStatus DEF Statuses
  <2> HIDE DEF s
  <2>5. Turns(doc, doc.city, u) /\ SameSetup(doc, u.doc) /\ u.asked = asked
    BY <2>2, <2>4, EventDoc
  <2>6. Event(ResolveNotice(u, i, "consumed"))
    BY <2>3, <2>4
  <2> HIDE DEF u
  <2> QED BY <2>5, <2>6, EventResolved
<1>4. CASE PlaybackFailed
  <2>1. PICK w \in Settling("pending") :
          Event(ResolveNotice([Turn(w) EXCEPT !.doc.playing.status = "failed",
                                              !.doc.prepared = FALSE], i, "pending"))
    BY <1>4 DEF PlaybackFailed
  <2> DEFINE t == Turn(w)
             s == [t.doc EXCEPT !.playing = [t.doc.playing EXCEPT !.status = "failed"],
                                !.prepared = FALSE]
             u == [t EXCEPT !.doc = s]
  <2>2. Eventful(t)
    BY <1>2
  <2>3. Event(ResolveNotice([t EXCEPT !.doc.playing.status = "failed", !.doc.prepared = FALSE],
                            i, "pending"))
    BY <2>1
  <2> HIDE DEF t
  <2>4. /\ Aside(t.doc, s)
        /\ [t EXCEPT !.doc.playing.status = "failed", !.doc.prepared = FALSE] = u
    BY <2>2, EventStatus DEF Statuses
  <2> HIDE DEF s
  <2>5. Turns(doc, doc.city, u) /\ SameSetup(doc, u.doc) /\ u.asked = asked
    BY <2>2, <2>4, EventDoc
  <2>6. Event(ResolveNotice(u, i, "pending"))
    BY <2>3, <2>4
  <2> HIDE DEF u
  <2> QED BY <2>5, <2>6, EventResolved
<1>5. CASE SuccessorStarted
  <2> DEFINE j == NextOf(i)
  <2>1. PICK w \in Settling("consumed") :
          Event(ResolveNotice([Turn(w) EXCEPT
                  !.doc = [StartSession(@, j) EXCEPT !.playing.status = "playing"]],
                  j, "consumed"))
    BY <1>5 DEF SuccessorStarted
  <2> DEFINE t == Turn(w)
             a == StartSession(t.doc, j)
             s == [a EXCEPT !.playing = [a.playing EXCEPT !.status = "playing"]]
             u == [t EXCEPT !.doc = s]
  <2>2. Eventful(t)
    BY <1>2
  <2>3. Event(ResolveNotice([t EXCEPT !.doc = [a EXCEPT !.playing.status = "playing"]],
                            j, "consumed"))
    BY <2>1
  <2>4. j \in Items \union {NoItem}
    BY SuccessorFits
  <2> HIDE DEF t, i, j
  <2>5. Aside(t.doc, a)
    BY <2>2, <2>4, TurnFits, AsideSession DEF Eventful
  <2> HIDE DEF a
  <2>6. DocumentFits(a)
    BY <2>2, <2>5, TurnFits, AsideFits DEF Eventful
  <2>7. Aside(a, s)
    BY <2>6, AsideStatus DEF Statuses
  <2>8. [a EXCEPT !.playing.status = "playing"] = s
    BY <2>6, DocumentShape DEF Fields
  <2> HIDE DEF s
  <2>9. Aside(t.doc, s)
    BY <2>5, <2>7, AsideTrans
  <2>10. Turns(doc, doc.city, u) /\ SameSetup(doc, u.doc) /\ u.asked = asked
    BY <2>2, <2>9, EventDoc
  <2>11. Event(ResolveNotice(u, j, "consumed"))
    BY <2>3, <2>8
  <2> HIDE DEF u
  <2> QED BY <2>10, <2>11, EventResolved
<1> DEFINE t == Turn(Still)
<1>6. Eventful(t)
  BY <1>2
<1>7. CASE PlaybackNearlyFinished
  <2> DEFINE s == [t.doc EXCEPT !.prepared = TRUE]
             u == [t EXCEPT !.doc = s]
  <2>1. Event([t EXCEPT !.doc.prepared = TRUE])
    BY <1>7 DEF PlaybackNearlyFinished
  <2> HIDE DEF t
  <2>2. Aside(t.doc, s) /\ [t EXCEPT !.doc.prepared = TRUE] = u
    BY <1>6, EventStatus DEF Statuses
  <2> HIDE DEF s
  <2>3. Turns(doc, doc.city, u) /\ SameSetup(doc, u.doc) /\ u.asked = asked
    BY <1>6, <2>2, EventDoc
  <2>4. Event(u)
    BY <2>1, <2>2
  <2> HIDE DEF u
  <2> QED BY <2>3, <2>4, EventAnswered
<1>8. CASE PlaybackProgress
  <2> DEFINE s == Heard(t.doc, i)
             u == [t EXCEPT !.doc = s]
  <2>1. Event(u)
    BY <1>8 DEF PlaybackProgress
  <2> HIDE DEF t
  <2>2. Aside(t.doc, s)
    BY <1>1, <1>6, TurnFits, AsidePublication DEF Eventful
  <2> HIDE DEF s
  <2>3. Turns(doc, doc.city, u) /\ SameSetup(doc, u.doc) /\ u.asked = asked
    BY <1>6, <2>2, EventDoc
  <2> HIDE DEF u
  <2> QED BY <2>1, <2>3, EventAnswered
<1>9. CASE PlaybackFinished
  <2> DEFINE a == [t.doc EXCEPT !.playing = [t.doc.playing EXCEPT !.status = "completed"]]
             r == IF scenario.sourced THEN SaveCompletedSource(a, i) ELSE a
             s == RateFinished(r, i)
             b == [t EXCEPT !.doc.playing.status = "completed"]
             u == [t EXCEPT !.doc = a]
             v == [b EXCEPT !.doc =
                     RateFinished(IF scenario.sourced THEN SaveCompletedSource(@, i) ELSE @, i)]
             w == [t EXCEPT !.doc = s]
  <2>1. Event(v)
    BY <1>9 DEF PlaybackFinished
  <2> HIDE DEF i, t
  <2>2. Aside(t.doc, a) /\ a.playing.item = i /\ b = u
    BY <1>6, EventStatus DEF Statuses, i
  <2>3. DOMAIN t = TurnFields /\ DocumentFits(t.doc)
    BY <1>6, TurnFits DEF Eventful
  <2> HIDE DEF a, b
  <2>4. v = w
    BY <2>2, <2>3 DEF TurnFields
  <2>5. DocumentFits(a)
    BY <2>2, <2>3, AsideFits
  <2>6. Aside(a, r) /\ r.playing = a.playing
    BY <1>1, <2>5, AsidePublication, AsideSelf
  <2> HIDE DEF r
  <2>7. Aside(r, s)
    BY <2>2, <2>5, <2>6, AsideFits, AsideFinished
  <2> HIDE DEF s
  <2>8. Aside(t.doc, s)
    BY <2>2, <2>6, <2>7, AsideTrans
  <2>9. Turns(doc, doc.city, w) /\ SameSetup(doc, w.doc) /\ w.asked = asked
    BY <1>6, <2>8, EventDoc
  <2> HIDE DEF v, w
  <2> QED BY <2>1, <2>4, <2>9, EventAnswered
<1> QED BY <1>3, <1>4, <1>5, <1>7, <1>8, <1>9

LEMMA WaitAnswered == ASSUME SoundInv, Wait PROVE Step
<1> DEFINE s == [doc EXCEPT !.active = Aged(doc.active), !.fresh.search = Less(doc.fresh.search),
                            !.fresh.ambiguity = Less(doc.fresh.ambiguity)]
<1>1. /\ doc' = s /\ UNCHANGED <<inbox, missed, scenario>> /\ last' = {} /\ session' = NoSession
      /\ asked'.kind = "closed"
  BY DEF Wait, Silence
<1>2. DocumentFits(doc) /\ DOMAIN doc = Fields /\ DOMAIN doc.active = {"type", "context", "left"}
  BY DocumentShape DEF SoundInv, DocumentInv
<1>3. /\ DOMAIN s = Fields /\ s.active = Aged(doc.active) /\ s.flags = doc.flags
      /\ s.pending = doc.pending /\ s.topic = doc.topic /\ SameSetup(doc, s)
      /\ s.playing = doc.playing /\ s.answered = doc.answered /\ s.latest = doc.latest
  BY <1>2 DEF Fields, SameSetup
<1>4. DOMAIN s.active = DOMAIN doc.active /\ s.active.type = doc.active.type
      /\ s.active.context = doc.active.context
  BY <1>2, <1>3 DEF Aged
<1> HIDE DEF s
<1>5. DialogFits(s)
  BY <1>2, <1>3, <1>4 DEF DocumentFits, DialogFits
<1>6. SetupFits(s) /\ PlayingFits(s) /\ CaptureFits(s)
  BY <1>2, <1>3, <1>4 DEF DocumentFits, SetupFits, PlayingFits, CaptureFits, SameSetup
<1>7. RatingFits(s)
  BY <1>2, <1>3, <1>4 DEF DocumentFits, RatingFits, RatesActive, RatingAsked
<1>8. NoSession \in Sessions
  BY DEF NoSession, Sessions, Standings
<1> QED BY <1>1, <1>3, <1>5, <1>6, <1>7, <1>8
        DEF Step, DocumentFits, ConfirmFits, SameSetup, SoundInv, DocumentInv

LEMMA Stepped == ASSUME SoundInv, Next PROVE Step
BY RefuseAnswered, GatesAnswered, ChoicesAnswered, RatingsAnswered, StopsAnswered,
     PhrasesAnswered, NamesAnswered, LaunchAnswered, EndAnswered, EventsAnswered,
     WaitAnswered DEF Next

-----------------------------------------------------------------------------
(* Theorems. *)

LEMMA InitFits == Init => SoundInv
<1> SUFFICES ASSUME Init PROVE SoundInv
  OBVIOUS
<1>1. /\ scenario \in Scenarios /\ DOMAIN doc = Fields /\ doc.active = NoDialog /\ doc.flags = {}
      /\ doc.pending = [k \in Held |-> NoContext] /\ doc.topic = NoSearch
      /\ doc.stage = "none" /\ doc.setup = NothingSetUp
      /\ doc.onboarded \in BOOLEAN /\ doc.known \in BOOLEAN
      /\ doc.city \in {DeviceTown, NoTown} /\ doc.playing = [item |-> NoItem, status |-> "none"]
      /\ doc.latest = [finished |-> NoItem, offered |-> NoItem]
  BY DEF Init, Fields
<1>2. /\ inbox = [n \in Notices |-> "pending"] /\ session = NoSession /\ asked.kind = "closed"
      /\ MissedFits(missed)
  BY DEF Init, Silence, MissedFits
<1>3. DialogFits(doc)
  BY <1>1 DEF DialogFits, NoDialog, Held, Flagged
<1>4. SetupFits(doc)
  <2>1. NothingSetUp \in Setups /\ ~NothingSetUp.permission
    BY SetupAssumption DEF NothingSetUp, Setups
  <2>2. DeviceTown \in Towns
    BY FindingAssumption
  <2> QED BY <1>1, <2>1, <2>2 DEF SetupFits, Stages
<1>5. PlayingFits(doc)
  BY <1>1 DEF PlayingFits, Statuses
<1>6. RatingFits(doc)
  <2>1. doc.pending["feedback"] = NoContext /\ ~RatingAsked(doc) /\ doc.active.type = "none"
    BY <1>1 DEF Held, RatingAsked, NoDialog
  <2> QED BY <2>1 DEF RatingFits
<1>7. CaptureFits(doc)
  BY <1>1 DEF CaptureFits, NoDialog
<1>8. inbox \in [Notices -> InboxStatuses] /\ session \in Sessions
  BY <1>2 DEF InboxStatuses, NoSession, Sessions, Standings
<1> QED BY <1>1, <1>2, <1>3, <1>4, <1>5, <1>6, <1>7, <1>8
        DEF SoundInv, DocumentInv, DocumentFits, ConfirmFits

LEMMA NextFits == SoundInv /\ [Next]_vars => SoundInv'
<1> SUFFICES ASSUME SoundInv, [Next]_vars PROVE SoundInv'
  OBVIOUS
<1>1. CASE Next
  <2>1. Step
    BY <1>1, Stepped
  <2>2. DocumentFits(doc)' /\ ConfirmFits(asked, doc)'
    BY <2>1 DEF Step
  <2> QED BY <2>1, <2>2 DEF Step, SoundInv, DocumentInv
<1>2. CASE UNCHANGED vars
  BY <1>2 DEF vars, SoundInv, DocumentInv
<1> QED BY <1>1, <1>2

\* Every conversation keeps the document in order: what each dialogue holds is of its
\* kind, a list of choices stays within the catalogue's pages, a rating is about the
\* recording that is active, and the town that is read out is the town that a yes saves.
THEOREM DocumentIsSound == Spec => []SoundInv
BY InitFits, NextFits, PTL DEF Spec

THEOREM ConversationIsTyped == Spec => []TypeOK
<1>1. SoundInv => TypeOK
  <2> SUFFICES ASSUME SoundInv PROVE TypeOK
    OBVIOUS
  <2>1. DialogFits(doc) /\ SetupFits(doc) /\ PlayingFits(doc)
    BY DEF SoundInv, DocumentInv, DocumentFits
  <2>2. doc.setup.attempts \in 0..(MaxTownAttempts - 1)
        /\ doc.setup.failures \in 0..(MaxTownFailures - 1)
    BY <2>1 DEF SetupFits, Setups
  <2> QED BY <2>1, <2>2 DEF SoundInv, DocumentInv, DialogFits, SetupFits, PlayingFits, TypeOK
<1> QED BY <1>1, DocumentIsSound, PTL

\* A subject that was rated or passed over is not asked about again, unless the listener
\* asks to rate it (feedback_state.py, feedback.py): whichever of a finished recording, a
\* publication that another recording interrupts, and a launch raises the question.
THEOREM NobodyIsAskedTwice == Spec => []NotAskedTwice
<1>1. SoundInv => NotAskedTwice
  BY DEF SoundInv, DocumentInv, DocumentFits, RatingFits, RatesActive, NotAskedTwice
<1> QED BY <1>1, DocumentIsSound, PTL

\* Where the catalogue gives no empty page and names nothing twice on a page, a list of
\* choices never lists one twice and never reads out an empty page, however it is paged
\* through (choice_pages.py, choice_state.py).
THEOREM ChoicesStayReadable == PagesListed => (Spec => []ChoicesReadable)
<1>1. PagesListed /\ SoundInv => ChoicesReadable
  <2> SUFFICES ASSUME PagesListed, SoundInv, doc.active.type = "availability"
               PROVE  Displayed(doc.active.context) # <<>> /\ Distinct(doc.active.context.all)
    BY DEF ChoicesReadable
  <2>1. ListFits(doc.active.context)
    BY DEF SoundInv, DocumentInv, DocumentFits, DialogFits
  <2> QED BY <2>1, ShownFits DEF ListFits
<1>2. ASSUME PagesListed PROVE Spec => []ChoicesReadable
  <2>1. SoundInv => ChoicesReadable
    BY <1>1, <1>2
  <2> QED BY <2>1, DocumentIsSound, PTL
<1> QED BY <1>2

\* A rating is recorded of the recording that is still the active one, whatever has
\* started between the question and the answer (feedback.py, playback_state.py).
THEOREM RatedIsActive == Spec => InterruptedIsActive
<1>1. SoundInv /\ [Next]_vars =>
        [\A e \in last' :
           LET p == doc.pending["feedback"]
           IN  e[1] \in {"enjoyed", "somewhat", "skipped"} /\ p # NoContext /\ Interrupted(p)
                 => SubjectOf(doc.playing.item) = e[2]]_vars
  <2> SUFFICES ASSUME SoundInv, Next, NEW e \in last', e[1] \in {"enjoyed", "somewhat", "skipped"}
               PROVE  SubjectOf(doc.playing.item) = e[2]
    OBVIOUS
  <2>1. Step
    BY Stepped
  <2> QED BY <2>1 DEF Step, RatedKinds
<1> QED BY <1>1, DocumentIsSound, PTL DEF Spec, InterruptedIsActive

\* The setup of a new listener that ends without asking for a town has ended for good:
\* nothing leaves them out of the setup and still new.
THEOREM SetupIsOver == Spec => SetupEndsForGood
<1>1. SoundInv /\ [Next]_vars =>
        [IsNew(doc) /\ doc.stage # "none" /\ doc'.stage = "none" /\ asked'.kind # "town" =>
           ~IsNew(doc')]_vars
  <2> SUFFICES ASSUME SoundInv, Next, IsNew(doc), doc.stage # "none", doc'.stage = "none",
                      asked'.kind # "town"
               PROVE  ~IsNew(doc')
    OBVIOUS
  <2>1. Step
    BY Stepped
  <2> QED BY <2>1 DEF Step
<1> QED BY <1>1, DocumentIsSound, PTL DEF Spec, SetupEndsForGood

\* The town that is saved after the listener was asked to confirm one is the town that was
\* read out, unless a question about the profile is older: no search, no list and no
\* dialogue between the question and the answer puts another in its place.
THEOREM SavedIsConfirmed == Spec => TownConfirmed
<1>1. SoundInv /\ [Next]_vars =>
        [asked.kind = "confirm_city" /\ ~doc.setup.consent /\ doc'.city # doc.city =>
           doc'.city = asked.about]_vars
  <2> SUFFICES ASSUME SoundInv, Next, asked.kind = "confirm_city", ~doc.setup.consent,
                      doc'.city # doc.city
               PROVE  doc'.city = asked.about
    OBVIOUS
  <2>1. Saves(doc, doc'.city)
    BY Stepped DEF Step
  <2>2. /\ asked.about = doc.setup.candidate /\ doc.stage = "await_location_confirm"
        /\ doc.setup.permission => doc.setup.candidate # NoTown
    BY DEF SoundInv, DocumentInv, ConfirmFits
  <2> QED BY <2>1, <2>2 DEF Saves
<1> QED BY <1>1, DocumentIsSound, PTL DEF Spec, TownConfirmed

\* A request for local content that waited for a town is taken up in the very request that
\* saves the town, of a listener who is not new.
THEOREM LocalIsResumed == Spec => CommunityResumes
<1>1. SoundInv /\ [Next]_vars =>
        [doc.setup.community /\ doc.city = NoTown /\ doc'.city # NoTown /\ ~IsNew(doc) =>
           <<"list", "local">> \in last']_vars
  <2> SUFFICES ASSUME SoundInv, Next, doc.setup.community, doc.city = NoTown, doc'.city # NoTown,
                      ~IsNew(doc)
               PROVE  <<"list", "local">> \in last'
    OBVIOUS
  <2>1. Resumes(doc, doc'.city, last')
    BY Stepped DEF Step
  <2> QED BY <2>1 DEF Resumes
<1> QED BY <1>1, DocumentIsSound, PTL DEF Spec, CommunityResumes

================================================================================
