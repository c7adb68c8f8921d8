-------------------------------- MODULE Finding --------------------------------
(***************************************************************************)
(* Finding something to hear: a phrase is resolved to a search, the        *)
(* listener confirms it, and the catalogue is searched, or the sources and *)
(* publications that it holds are read out a page at a time.  Operators on *)
(* a turn, as in Listening.                                                *)
(*                                                                         *)
(* The resolver and the catalogue are external.  A turn's world says       *)
(* whether they answer; the constants say what they hold.                  *)
(***************************************************************************)
EXTENDS Listening

CONSTANTS
  Searches,        \* what the resolver may take a phrase for
  KindOf,          \* the kind of what a search is for: of its primary entity
  SourceOf,        \* the source that a search asks for alone, or NoSource
  EditionsOf,      \* the search for the publications of the same source, or NoSearch
  Mixed,           \* the searches of a place that ask for more than what is local
  Broader,         \* the latest of the same source, without the topic, or NoSearch
  Named,           \* the publication of the same name, as a search, or NoSearch
  Meanings,        \* what an ambiguous phrase may mean, in order
  Sources,         \* sources of content
  NoSource,        \* the absence of a source
  WithTracks,      \* the sources that have recordings outside publications
  Pages,           \* the catalogue's pages: of "local" or "recommended" sources,
                   \* of "creators", of a source's publications
  PageSize,        \* choices that are read out at a time
  Towns,           \* towns that may be named
  DeviceTown,      \* the town of the device's address
  TownChoices,     \* sequences of towns that the resolver cannot tell apart
  ResolutionLife   \* ticks that a resolved phrase lives

Entries(q) == {q[k] : k \in DOMAIN q}

\* What the catalogue's pages list.
Listable == UNION {Entries(page) : page \in UNION {Entries(Pages[w]) : w \in DOMAIN Pages}}

ASSUME FindingAssumption ==
  /\ NoSearch \notin Searches /\ NoSource \notin Sources /\ NoTown \notin Towns
  /\ SourceOf \in [Searches -> Sources \union {NoSource}]
  /\ {Broader, Named, EditionsOf} \subseteq [Searches -> Searches \union {NoSearch}]
  /\ Meanings \in Seq(Searches)
  /\ \A q \in Searches :
       /\ SourceOf[q] # NoSource => KindOf[q] \in {"organization", "creator", "publication"}
       /\ EditionsOf[q] # NoSearch =>
            KindOf[q] = "organization" /\ SourceOf[EditionsOf[q]] = SourceOf[q]
       /\ Broader[q] # NoSearch => SourceOf[q] = NoSource /\ KindOf[Broader[q]] = KindOf[q]
       /\ Named[q] # NoSearch =>
            KindOf[q] \in {"category", "search"} /\ KindOf[Named[q]] = "publication"
       /\ q \in Mixed => KindOf[q] = "location"
  /\ WithTracks \subseteq Sources
  /\ Pages \in [{"local", "creators", "recommended"} \union Sources -> Seq(Seq(Listable))]
  /\ \A w \in {"local", "creators", "recommended"} : Pages[w] \in Seq(Seq(Sources))
  /\ PageSize \in Nat \ {0} /\ ResolutionLife \in Nat \ {0}
  /\ DeviceTown \in Towns
  /\ \A c \in TownChoices : c \in Seq(Towns) /\ Len(c) >= 2

Editions == Entries(EditionsOf) \ {NoSearch}

-----------------------------------------------------------------------------
(* Playing what was found.                                                 *)

EndChoices(s) == Clear(s, {"availability"})

\* auto_play_first_from_search: the results become the queue.
Hear(t, what) == Does(Start([t EXCEPT !.doc = EndChoices(@)], Queue[1]), "hear", what)

\* No results, or no answer: a question that led here stays.
HearFound(t, what) == IF t.world.search = "plays" THEN Hear(t, what) ELSE Idle(t)

\* _handle_latest_source_yes: what is new from the source.
PlayLatest(t) == HearFound([t EXCEPT !.doc = CloseLatest(@)], "latest")

\* play_from_followed_creators, which asks the session alone.
PlayFollowed(t) ==
  LET u == [t EXCEPT !.doc.follow = FALSE]
  IN  IF FollowsKnown(t.session) THEN HearFound(u, "followed") ELSE Idle(u)

\* _terminal_response.
NothingThere(t) == Idle([t EXCEPT !.doc = EndChoices(@)])

-----------------------------------------------------------------------------
(* The catalogue's lists (AvailabilityData).                               *)

\* What is read out of a list, or the formats of a source.
Displayed(c) ==
  LET end == IF c.offset + PageSize < Len(c.all) THEN c.offset + PageSize ELSE Len(c.all)
  IN  IF c.kind = "format" THEN <<"publications", "tracks">>
      ELSE SubSeq(c.all, c.offset + 1, end)

RemoteMore(c) == c.page + 1 < c.total

\* The first page of a list, as the context of its dialogue.
Listed1(kind, list, source) ==
  [kind |-> kind, list |-> list, source |-> source, all |-> Pages[list][1], offset |-> 0,
   page |-> 0, total |-> Len(Pages[list]), single |-> FALSE, failed |-> FALSE]

HasEntries(list) == Pages[list] # <<>> /\ Pages[list][1] # <<>>

Asks(t, kind, c) ==
  Says([t EXCEPT !.doc = Activate(@, "availability", c)], kind, Displayed(c))

\* One source, and no page after it, is offered by name.
AskSources(t, list) ==
  LET c == Listed1("source", list, NoSource)
  IN  IF Len(c.all) = 1 /\ ~RemoteMore(c)
      THEN Asks(t, "choices", [c EXCEPT !.single = TRUE])
      ELSE Asks(t, "choices", c)

-----------------------------------------------------------------------------
(* Availability.                                                           *)

\* begin_local.  Without a town the listener is asked to set one up first.
BeginLocal(t) ==
  CASE t.doc.city = NoTown ->
         Says([t EXCEPT !.doc.setup.consent = TRUE, !.doc.setup.community = TRUE],
              "profile", NoItem)
    [] t.doc.city # NoTown /\ t.world.listing = "answers" /\ HasEntries("local") ->
         AskSources(Does(t, "list", "local"), "local")
    [] OTHER -> NothingThere(Does(t, "list", "local"))

\* _search_mixed_local_request: what is found is played.
PlayMixed(t, q) == HearFound(t, q)

\* begin_local, for a phrase whose place is known.
BeginPlace(t, q) ==
  CASE q \in Mixed -> PlayMixed(t, q)
    [] q \notin Mixed /\ t.world.listing = "answers" /\ HasEntries("local") ->
         AskSources(Does(t, "list", q), "local")
    [] OTHER -> NothingThere(Does(t, "list", q))

AskCreatorCity(t) ==
  Says([t EXCEPT !.doc = Activate(@, "creator_location", NoContext)], "creator_city", NoItem)

\* A city of creators, named or still to be named.
BeginCreators(t, town) ==
  LET named == [t EXCEPT !.doc = Clear(@, {"creator_location"})]
  IN  CASE town = NoTown \/ t.world.lookup # "match" -> AskCreatorCity(t)
        [] town # NoTown /\ t.world.lookup = "match" /\ t.world.listing = "answers"
             /\ HasEntries("creators") -> AskSources(named, "creators")
        [] OTHER -> NothingThere(named)

\* _begin_source: what a source offers; otherwise, when the catalogue does not say.
BeginSource(t, s, otherwise) ==
  LET c == Listed1("publication", s, s)
  IN  IF t.world.listing = "down" THEN otherwise
      ELSE IF Pages[s] = <<>> THEN HearFound(t, s)
      ELSE IF s \in WithTracks THEN Asks(t, "choices", [c EXCEPT !.kind = "format"])
      ELSE IF HasEntries(s) THEN Asks(t, "choices", c) ELSE NothingThere(t)

\* The listener asked for publications.
BeginEditions(t, s, otherwise) ==
  LET only == Len(Pages[s]) = 1 /\ Len(Pages[s][1]) = 1
  IN  IF t.world.listing = "down" THEN otherwise
      ELSE IF Pages[s] = <<>> \/ ~HasEntries(s) THEN NothingThere(t)
      ELSE IF only THEN HearFound(t, Pages[s][1][1])
      ELSE Asks(t, "choices", Listed1("publication", s, s))

\* begin_recommendations.
BeginRecommended(t) ==
  IF t.world.listing = "answers" /\ HasEntries("recommended")
  THEN AskSources(t, "recommended") ELSE NothingThere(t)

-----------------------------------------------------------------------------
(* AvailabilityDialog.                                                     *)

\* The entries of a page that a list lacks, in their order.
NewOf(page, held) ==
  LET new == {k \in DOMAIN page : page[k] \notin held}
      rank(k) == Cardinality({m \in new : m <= k})
  IN  [j \in 1..Cardinality(new) |-> page[CHOOSE k \in new : rank(k) = j]]

\* Mutant: candidates that are held already are appended again.
LoadPageTwice(c, p, listing) ==
  IF listing = "down" THEN [c EXCEPT !.total = 0, !.failed = TRUE]
  ELSE [c EXCEPT !.all = @ \o Pages[c.list][p + 1], !.page = p,
                 !.total = Len(Pages[c.list]), !.failed = FALSE]

\* _load_remote_page.  A failure overwrites how many pages there are; a page
\* of creators replaces the one before.
LoadPage(c, p, listing) ==
  LET incoming == Pages[c.list][p + 1]
      fresh == [c EXCEPT !.page = p, !.total = Len(Pages[c.list]), !.failed = FALSE]
  IN  IF listing = "down" THEN [c EXCEPT !.total = 0, !.failed = TRUE]
      ELSE IF c.list = "creators" THEN [fresh EXCEPT !.all = incoming, !.offset = 0]
      ELSE [fresh EXCEPT !.all = @ \o NewOf(incoming, Entries(c.all))]

More(t) ==
  LET c == t.doc.active.context
      next == c.offset + Len(Displayed(c))
      loads == next >= Len(c.all) /\ RemoteMore(c)
      d == IF loads THEN LoadPage(c, c.page + 1, t.world.listing) ELSE c
      u == IF loads THEN Does(t, "load", c.page + 1) ELSE t
  IN  IF c.kind = "format" THEN Asks(t, "choices", c)
      ELSE IF loads /\ c.list = "creators" /\ ~d.failed THEN Asks(u, "choices", d)
      ELSE IF d.failed THEN Asks(u, "try_again", d)
      ELSE IF next >= Len(d.all) THEN Asks(u, "all_choices", d)
      ELSE Asks(u, "choices", [d EXCEPT !.offset = next])

Previous(t) ==
  LET c == t.doc.active.context
      back == IF c.offset >= PageSize THEN c.offset - PageSize ELSE 0
      d == LoadPage(c, c.page - 1, t.world.listing)
  IN  IF c.kind = "format" THEN Asks(t, "choices", c)
      ELSE IF c.list # "creators" THEN Asks(t, "choices", [c EXCEPT !.offset = back])
      ELSE IF c.page = 0 THEN Asks(t, "choices", c)
      ELSE Asks(Does(t, "load", c.page - 1), "choices", [d EXCEPT !.failed = FALSE])

\* _select, of one of the names that were read out.
Select(t, choice) ==
  LET c == t.doc.active.context
  IN  IF c.kind = "source"
      THEN BeginSource([t EXCEPT !.doc = EndChoices(@)], choice, NothingThere(t))
      ELSE HearFound(t, choice)

\* _select_format.
SelectFormat(t, format) ==
  LET c == t.doc.active.context
      only == c.total = 1 /\ Len(c.all) = 1
  IN  IF format = "tracks" THEN HearFound(t, c.source)
      ELSE IF only THEN HearFound(t, c.all[1])
      ELSE Asks(t, "choices", [c EXCEPT !.kind = "publication"])

\* What was said is none of the choices, or names no choice.
Reread(t) == Asks(t, "choices", t.doc.active.context)

\* A name, or an ordinal, that is heard as one of those read out.
Choose(t, choice) ==
  LET c == t.doc.active.context
  IN  IF choice \notin Entries(Displayed(c)) THEN Reread(t)
      ELSE IF c.kind = "format" THEN SelectFormat(t, choice)
      ELSE Select(t, choice)

ChooseYes(t) ==
  LET c == t.doc.active.context
  IN  CASE c.single -> Select(t, c.all[1])
        [] c.kind = "format" /\ c.total = 1 /\ Len(c.all) = 1 -> HearFound(t, c.all[1])
        [] OTHER -> Reread(t)

ChooseNo(t) ==
  LET c == t.doc.active.context
  IN  IF ~c.single /\ c.kind = "format" /\ c.total = 1 /\ Len(c.all) = 1
      THEN HearFound(t, c.source)
      ELSE NothingThere(t)

-----------------------------------------------------------------------------
(* SearchConfirmationPrompt.                                               *)

Resolution(q, choice) == [search |-> q, choice |-> choice, unclear |-> 0]

ForgetTown(s) == [s EXCEPT !.setup.candidate = NoTown]

\* _ask.
AskSearch(t, q, choice) ==
  LET r == Resolution(q, choice)
      held == Hold([t.doc EXCEPT !.topic = NoSearch, !.setup.community = FALSE],
                   "search_confirmation", r)
  IN  Says([t EXCEPT !.doc = Activate(held, "search_confirmation", r)],
           "search_confirmation", q)

\* present, for a phrase that was just resolved: a publication of that name is
\* asked about first, and the phrase itself kept.
Present(t, q) ==
  LET u == [t EXCEPT !.doc.fresh.search = ResolutionLife]
      asked == AskSearch(u, Named[q], TRUE)
  IN  IF Named[q] = NoSearch THEN AskSearch(u, q, FALSE)
      ELSE [asked EXCEPT !.doc.topic = q]

\* IntentDispatcher: what is said of a place is not confirmed.
Take(t, q) == IF KindOf[q] = "location" THEN BeginPlace(t, q) ELSE Present(t, q)

DropSearch(s) == Lower(Release(s, "search_confirmation"), "search_confirmation")

\* _clear_confirmed_resolution.
ClearConfirmed(s) ==
  Clear(ForgetTown([DropSearch(s) EXCEPT !.topic = NoSearch]), {"search_confirmation"})

\* _source_only_relaxation.
Relaxed(q) == Resolution(Broader[q], FALSE)

\* _relaxed_search_response.
AskBroader(t, q) ==
  LET r == Relaxed(q)
      held == Hold([t.doc EXCEPT !.fresh.search = ResolutionLife], "search_confirmation", r)
  IN  IF Broader[q] = NoSearch THEN Idle(t)
      ELSE Says([t EXCEPT !.doc = Activate(held, "search_confirmation", r)],
                "search_confirmation", Broader[q])

SearchCatalogue(t, q) ==
  CASE t.world.search = "plays" -> Hear(t, q)
    [] t.world.search = "empty" -> AskBroader(t, q)
    [] OTHER -> Idle(t)

\* handle_resolution, and the search when that has no answer.
Execute(t, q) ==
  LET s == SourceOf[q]
      u == Does(t, "search", q)
      found == SearchCatalogue(u, q)
  IN  IF KindOf[q] = "location" /\ q \notin Mixed THEN BeginPlace(u, q)
      ELSE IF s = NoSource THEN found
      ELSE IF q \in Editions THEN BeginEditions(u, s, found)
      ELSE BeginSource(u, s, found)

\* Mutant: a search that was waiting is run however old it is.
ConfirmSearchLate(t) ==
  LET r == t.doc.pending["search_confirmation"]
  IN  IF r = NoContext THEN Idle([t EXCEPT !.doc = Lower(@, "search_confirmation")])
      ELSE Execute([t EXCEPT !.doc = ClearConfirmed(@)], r.search)

\* _handle_search_confirmation.  The dialogue of a resolution that is too old stays.
ConfirmSearch(t) ==
  LET r == t.doc.pending["search_confirmation"]
  IN  IF r = NoContext THEN Idle([t EXCEPT !.doc = Lower(@, "search_confirmation")])
      ELSE IF t.doc.fresh.search = 0 THEN Idle([t EXCEPT !.doc = DropSearch(@)])
      ELSE Execute([t EXCEPT !.doc = ClearConfirmed(@)], r.search)

\* _handle_search_no.  A publication that is declined leaves the phrase.
DeclineSearch(t) ==
  LET r == t.doc.pending["search_confirmation"]
      lowered == [t EXCEPT !.doc = Lower(@, "search_confirmation")]
  IN  IF r = NoContext THEN Idle(lowered)
      ELSE IF r.choice /\ t.doc.topic # NoSearch THEN AskSearch(t, t.doc.topic, FALSE)
      ELSE Idle([t EXCEPT !.doc = Clear(ForgetTown(Release(DropSearch(@), "ambiguity")),
                                        {"search_confirmation"})])

-----------------------------------------------------------------------------
(* Phrases that may mean several things (_resolve_ambiguity).              *)

Meant == Entries(Meanings)

\* The options, and how many were read out before.
AskMeaning(t) ==
  LET c == [options |-> Meanings, offset |-> 0]
      held == Hold([ForgetTown(t.doc) EXCEPT !.fresh.ambiguity = ResolutionLife], "ambiguity", c)
  IN  Says([t EXCEPT !.doc = Activate(held, "ambiguity", c)], "ambiguity", NoItem)

\* The options are forgotten once they have expired.
DropStaleMeanings(s) ==
  IF s.pending["ambiguity"] # NoContext /\ s.fresh.ambiguity = 0
  THEN Clear(Release(s, "ambiguity"), {"ambiguity"}) ELSE s

Waits(s) == s.pending["ambiguity"] # NoContext

\* Browse.more and Browse.previous, among the options: the dialogue begins
\* anew, but the options grow no younger.
MeaningsFrom(t, offset) ==
  LET c == [t.doc.pending["ambiguity"] EXCEPT !.offset = offset]
  IN  Says([t EXCEPT !.doc = Activate(Hold(@, "ambiguity", c), "ambiguity", c)],
           "ambiguity", NoItem)

MoreMeanings(t) ==
  LET next == t.doc.pending["ambiguity"].offset + PageSize
  IN  IF next >= Len(Meanings) THEN Says(t, "ambiguity", NoItem) ELSE MeaningsFrom(t, next)

PreviousMeanings(t) ==
  LET now == t.doc.pending["ambiguity"].offset
  IN  IF now = 0 THEN Says(t, "ambiguity", NoItem)
      ELSE MeaningsFrom(t, IF now > PageSize THEN now - PageSize ELSE 0)

Settled(t) ==
  IF Waits(t.doc)
  THEN [t EXCEPT !.doc = Clear(ForgetTown(Release(@, "ambiguity")), {"ambiguity"})] ELSE t

\* A phrase for one of the options is what the listener meant: a publication is
\* played without another question.
SettleMeaning(t, q) ==
  IF KindOf[q] = "publication" THEN HearFound(Settled(t), q) ELSE Take(Settled(t), q)

\* A reply that is none of the options.
Unmatched(t) == IF Waits(t.doc) THEN AskMeaning(t) ELSE Idle(t)

\* A phrase is one of the options, or the resolver is asked about it.
Discover(t, q) ==
  IF Waits(t.doc) /\ q \in Meant THEN SettleMeaning(t, q)
  ELSE CASE t.world.lookup = "down" -> Idle(t)
         [] t.world.lookup = "several" -> AskMeaning(t)
         [] t.world.lookup = "none" -> Unmatched(t)
         [] t.world.lookup = "match" -> Take(Settled(t), q)

DiscoverSeveral(t) == IF t.world.lookup = "down" THEN Idle(t) ELSE AskMeaning(t)

\* Affirmative._handle_community_play_yes.
PlayCommunity(t) ==
  BeginLocal([t EXCEPT !.doc = Clear(DropSearch([@ EXCEPT !.setup.community = FALSE]),
                                     {"search_confirmation"})])

=============================================================================
