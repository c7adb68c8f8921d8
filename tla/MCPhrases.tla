------------------------------- MODULE MCPhrases -------------------------------
(* Phrases for EntityRanking: what the resolver may report of three words, of which *)
(* the last is a place, the first two a source, the second a topic.                *)
EXTENDS EntityRanking

Report(type, id, name, first, last, evidence) ==
  [type |-> type, id |-> id, name |-> name, first |-> first, last |-> last,
   evidence |-> evidence, sure |-> TRUE, phonetic |-> FALSE, kind |-> FALSE]

Sounding(e) == [e EXCEPT !.phonetic = TRUE]
Doubtful(e) == [e EXCEPT !.sure = FALSE]
OfKind(e) == [e EXCEPT !.kind = TRUE]

\* Organizations of the same words, and of fewer; creators that are a projection of
\* theirs, by their words or by their name, and one that is not; the kind of source
\* as a tag; publications of the words of the topic, and of more; the topic as a
\* category and as a tag; places of one name, of the source's words, of the topic's.
AllReports ==
  {Report("organization", "o1", "herald", 0, 2, 2),
   Report("organization", "o2", "herald", 0, 2, 2),
   Report("organization", "o3", "post", 1, 2, 1),
   Report("creator", "c1", "herald", 0, 2, 3),
   Report("creator", "c2", "herald", 2, 3, 2),
   Report("creator", "c3", "jones", 1, 3, 2),
   OfKind(Report("tag", "k", "talking newspaper", 0, 2, 2)),
   Report("publication", "p1", "sport", 1, 2, 2),
   Report("publication", "p2", "sport", 1, 2, 2),
   Report("publication", "p3", "sport weekly", 0, 2, 1),
   Report("category", "g", "sport", 1, 2, 2),
   Doubtful(Report("category", "h", "news", 0, 1, 1)),
   Report("tag", "t", "sport", 1, 2, 2),
   Report("location", "l1", "newport", 2, 3, 2),
   Report("location", "l2", "newport", 2, 3, 2),
   Report("location", "l3", "york", 0, 1, 1),
   Report("location", "l4", "sport on sea", 1, 3, 1),
   Sounding(Report("location", "l5", "heraldsham", 0, 2, 1))}

\* Up to three of them.
PhraseEntities == {{}} \union {{a, b, c} : a, b, c \in AllReports}

\* The service knows what kind of thing is asked for, or leaves it to the listener.
Services ==
  [status : {"resolved"}, intent : {"search", "organization", "publication"}, several : {FALSE}]
    \union [status : {"resolved"}, intent : {"search"}, several : {TRUE}]

HeardPhrases == [entities : PhraseEntities, service : Services]

=============================================================================
