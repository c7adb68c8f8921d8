SPECIFICATION Spec
CONSTANTS
  t1 = t1
  t2 = t2
  e1 = e1
  e2 = e2
  n1 = n1
  q1 = q1
  q2 = q2
  q3 = q3
  q4 = q4
  q5 = q5
  q6 = q6
  q7 = q7
  s1 = s1
  s2 = s2
  c1 = c1
  p1 = p1
  p2 = p2
  p3 = p3
  p4 = p4
  leeds = leeds
  york = york
  NoContext = NoContext
  NoItem = NoItem
  NoNotice = NoNotice
  NoTown = NoTown
  NoSearch = NoSearch
  NoSource = NoSource
  Lifetime <- Lifetimes
  Queue <- Recordings
  Publication = Publication
  Tracks = {t1, t2}
  Notices = {n1}
  NoticeItem <- OneItem
  Searches <- SevenSearches
  SourceOf <- SourcesAsked
  EditionsOf <- PublicationsOf
  Mixed = {q7}
  Broader <- BroaderOf
  Named <- NamedBy
  Meanings <- ThreeMeanings
  KindOf <- Kinds
  SearchOf <- ForShapes
  Sources = {s1, s2, c1}
  WithTracks = {s1}
  Pages <- Catalogue
  PageSize = 2
  Towns = {leeds, york}
  DeviceTown = leeds
  TownChoices <- OneConfusion
  ResolutionLife = 1
  MaxTownAttempts = 2
  MaxTownFailures = 2
  PlaceSearch = q6
  Reported <- HeardPhrases
  Scenarios <- AllScenarios
INVARIANTS TypeOK NotAskedTwice QueuedIsTracked ChoicesReadable
PROPERTIES AskedIsLive InterruptedIsActive InterruptedResumes NoticeStaysSettled ConsumedWasPlayed ConfirmedWasAsked TownConfirmed CommunityResumes SetupEndsForGood PhrasesSound FollowedOnce
CHECK_DEADLOCK FALSE
