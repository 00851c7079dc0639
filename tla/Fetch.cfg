CONSTANTS
  isFetched = isFetched
  isAtUser = isAtUser
  fetch = fetch
  NoNode = NoNode
  NoEvent = NoEvent
  Conditions = {isFetched, isAtUser}
  Fetchers = {fetch}
  Direct = {isAtUser}
  MaxQueue = 2
  FakeArmFailures = 1
  HomeAllowed = TRUE
SPECIFICATION FairSpec
INVARIANTS
  GraspedOnSuccess
PROPERTIES
  NeverDrops
  ReportsFreshAnswer
  TickEnds
  FetchEnds
