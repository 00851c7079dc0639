CONSTANTS
  isFetched = isFetched
  isAtUser = isAtUser
  fetch = fetch
  NoNode = NoNode
  NoEvent = NoEvent
  Conditions = {isFetched, isAtUser}
  Fetchers = {fetch}
  Direct = {isAtUser}
  MaxQueue = 2
  FakeArmFailures = 1
  HomeAllowed = FALSE
SPECIFICATION FairSpec
PROPERTY SuccessIsReturned
