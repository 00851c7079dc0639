CONSTANTS
  fetch = fetch
  NoEvent = NoEvent
  Conditions = {}
  Fetchers = {fetch}
  Direct = {}
  FakeArmFailures = 1
  HomeAllowed = TRUE
  MaxBreaks = 1
  Places <- MCPlaces
  Critical = 20
  LowLevel = 30
  FullLevel = 99
  DestinationTheta = 1
  GraspTheta = 2
  TargetTheta = 1
SPECIFICATION FairSpec
INVARIANTS
  GraspedOnSuccess
  CallsAreServed
PROPERTIES
  ShownArmIsTrue
  GraspAlarmJustified
  LoopIsNoticed
  KeepsPromise
