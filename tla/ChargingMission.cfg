CONSTANTS
  Full = 3
  Low = 1
  Load = 1
  Faint = 1
  Default = 1
  StationMayCrash = TRUE
  StopMayBeLost = TRUE
  GoToMayFail = TRUE
SPECIFICATION FairSpec
INVARIANTS
  OneActionAtWork
PROPERTIES
  LowReachesStation
  LeavesFull
  PhantomChargeEnds
  DischargesAway
