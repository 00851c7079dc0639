CONSTANTS
  Destinations = {"kitchen", "charging_station", "user"}
  Charges = {10, 25, 100}
  Critical = 20
  LowLevel = 30
  FullLevel = 99
  DestinationTheta = 1
  GraspTheta = 1
  TargetTheta = 1
SPECIFICATION Spec
INVARIANTS
  BatteryAlarmIff
  EndedIsNotShown
PROPERTIES
  DestinationAlarmJustified
  TargetAlarmJustified
