CONSTANTS
  s1 = s1
  s2 = s2
  navigation = navigation
  NoSkill = NoSkill
  NoEntry = NoEntry
  Nowhere = Nowhere
  EmptyString = ""
  Skills = {s1, s2}
  Locations = {s1, s2}
  Keys = {navigation}
  Navigation = navigation
  Numbers <- MCNumbers
  Strings <- MCStrings
  Entries <- MCEntries
  QueriesMayFail = TRUE
  MaxQueue = 2
  MaxStale = 0
SPECIFICATION Spec
SYMMETRY SkillSymmetry
INVARIANTS
  TypeOK
  UnitConserved
  OneSkillDrives
  RestingHoldsNothing
PROPERTY ImplementsNavigationUnit
