CONSTANTS
  s1 = s1
  s2 = s2
  k1 = k1
  k2 = k2
  NoSkill = NoSkill
  NoEntry = NoEntry
  NoView = NoView
  EmptyString = ""
  Skills = {s1, s2}
  Keys = {k1, k2}
  Numbers <- MCNumbers
  Strings <- MCStrings
  Entries <- MCEntries
SPECIFICATION Spec
SYMMETRY SkillSymmetry
INVARIANTS
  ViewCoherent
PROPERTY NoLockStolen
