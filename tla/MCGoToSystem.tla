---------------------------- MODULE MCGoToSystem ----------------------------
\* Two instances of the GoTo skill and the store of entries.ini.
EXTENDS GoToSystem, TLC

CONSTANTS s1, s2, navigation

MCNumbers == -1..2
MCStrings == {""}
MCEntries ==
  navigation :> [owner |-> NoSkill, value |-> [type |-> Int32, datum |-> 1]]

SkillSymmetry == Permutations(Skills)
=============================================================================
