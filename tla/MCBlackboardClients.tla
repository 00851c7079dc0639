------------------------- MODULE MCBlackboardClients -------------------------
\* Two skills and two keys: enough for one client to interfere with another
\* and for a command on all keys to differ from a command on one.
EXTENDS BlackboardClients, TLC

CONSTANTS s1, s2, k1, k2

MCNumbers == {0, 1}
MCStrings == {""}

\* entries.ini gives navigation one unit; the second entry is a string.
MCEntries ==
  k1 :> [owner |-> NoSkill, value |-> [type |-> Int32, datum |-> 1]] @@
  k2 :> [owner |-> NoSkill, value |-> [type |-> String, datum |-> ""]]

SkillSymmetry == Permutations(Skills)
=============================================================================
