--------------------------- MODULE MonitorEvents ---------------------------
(***************************************************************************)
(* MonitorEventRecord: the events that the scripts of the port monitors    *)
(* set for each other, in the order in which they were first set, and the  *)
(* evaluation of a rule over them.  An event lives for the ticks that are  *)
(* left of its lifetime, or for ever.                                      *)
(***************************************************************************)
EXTENDS Integers, Sequences, FiniteSetsExt, SequencesExt

CONSTANT Within    \* the pairs <<s, t>> of names of which s is a part of t

Forever == -1

Event(name, owner, left) == [name |-> name, owner |-> owner, left |-> left]

Lives(event) == event.left # 0

Aged(record) ==
  [i \in DOMAIN record |-> IF record[i].left > 0 THEN [record[i] EXCEPT !.left = @ - 1] ELSE record[i]]

First(record, Test(_)) == {i \in DOMAIN record : Test(record[i]) /\ \A j \in 1..(i - 1) : ~Test(record[j])}

findEvent(record, name, owner) == First(record, LAMBDA e : e.name = name /\ e.owner = owner)

\* Mutant: an event that is set again is appended again.
setEventAgain(record, name, owner, lifetime) ==
  Append(record, Event(name, owner, lifetime))

setEvent(record, name, owner, lifetime) ==
  LET found == findEvent(record, name, owner)
  IN  IF found = {} THEN Append(record, Event(name, owner, lifetime))
      ELSE [i \in DOMAIN record |-> IF i \in found THEN Event(name, owner, lifetime) ELSE record[i]]

unsetEvent(record, name, owner) ==
  LET found == findEvent(record, name, owner)
  IN  IF found = {} THEN record ELSE RemoveAt(record, Min(found))

\* Only the first event of the name is looked at; if it has expired it is
\* removed, and the answer is no.
hasEvent(record, name) ==
  LET first == First(record, LAMBDA e : e.name = name)
  IN  IF first = {} THEN [has |-> FALSE, record |-> record]
      ELSE IF Lives(record[Min(first)]) THEN [has |-> TRUE, record |-> record]
      ELSE [has |-> FALSE, record |-> RemoveAt(record, Min(first))]

\* canAccept for a rule "not t1 and not t2 ...", when its names have been looked
\* up from left to right.  Each is replaced by its value wherever it occurs in
\* the rule, so that a name which an earlier one is equal to or a part of is not
\* found any more: its value is lost, and what is left of it is nil.  (No name is
\* a part of a keyword of the rule.)
canAccept(rule, looked) ==
  \A i \in DOMAIN rule :
    \/ \E j \in 1..(i - 1) : rule[j] = rule[i] \/ <<rule[j], rule[i]>> \in Within
    \/ ~looked[i]
=============================================================================
