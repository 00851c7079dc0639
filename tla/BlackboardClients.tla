-------------------------- MODULE BlackboardClients --------------------------
(***************************************************************************)
(* The blackboard under every sequence of requests its clients and its     *)
(* operator may issue.  view is what a client may rely on: the datum it    *)
(* last read or wrote since it last locked the key.  A client that follows *)
(* the order of the skills (lock, read, write, unlock) may compute its     *)
(* next write from view only if no other client can have changed the datum *)
(* in between.                                                             *)
(***************************************************************************)
EXTENDS Blackboard

CONSTANT NoView  \* the client knows nothing of the key

VARIABLE view    \* client -> key -> the datum it read or wrote, or NoView

vars == <<bbVars, view>>

View == {NoView} \cup Datum

ASSUME NoViewAssumption == NoView \notin Datum

TypeOK ==
  /\ BlackboardTypeOK
  /\ view \in [Skills -> [Keys -> View]]

Init ==
  /\ BlackboardInit
  /\ view = [s \in Skills |-> [k \in Keys |-> NoView]]

\* After a call that did not answer VALID the client knows what it knew.
Learn(s, k, r, known) ==
  view' = IF r = "VALID" THEN [view EXCEPT ![s][k] = known] ELSE view

ClientLock(s, k) ==
  \E r \in requestEvaluation : lock(s, k, r) /\ Learn(s, k, r, NoView)

ClientRead(s, k) ==
  \E t \in Types, r \in requestEvaluation : \E v \in Data(t) :
    /\ readData(s, k, t, r, v)
    /\ Learn(s, k, r, [type |-> t, datum |-> v])

ClientWrite(s, k) ==
  \E t \in Types, r \in requestEvaluation : \E d \in Data(t) :
    /\ writeData(s, k, t, d, r)
    /\ Learn(s, k, r, [type |-> t, datum |-> d])

ClientUnlock(s, k) ==
  \E r \in requestEvaluation : unlock(s, k, r) /\ Learn(s, k, r, NoView)

Operator ==
  /\ \/ resetData
     \/ clearAll
     \/ \E k \in Keys : clearData(k)
  /\ UNCHANGED view

Start == (\E k \in Keys : parseEntry(k)) /\ UNCHANGED view

Client(s, k) ==
  ClientLock(s, k) \/ ClientRead(s, k) \/ ClientWrite(s, k) \/ ClientUnlock(s, k)

Next ==
  \/ Start
  \/ Operator
  \/ \E s \in Skills, k \in Keys : Client(s, k)

Spec == Init /\ [][Next]_vars

-----------------------------------------------------------------------------
\* While a client holds the lock of a key, the datum it read or wrote since
\* it took the lock is the datum of the store: BlackboardComponent lets no
\* other client write in between, and an operator command that replaces the
\* datum also takes the lock away (BlackboardComponent.cpp, resetData).
ViewCoherent ==
  \A s \in Skills, k \in Keys :
    Owns(s, k) /\ view[s][k] # NoView
      => As(view[s][k].type, m_storage[k].value) = view[s][k].datum

\* A lock changes hands only through a state in which nobody holds it: no
\* request of one client ends the lock of another, whatever was issued
\* before it; only the operator takes a lock away, and never to hand it on.
NoLockStolen ==
  [][\A s \in Skills, k \in Keys :
       Owns(s, k) => \A c \in Skills \ {s} : ~Owns(c, k)']_vars

\* The comment above writeDataInt32: "Write function is possible only for the
\* skill skillID or if the key target is not locked"
\* (BlackboardComponent.cpp:210).
WritePossibleIfNotLocked ==
  \A s \in Skills, k \in Keys :
    up /\ Stored(k) /\ m_storage[k].owner = NoSkill
      => ENABLED writeData(s, k, Int32, 0, "VALID")

=============================================================================
