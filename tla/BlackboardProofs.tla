-------------------------- MODULE BlackboardProofs --------------------------
(***************************************************************************)
(* What the two components that only serve others promise their clients:   *)
(* the blackboard, for every set of keys, skills and data, and the Id      *)
(* component, for all clients and names.                                   *)
(***************************************************************************)
EXTENDS BlackboardClients, TLAPS

\* The entries of the file are unlocked, so a reset locks nothing.
InitialEntriesUnlocked ==
  \A k \in Keys : m_initialization_values[k] # NoEntry
                    => m_initialization_values[k].owner = NoSkill

IInv == TypeOK /\ InitialEntriesUnlocked /\ ViewCoherent

\* A datum of type t, read as t, is an element of the data of t.
LEMMA AsInData ==
  ASSUME NEW t \in Types, NEW d \in Datum
  PROVE  As(t, d) \in Data(t)
BY BlackboardAssumption DEF As, Data, Datum, Types, Int32, Float64, String

\* What the environment does: the file is parsed, the operator commands.
LEMMA EnvironmentKeepsIInv ==
  ASSUME IInv, Start \/ Operator
  PROVE  IInv'
<1> USE BlackboardAssumption DEF IInv, TypeOK, BlackboardTypeOK
<1>1. CASE Start
  <2>1. PICK k \in Keys : parseEntry(k)
    BY <1>1 DEF Start
  <2>2. UNCHANGED <<m_storage, up, view>>
    BY <1>1, <2>1 DEF Start, parseEntry
  <2>3. /\ Entries[k] \in Entry
        /\ Entries[k].owner = NoSkill
    BY DEF Entry
  <2>4. BlackboardTypeOK'
    BY <2>1, <2>2, <2>3 DEF parseEntry
  <2>5. InitialEntriesUnlocked'
    BY <2>1, <2>3 DEF parseEntry, InitialEntriesUnlocked
  <2>6. ViewCoherent'
    BY <2>2 DEF ViewCoherent, Owns, Stored
  <2> QED BY <2>2, <2>4, <2>5, <2>6
<1>2. CASE Operator
  <2>1. UNCHANGED <<m_initialization_values, view>>
    BY <1>2 DEF Operator, resetData, clearAll, clearData
  <2>2. BlackboardTypeOK'
    BY <1>2, <2>1 DEF Operator, resetData, clearAll, clearData
  <2>3. \A k \in Keys, s \in Skills :
          Owns(s, k)' => Owns(s, k) /\ m_storage'[k] = m_storage[k]
    <3>1. CASE resetData
      BY <3>1 DEF resetData, InitialEntriesUnlocked, Owns, Stored
    <3>2. CASE clearAll
      BY <3>2 DEF clearAll, Owns, Stored
    <3>3. CASE \E k \in Keys : clearData(k)
      BY <3>3 DEF clearData, Owns, Stored
    <3> QED BY <1>2, <3>1, <3>2, <3>3 DEF Operator
  <2>4. ViewCoherent'
    BY <2>1, <2>3 DEF ViewCoherent
  <2>5. InitialEntriesUnlocked'
    BY <2>1 DEF InitialEntriesUnlocked
  <2> QED BY <2>1, <2>2, <2>4, <2>5
<1> QED BY <1>1, <1>2

\* A request of a client: the reply VALID comes with the ownership the
\* request needs, any other reply with no change at all.
LEMMA ClientKeepsIInv ==
  ASSUME IInv, NEW s \in Skills, NEW k \in Keys, Client(s, k)
  PROVE  IInv'
<1> USE BlackboardAssumption DEF IInv, TypeOK, BlackboardTypeOK
<1>1. UNCHANGED <<m_initialization_values, up>>
  BY DEF Client, ClientLock, ClientRead, ClientWrite, ClientUnlock,
         lock, unlock, readData, writeData, bbVars
<1>2. InitialEntriesUnlocked'
  BY <1>1 DEF InitialEntriesUnlocked
<1>3. CASE ClientLock(s, k)
  <2>1. PICK r \in requestEvaluation : lock(s, k, r) /\ Learn(s, k, r, NoView)
    BY <1>3 DEF ClientLock
  <2>2. CASE r = "VALID"
    <3>1. Stored(k) /\ m_storage[k].owner \in {NoSkill, s}
      BY <2>1, <2>2 DEF lock, Evaluate
    <3>2. /\ m_storage' = [m_storage EXCEPT ![k].owner = s]
          /\ view' = [view EXCEPT ![s][k] = NoView]
      BY <2>1, <2>2 DEF lock, Learn
    <3>3. m_storage[k] \in Entry
      BY <3>1 DEF Stored
    <3>4. TypeOK'
      BY <1>1, <3>2, <3>3 DEF Entry, View
    <3>5. ViewCoherent'
      BY <3>1, <3>2, <3>3 DEF ViewCoherent, Owns, Stored, Entry
    <3> QED BY <1>2, <3>4, <3>5
  <2>3. CASE r # "VALID"
    BY <1>1, <1>2, <2>1, <2>3 DEF lock, Learn, ViewCoherent, Owns, Stored
  <2> QED BY <2>2, <2>3
<1>4. CASE ClientRead(s, k)
  <2>1. PICK t \in Types, r \in requestEvaluation : \E v \in Data(t) :
          /\ readData(s, k, t, r, v)
          /\ Learn(s, k, r, [type |-> t, datum |-> v])
    BY <1>4 DEF ClientRead
  <2>2. PICK v \in Data(t) : /\ readData(s, k, t, r, v)
                             /\ Learn(s, k, r, [type |-> t, datum |-> v])
    BY <2>1
  <2>3. m_storage' = m_storage
    BY <2>2 DEF readData, bbVars
  <2>4. CASE r = "VALID"
    <3>1. /\ view' = [view EXCEPT ![s][k] = [type |-> t, datum |-> v]]
          /\ v = As(t, m_storage[k].value)
      BY <2>2, <2>4 DEF readData, Learn
    <3>2. [type |-> t, datum |-> v] \in Datum
      BY DEF Datum
    <3>3. TypeOK'
      BY <1>1, <2>3, <3>1, <3>2 DEF View
    <3>4. ViewCoherent'
      BY <2>3, <3>1, <3>3 DEF ViewCoherent, Owns, Stored
    <3> QED BY <1>2, <3>3, <3>4
  <2>5. CASE r # "VALID"
    BY <1>1, <1>2, <2>2, <2>3, <2>5 DEF Learn, ViewCoherent, Owns, Stored
  <2> QED BY <2>4, <2>5
<1>5. CASE ClientWrite(s, k)
  <2>1. PICK t \in Types, r \in requestEvaluation : \E d \in Data(t) :
          /\ writeData(s, k, t, d, r)
          /\ Learn(s, k, r, [type |-> t, datum |-> d])
    BY <1>5 DEF ClientWrite
  <2>2. PICK d \in Data(t) : /\ writeData(s, k, t, d, r)
                             /\ Learn(s, k, r, [type |-> t, datum |-> d])
    BY <2>1
  <2>3. CASE r = "VALID"
    <3>1. Stored(k) /\ m_storage[k].owner = s
      BY <2>2, <2>3 DEF writeData, Evaluate
    <3>2. /\ m_storage' = [m_storage EXCEPT ![k].value = [type |-> t, datum |-> d]]
          /\ view' = [view EXCEPT ![s][k] = [type |-> t, datum |-> d]]
      BY <2>2, <2>3 DEF writeData, Learn
    <3>3. [type |-> t, datum |-> d] \in Datum
      BY DEF Datum
    <3>4. m_storage[k] \in Entry
      BY <3>1 DEF Stored
    <3>5. TypeOK'
      BY <1>1, <3>2, <3>3, <3>4 DEF Entry, View
    <3>6. As(t, [type |-> t, datum |-> d]) = d
      BY DEF As
    <3>7. ViewCoherent'
      <4> SUFFICES ASSUME NEW c \in Skills, NEW j \in Keys,
                          Owns(c, j)', view'[c][j] # NoView
                   PROVE  As(view'[c][j].type, m_storage'[j].value) = view'[c][j].datum
        BY DEF ViewCoherent
      <4>1. CASE j = k
        <5>1. c = s
          BY <3>1, <3>2, <3>4, <4>1 DEF Owns, Stored, Entry
        <5> QED BY <3>2, <3>4, <3>6, <4>1, <5>1 DEF Entry
      <4>2. CASE j # k
        BY <3>2, <4>2 DEF ViewCoherent, Owns, Stored
      <4> QED BY <4>1, <4>2
    <3> QED BY <1>2, <3>5, <3>7
  <2>4. CASE r # "VALID"
    BY <1>1, <1>2, <2>2, <2>4 DEF writeData, Learn, ViewCoherent, Owns, Stored
  <2> QED BY <2>3, <2>4
<1>6. CASE ClientUnlock(s, k)
  <2>1. PICK r \in requestEvaluation : unlock(s, k, r) /\ Learn(s, k, r, NoView)
    BY <1>6 DEF ClientUnlock
  <2>2. CASE r = "VALID"
    <3>1. Stored(k) /\ m_storage[k].owner = s
      BY <2>1, <2>2 DEF unlock, Evaluate
    <3>2. /\ m_storage' = [m_storage EXCEPT ![k].owner = NoSkill]
          /\ view' = [view EXCEPT ![s][k] = NoView]
      BY <2>1, <2>2 DEF unlock, Learn
    <3>3. m_storage[k] \in Entry
      BY <3>1 DEF Stored
    <3>4. TypeOK'
      BY <1>1, <3>2, <3>3 DEF Entry, View
    <3>5. ViewCoherent'
      BY <3>1, <3>2, <3>3 DEF ViewCoherent, Owns, Stored, Entry
    <3> QED BY <1>2, <3>4, <3>5
  <2>3. CASE r # "VALID"
    BY <1>1, <1>2, <2>1, <2>3 DEF unlock, Learn, ViewCoherent, Owns, Stored
  <2> QED BY <2>2, <2>3
<1> QED BY <1>3, <1>4, <1>5, <1>6 DEF Client

\* At the start the store is empty and nothing is locked.
LEMMA InitIInv == Init => IInv
BY BlackboardAssumption
DEF Init, BlackboardInit, IInv, TypeOK, BlackboardTypeOK, View,
    InitialEntriesUnlocked, ViewCoherent, Owns, Stored

\* The inductive step, by the actions of Next.
LEMMA NextIInv == IInv /\ [Next]_vars => IInv'
<1> SUFFICES ASSUME IInv, [Next]_vars PROVE IInv'
  OBVIOUS
<1>1. CASE Start \/ Operator
  BY <1>1, EnvironmentKeepsIInv
<1>2. CASE \E s \in Skills, k \in Keys : Client(s, k)
  BY <1>2, ClientKeepsIInv
<1>3. CASE UNCHANGED vars
  BY <1>3 DEF IInv, TypeOK, BlackboardTypeOK, vars, bbVars,
              InitialEntriesUnlocked, ViewCoherent, Owns, Stored
<1> QED BY <1>1, <1>2, <1>3 DEF Next

\* The inductive invariant is an invariant.
LEMMA IInvAlways == Spec => []IInv
BY InitIInv, NextIInv, PTL DEF Spec

\* The store always maps each key to an absent entry or to an entry with one
\* owner and a typed datum, whatever is requested of BlackboardComponent.
THEOREM TypeCorrect == Spec => []TypeOK
<1>1. IInv => TypeOK
  BY DEF IInv
<1> QED BY <1>1, IInvAlways, PTL

\* A client that holds the lock of a key may compute its next write from
\* what it last read: no other client's request, and no command of the
\* operator, changes the datum and leaves the client its lock.
THEOREM LockProtectsReadModifyWrite == Spec => []ViewCoherent
<1>1. IInv => ViewCoherent
  BY DEF IInv
<1> QED BY <1>1, IInvAlways, PTL

\* No step of BlackboardComponent takes the lock of a key from one client
\* and gives it to another.
THEOREM LockNeverStolen == Spec => NoLockStolen
<1>1. ASSUME IInv, Next, NEW s \in Skills, NEW k \in Keys, Owns(s, k),
             NEW c \in Skills \ {s}
      PROVE  ~Owns(c, k)'
  <2> USE BlackboardAssumption
  <2>1. CASE Start
    BY <1>1, <2>1 DEF Start, parseEntry, Owns, Stored
  <2>2. CASE Operator
    BY <1>1, <2>2 DEF Operator, resetData, clearAll, clearData, Owns, Stored,
                      IInv, TypeOK, BlackboardTypeOK, InitialEntriesUnlocked
  <2>3. ASSUME NEW a \in Skills, NEW j \in Keys, Client(a, j)
        PROVE  ~Owns(c, k)'
    <3>1. m_storage \in [Keys -> Entry \cup {NoEntry}]
      BY <1>1 DEF IInv, TypeOK, BlackboardTypeOK
    <3>2. m_storage[k] \in Entry
      BY <1>1, <3>1 DEF Owns, Stored
    <3>3. CASE ClientLock(a, j)
      BY <1>1, <3>1, <3>2, <3>3 DEF ClientLock, lock, Evaluate, Owns, Stored, Entry
    <3>4. CASE ClientRead(a, j)
      BY <1>1, <3>4 DEF ClientRead, readData, bbVars, Owns, Stored
    <3>5. CASE ClientWrite(a, j)
      BY <1>1, <3>1, <3>2, <3>5 DEF ClientWrite, writeData, Evaluate, Owns, Stored, Entry
    <3>6. CASE ClientUnlock(a, j)
      BY <1>1, <3>1, <3>2, <3>6 DEF ClientUnlock, unlock, Evaluate, Owns, Stored, Entry
    <3> QED BY <2>3, <3>3, <3>4, <3>5, <3>6 DEF Client
  <2> QED BY <1>1, <2>1, <2>2, <2>3 DEF Next
<1>2. IInv /\ [Next]_vars =>
        [\A s \in Skills, k \in Keys :
           Owns(s, k) => \A c \in Skills \ {s} : ~Owns(c, k)']_vars
  BY <1>1
<1> QED BY <1>2, IInvAlways, PTL DEF Spec, NoLockStolen

-----------------------------------------------------------------------------
(* No two clients of the Id component hold one id: for any clients,        *)
(* preferred ids, radix and largest number.  The invariant adds to it the  *)
(* ids on their way: an id is in the hands of one client at most, as       *)
(* something it holds, is about to receive or is giving back, and only as  *)
(* one of these.                                                           *)

CONSTANTS IdClients, Preferred, Radix, MaxNumber
VARIABLES ids, held, pending

I == INSTANCE IdComponent WITH Clients <- IdClients

Claims(c) == held[c] \cup I!InCall(c)

IdInv ==
  /\ I!TypeOK
  /\ \A c \in IdClients : held[c] \cap I!InCall(c) = {}
  /\ \A c, d \in IdClients : c # d => Claims(c) \cap Claims(d) = {}

LEMMA IdInitInv == I!Init => IdInv
  BY DEF I!Init, IdInv, I!TypeOK, I!Pending, I!NoCall, Claims, I!InCall

LEMMA IdNextInv == IdInv /\ [I!Next]_(I!vars) => IdInv'
<1> SUFFICES ASSUME IdInv, [I!Next]_(I!vars) PROVE IdInv'
  OBVIOUS
<1> USE DEF IdInv, I!TypeOK, Claims
<1>1. ASSUME NEW c \in IdClients, I!Ask(c) PROVE IdInv'
  <2> DEFINE p == pending'[c].preferred
  <2>1. PICK q \in Preferred : pending' = [pending EXCEPT ![c] = [op |-> "request", preferred |-> q]]
    BY <1>1 DEF I!Ask
  <2>2. [op |-> "request", preferred |-> q] \in I!Pending
    BY DEF I!Pending
  <2>3. ids' = ids /\ held' = held /\ pending' \in [IdClients -> I!Pending]
    BY <1>1, <2>1, <2>2 DEF I!Ask
  <2>4. \A d \in IdClients : I!InCall(d)' \subseteq I!InCall(d)
    BY <1>1, <2>1, <2>3 DEF I!InCall, I!Ask
  <2> QED BY <2>3, <2>4
<1>2. ASSUME NEW c \in IdClients, I!request_id(c) PROVE IdInv'
  <2>1. PICK i \in 0 .. MaxNumber :
          /\ I!Id(pending[c].preferred, i) \notin ids
          /\ ids' = ids \cup {I!Id(pending[c].preferred, i)}
          /\ pending' = [pending EXCEPT ![c] = [op |-> "answer", id |-> I!Id(pending[c].preferred, i)]]
    BY <1>2 DEF I!request_id
  <2> DEFINE id == I!Id(pending[c].preferred, i)
  <2>2. pending[c].preferred \in Preferred
    BY <1>2 DEF I!request_id, I!Pending, I!NoCall
  <2>3. id \in I!Ids
    BY <2>2 DEF I!Ids
  <2> HIDE DEF id
  <2>4. [op |-> "answer", id |-> id] \in I!Pending
    BY <2>3 DEF I!Pending
  <2>5. id \notin ids /\ ids' = ids \cup {id} /\ held' = held
        /\ pending' = [pending EXCEPT ![c] = [op |-> "answer", id |-> id]]
    BY <1>2, <2>1 DEF I!request_id, id
  <2>6. pending' \in [IdClients -> I!Pending]
    BY <2>4, <2>5
  <2>7. I!InCall(c)' = {id} /\ \A d \in IdClients : d # c => I!InCall(d)' = I!InCall(d)
    BY <2>5 DEF I!InCall
  <2> QED BY <2>3, <2>5, <2>6, <2>7
<1>3. ASSUME NEW c \in IdClients, I!Receive(c) PROVE IdInv'
  <2>1. pending' \in [IdClients -> I!Pending] /\ ids' = ids
    BY <1>3 DEF I!Receive, I!Pending
  <2>2. I!InCall(c)' = {} /\ I!InCall(c) = {pending[c].id}
    BY <1>3 DEF I!Receive, I!InCall, I!NoCall
  <2>3. \A d \in IdClients : d # c => I!InCall(d)' = I!InCall(d) /\ held'[d] = held[d]
    BY <1>3 DEF I!Receive, I!InCall
  <2>4. held'[c] \subseteq held[c] \cup I!InCall(c) /\ held' \in [IdClients -> SUBSET I!Ids]
    BY <1>3, <2>2 DEF I!Receive
  <2> QED BY <2>1, <2>2, <2>3, <2>4
<1>4. ASSUME NEW c \in IdClients, I!GiveBack(c) PROVE IdInv'
  <2>1. PICK id \in held[c] :
          /\ held' = [held EXCEPT ![c] = @ \ {id}]
          /\ pending' = [pending EXCEPT ![c] = [op |-> "release", id |-> id]]
    BY <1>4 DEF I!GiveBack
  <2>2. id \in I!Ids /\ [op |-> "release", id |-> id] \in I!Pending
    BY DEF I!Pending
  <2>3. pending' \in [IdClients -> I!Pending] /\ held' \in [IdClients -> SUBSET I!Ids] /\ ids' = ids
    BY <1>4, <2>1, <2>2 DEF I!GiveBack
  <2>4. I!InCall(c)' = {id} /\ held'[c] = held[c] \ {id}
    BY <2>1 DEF I!InCall
  <2>5. \A d \in IdClients : d # c => I!InCall(d)' = I!InCall(d) /\ held'[d] = held[d]
    BY <2>1 DEF I!InCall
  <2> QED BY <2>3, <2>4, <2>5
<1>5. ASSUME NEW c \in IdClients, I!release_id(c) PROVE IdInv'
  <2>1. /\ ids' = ids \ {pending[c].id} /\ held' = held
        /\ pending' = [pending EXCEPT ![c] = I!NoCall] /\ pending' \in [IdClients -> I!Pending]
    BY <1>5 DEF I!release_id, I!Pending
  <2>2. I!InCall(c)' = {} /\ I!InCall(c) = {pending[c].id}
    BY <1>5, <2>1 DEF I!release_id, I!InCall, I!NoCall
  <2>3. \A d \in IdClients : d # c => I!InCall(d)' = I!InCall(d)
    BY <2>1 DEF I!InCall
  <2> QED BY <2>1, <2>2, <2>3
<1>6. CASE UNCHANGED I!vars
  BY <1>6 DEF I!vars, I!InCall
<1> QED BY <1>1, <1>2, <1>3, <1>4, <1>5, <1>6 DEF I!Next

(* The ids the component has given and what the clients hold of them are   *)
(* well formed, and what a client holds is never free.                     *)
THEOREM IdTypeCorrect == I!Spec => []I!TypeOK
<1>1. IdInv => I!TypeOK
  BY DEF IdInv
<1> QED BY IdInitInv, IdNextInv, <1>1, PTL DEF I!Spec

(* No id is given to a client while another holds it.                      *)
THEOREM IdsAreUnique == I!Spec => []I!UniqueIds
<1>1. IdInv => I!UniqueIds
  BY DEF IdInv, I!UniqueIds, Claims
<1> QED BY IdInitInv, IdNextInv, <1>1, PTL DEF I!Spec
=============================================================================
