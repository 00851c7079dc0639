----------------------------- MODULE Blackboard -----------------------------
(***************************************************************************)
(* The BlackboardComponent: a store of typed data, each entry carrying the *)
(* name of the skill that holds it locked.  An RPC handler holds m_mutex   *)
(* from its first to its last line, so each handler is one action here;    *)
(* its reply is the parameter r (and v for the datum read), which the      *)
(* caller binds with \E.  The skills that call the component are in the    *)
(* modules that extend this one.                                           *)
(***************************************************************************)
EXTENDS Integers

CONSTANTS
  Keys,         \* the keys named in entries.ini
  Skills,       \* the skillIDs of the clients
  NoSkill,      \* the empty owner string: the entry is not locked
  Numbers,      \* numeric data; a float is represented by its integral part
  Strings,      \* string data
  EmptyString,  \* what a numeric datum reads as when read as a string
  NoEntry,      \* the value of a key that m_storage does not contain
  Entries       \* entries.ini, parsed: key -> entry

Int32   == "Int32"
Float64 == "Float64"
String  == "String"
Types   == {Int32, Float64, String}

Data(t) == IF t = String THEN Strings ELSE Numbers
Datum   == UNION {[type : {t}, datum : Data(t)] : t \in Types}

\* An entry is a Bottle: item 0 is the owner, item 1 the datum.
Entry == [owner : Skills \cup {NoSkill}, value : Datum]

requestEvaluation == {"UNKNOWN", "VALID", "INVALID_KEY", "UNAUTHORIZED_CLIENT"}

\* entries.ini opens every entry with null: no entry starts locked.
ASSUME BlackboardAssumption ==
  /\ NoSkill \notin Skills
  /\ NoEntry \notin Entry
  /\ 0 \in Numbers /\ Numbers \subseteq Int
  /\ EmptyString \in Strings
  /\ Entries \in [Keys -> [owner : {NoSkill}, value : Datum]]

VARIABLES
  m_storage,                \* the store
  m_initialization_values,  \* the entries init has parsed so far
  up                        \* the process runs

bbVars == <<m_storage, m_initialization_values, up>>

BlackboardTypeOK ==
  /\ m_storage \in [Keys -> Entry \cup {NoEntry}]
  /\ m_initialization_values \in [Keys -> Entry \cup {NoEntry}]
  /\ up \in BOOLEAN

Stored(k) == m_storage[k] # NoEntry
Owns(s, k) == Stored(k) /\ m_storage[k].owner = s

\* Value::asInt32, asFloat64 and asString convert between the numeric types
\* and give the default of the requested type otherwise.
As(t, d) ==
  CASE t = String /\ d.type # String -> EmptyString
    [] t # String /\ d.type = String -> 0
    [] OTHER -> d.datum

-----------------------------------------------------------------------------
(* Start: the port serves before init has read the file.                   *)

BlackboardInit ==
  /\ m_storage = [k \in Keys |-> NoEntry]
  /\ m_initialization_values = [k \in Keys |-> NoEntry]
  /\ up = TRUE

\* One line of entries.ini is parsed, without m_mutex.
parseEntry(k) ==
  /\ up
  /\ m_initialization_values[k] = NoEntry
  /\ m_initialization_values' = [m_initialization_values EXCEPT ![k] = Entries[k]]
  /\ UNCHANGED <<m_storage, up>>

\* Mutant: the owner of an entry survives the reset of its datum.
resetDataKeepsOwner ==
  /\ up
  /\ m_storage' = [k \in Keys |->
       IF Stored(k) /\ m_initialization_values[k] # NoEntry
       THEN [m_initialization_values[k] EXCEPT !.owner = m_storage[k].owner]
       ELSE m_initialization_values[k]]
  /\ UNCHANGED <<m_initialization_values, up>>

\* The whole store is replaced, the owners with it.  init ends with this call
\* and an operator may issue it at any time, before init has ended included.
resetData ==
  /\ up
  /\ m_storage' = m_initialization_values
  /\ UNCHANGED <<m_initialization_values, up>>

-----------------------------------------------------------------------------
(* Operator commands.                                                      *)

clearAll ==
  /\ up
  /\ m_storage' = [k \in Keys |-> NoEntry]
  /\ UNCHANGED <<m_initialization_values, up>>

\* erase(find(target)) is undefined when the key is absent: the process may
\* survive or be lost.
clearData(k) ==
  /\ up
  /\ m_storage' = [m_storage EXCEPT ![k] = NoEntry]
  /\ IF Stored(k) THEN up' = up ELSE up' \in BOOLEAN
  /\ UNCHANGED m_initialization_values

-----------------------------------------------------------------------------
(* Client requests.  Evaluate is the common head of the handlers: the key  *)
(* is looked up, then the owner is compared with the owners the operation  *)
(* admits.  A request to a process that is gone leaves the reply as the    *)
(* stub constructed it, UNKNOWN.                                           *)

Evaluate(k, admitted) ==
  IF ~up THEN "UNKNOWN"
  ELSE IF ~Stored(k) THEN "INVALID_KEY"
  ELSE IF m_storage[k].owner \in admitted THEN "VALID"
  ELSE "UNAUTHORIZED_CLIENT"

readData(s, k, t, r, v) ==
  /\ r = Evaluate(k, {NoSkill, s})
  /\ v = IF r = "VALID" THEN As(t, m_storage[k].value)
         ELSE IF t = String THEN EmptyString ELSE 0
  /\ UNCHANGED bbVars

writeData(s, k, t, d, r) ==
  /\ r = Evaluate(k, {s})
  /\ m_storage' = IF r = "VALID"
                  THEN [m_storage EXCEPT ![k].value = [type |-> t, datum |-> d]]
                  ELSE m_storage
  /\ UNCHANGED <<m_initialization_values, up>>

\* Mutant: the lock is granted whoever owns it.
lockUnchecked(s, k, r) ==
  /\ r = IF up /\ Stored(k) THEN "VALID" ELSE Evaluate(k, {s})
  /\ m_storage' = IF r = "VALID" THEN [m_storage EXCEPT ![k].owner = s]
                                 ELSE m_storage
  /\ UNCHANGED <<m_initialization_values, up>>

\* Re-entrant: the owner may lock again.
lock(s, k, r) ==
  /\ r = Evaluate(k, {NoSkill, s})
  /\ m_storage' = IF r = "VALID" THEN [m_storage EXCEPT ![k].owner = s]
                                 ELSE m_storage
  /\ UNCHANGED <<m_initialization_values, up>>

unlock(s, k, r) ==
  /\ r = Evaluate(k, {s})
  /\ m_storage' = IF r = "VALID" THEN [m_storage EXCEPT ![k].owner = NoSkill]
                                 ELSE m_storage
  /\ UNCHANGED <<m_initialization_values, up>>

=============================================================================
