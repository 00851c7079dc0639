---------------------------- MODULE PortMonitor ----------------------------
(***************************************************************************)
(* The carrier portmonitor2 at an input port: every connection has a       *)
(* PortMonitor, which binds a script or a shared library and has a thread  *)
(* that receives messages.  The monitors of a port are peers.  A message   *)
(* is accepted by the callback of its connection, then all peers are       *)
(* triggered and the rule of the connection is evaluated over the events   *)
(* that the scripts have set, then the message is modified and delivered.  *)
(* Each step is what a thread does between two operations on a lock.       *)
(*                                                                         *)
(* The scripts are those that arbitrate a port: accept sets an event of    *)
(* the connection, trig may take it back, and the rule of a connection     *)
(* names the events that go before it.                                     *)
(***************************************************************************)
EXTENDS MonitorEvents

Lua == INSTANCE MonitorLua
Dummy == INSTANCE DummyConnector

CONSTANTS
  Connections,
  SharedLibs,      \* those with a shared library instead of a script
  Script,          \* the callbacks of the scripts
  MayRead,         \* the callbacks of scripts and libraries that may read a message
  Raises, Rule,    \* the events that accept may set, and the rule
  Lifetime,        \* of the events
  MaxMessages,     \* bound on the messages of each connection
  MaxFailures      \* and on its rules that cannot be evaluated

Nobody == "nobody"

ASSUME PortMonitorAssumption ==
  /\ IsFiniteSet(Connections) /\ Nobody \notin Connections
  /\ SharedLibs \subseteq Connections
  /\ Script \in [Connections -> SUBSET {"create", "accept", "update", "trig", "setparam", "getparam"}]
  /\ DOMAIN MayRead = Connections
  /\ DOMAIN Raises = Connections /\ \A c \in Connections : IsFiniteSet(Raises[c])
  /\ Rule \in [Connections -> Seq(STRING)]
  /\ Lifetime \in Nat \cup {Forever}
  /\ MaxMessages \in [Connections -> Nat] /\ MaxFailures \in Nat

VARIABLES
  pc,           \* where the thread of a connection is
  bReady,       \* whether its monitor is loaded
  flags,        \* the callbacks that load has found
  stack,        \* of its Lua state
  failed,       \* how often its rule could not be evaluated
  mutex,        \* who holds the lock of its monitor
  peers,        \* the monitors of the port
  peersLock,    \* who holds the lock of the group
  left,         \* the peers that a thread has still to trigger
  peer,         \* the one that it triggers
  reader,       \* the messages that the reader of the network holds
  con,          \* the dummy connection
  localReader,  \* which of both readers is handed on
  unwritten,    \* whether the copy of a message that was read has failed
  record,       \* MonitorEventRecord, one for all
  looked,       \* the values of the names of the rule that were looked up
  lived,        \* the events of the rule that have lived since they all could be
  received,     \* the number of messages
  delivered     \* what the port got of the last message

luaVars == <<bReady, flags, stack, failed>>
lockVars == <<mutex, peers, peersLock, left, peer>>
dataVars == <<reader, con, localReader, unwritten, received, delivered>>
vars == <<pc, luaVars, lockVars, dataVars, record, looked, lived>>

Places == {"out", "loading", "leaving", "idle", "accepting", "inAccept", "electing",
           "triggering", "inTrig", "updating", "inUpdate"}

TypeOK ==
  /\ pc \in [Connections -> Places]
  /\ bReady \in [Connections -> BOOLEAN]
  /\ \A c \in Connections : flags[c] \subseteq Script[c]
  /\ \A c \in Connections : ToSet(stack[c]) \subseteq {"library", "PortMonitor", "string"}
  /\ failed \in [Connections -> 0..MaxFailures]
  /\ mutex \in [Connections -> Connections \cup {Nobody}]
  /\ peers \subseteq Connections
  /\ peersLock \in Connections \cup {Nobody}
  /\ left \in [Connections -> SUBSET Connections]
  /\ peer \in [Connections -> Connections \cup {Nobody}]
  /\ localReader \in [Connections -> {"reader", "con"}]
  /\ unwritten \in [Connections -> BOOLEAN]
  /\ \A c \in Connections : received[c] \in 0..MaxMessages[c]
  /\ Len(record) <= Cardinality({p \in (UNION Range(Raises)) \X Connections : p[1] \in Raises[p[2]]})
  /\ \A c \in Connections : looked[c] \in Seq(BOOLEAN) /\ Len(looked[c]) <= Len(Rule[c])

Each(x) == [c \in Connections |-> x]

Init ==
  /\ pc = Each("out")
  /\ bReady = Each(FALSE) /\ flags = Each({})
  /\ stack = Each(Lua!New) /\ failed = Each(0)
  /\ mutex = Each(Nobody) /\ peers = {} /\ peersLock = Nobody
  /\ left = Each({}) /\ peer = Each(Nobody)
  /\ reader = Each(<<>>) /\ con = Each(Dummy!DummyConnector2)
  /\ localReader = Each("reader") /\ unwritten = Each(FALSE)
  /\ record = <<>>
  /\ looked = Each(<<>>) /\ lived = Each({})
  /\ received = Each(0) /\ delivered = Each(<<>>)

Goes(c, from, to) == pc[c] = from /\ pc' = [pc EXCEPT ![c] = to]

Locks(c, p) == mutex[p] = Nobody /\ mutex' = [mutex EXCEPT ![p] = c]
Unlocks(p) == mutex' = [mutex EXCEPT ![p] = Nobody]

\* A shared library has every callback.
hasAccept(c) == c \in SharedLibs \/ "accept" \in flags[c]
hasUpdate(c) == c \in SharedLibs \/ "update" \in flags[c]

-----------------------------------------------------------------------------
(* configure: the monitor is a peer before it is loaded.  A script without *)
(* the table PortMonitor, or whose create says so, is not ready: then the  *)
(* connection is not made.                                                 *)
configure(c) ==
  /\ peersLock = Nobody
  /\ Goes(c, "out", "loading")
  /\ peers' = peers \cup {c}
  /\ UNCHANGED <<luaVars, mutex, peersLock, left, peer, dataVars, record, looked>>

\* What load makes of the monitor.
Loads(c) ==
  IF c \in SharedLibs THEN {[stack |-> Lua!New, ready |-> b, flags |-> {}] : b \in BOOLEAN}
                      ELSE Lua!load(stack[c], Script[c])

load(c) ==
  /\ pc[c] = "loading" /\ mutex[c] = Nobody
  /\ \E l \in Loads(c) :
       /\ Goes(c, "loading", IF l.ready THEN "idle" ELSE "leaving")
       /\ bReady' = [bReady EXCEPT ![c] = l.ready]
       /\ flags' = [flags EXCEPT ![c] = l.flags]
       /\ stack' = [stack EXCEPT ![c] = l.stack]
  /\ UNCHANGED <<failed, lockVars, dataVars, record, looked>>

\* The next connection has a new monitor, with a Lua state and a dummy connection.
Unloads(c) ==
  /\ bReady' = [bReady EXCEPT ![c] = FALSE]
  /\ flags' = [flags EXCEPT ![c] = {}]
  /\ stack' = [stack EXCEPT ![c] = Lua!New]
  /\ failed' = [failed EXCEPT ![c] = 0]
  /\ con' = [con EXCEPT ![c] = Dummy!DummyConnector2]
  /\ localReader' = [localReader EXCEPT ![c] = "reader"]
  /\ reader' = [reader EXCEPT ![c] = <<>>]
  /\ unwritten' = [unwritten EXCEPT ![c] = FALSE]
  /\ delivered' = [delivered EXCEPT ![c] = <<>>]
  /\ UNCHANGED received

\* Mutant: the monitor is deleted without the lock of the group.
disconnectUnlocked(c) ==
  /\ pc[c] \in {"idle", "leaving"}
  /\ pc' = [pc EXCEPT ![c] = "out"]
  /\ peers' = peers \ {c}
  /\ Unloads(c)
  /\ UNCHANGED <<mutex, peersLock, left, peer, record, looked>>

\* The destructor leaves the group, under its lock, and deletes the binding.
\* The events of the connection stay.
disconnect(c) ==
  /\ peersLock = Nobody
  /\ pc[c] \in {"idle", "leaving"}
  /\ pc' = [pc EXCEPT ![c] = "out"]
  /\ peers' = peers \ {c}
  /\ Unloads(c)
  /\ UNCHANGED <<mutex, peersLock, left, peer, record, looked>>

-----------------------------------------------------------------------------
(* acceptIncomingData.                                                     *)

\* What the next callback or the port reads.
AtHand(c) == IF localReader[c] = "con" THEN con[c].reader ELSE reader[c]

Receive(c) ==
  /\ received[c] < MaxMessages[c]
  /\ Goes(c, "idle", IF hasAccept(c) THEN "accepting" ELSE "electing")
  /\ received' = [received EXCEPT ![c] = @ + 1]
  /\ reader' = [reader EXCEPT ![c] = <<received'[c]>>]
  /\ localReader' = [localReader EXCEPT ![c] = "reader"]
  /\ unwritten' = [unwritten EXCEPT ![c] = FALSE]
  /\ delivered' = [delivered EXCEPT ![c] = <<>>]
  /\ UNCHANGED <<luaVars, lockVars, con, record, looked>>

LockAccept(c) ==
  /\ Goes(c, "accepting", "inAccept")
  /\ Locks(c, c)
  /\ UNCHANGED <<luaVars, peers, peersLock, left, peer, dataVars, record, looked>>

\* What accept leaves and answers; that of a library says yes or no.
Accepts(c) ==
  IF c \in SharedLibs THEN {Lua!Outcome(stack[c], v, TRUE) : v \in {"yes", "no"}}
                      ELSE Lua!acceptData(stack[c], Script[c])

\* A script that accepts a message may set one of its events.
Raised(c) ==
  {record} \cup (IF c \in SharedLibs THEN {} ELSE {setEvent(record, e, c, Lifetime) : e \in Raises[c]})

\* Mutant: the lock is kept until the group has decided.
acceptDataLocked(c) ==
  /\ Goes(c, "inAccept", "electing")
  /\ record' \in Raised(c)
  /\ UNCHANGED <<luaVars, lockVars, dataVars, looked>>

\* The dummy connection is reset and the data written to it, which may fail;
\* then its reader is not loaded.
Copied(c, data, written) ==
  LET copy == Dummy!write(Dummy!reset(con[c]), data)
  IN  IF written THEN Dummy!getReader(copy) ELSE copy

\* A callback that reads the message drains the reader, and what is refused is
\* skipped.  When the message is accepted, what was read is copied, and
\* localReader reads the copy.
acceptData(c) ==
  /\ pc[c] = "inAccept"
  /\ \E r \in Accepts(c), reads, written \in BOOLEAN :
       LET accepted == r.value = "yes"
       IN  /\ reads => r.ran /\ "accept" \in MayRead[c]
           /\ Goes(c, "inAccept", IF accepted THEN "electing" ELSE "idle")
           /\ record' \in IF accepted /\ r.ran THEN Raised(c) ELSE {record}
           /\ stack' = [stack EXCEPT ![c] = r.stack]
           /\ reader' = [reader EXCEPT ![c] = IF accepted /\ ~reads THEN @ ELSE <<>>]
           /\ IF accepted /\ reads
              THEN /\ con' = [con EXCEPT ![c] = Copied(c, reader[c], written)]
                   /\ localReader' = [localReader EXCEPT ![c] = IF written THEN "con" ELSE @]
                   /\ unwritten' = [unwritten EXCEPT ![c] = ~written]
              ELSE UNCHANGED <<con, localReader, unwritten>>
  /\ Unlocks(c)
  /\ UNCHANGED <<bReady, flags, failed, peers, peersLock, left, peer, received, delivered, looked>>

\* PortMonitorGroup::acceptIncomingData, under the lock of the group.
Elect(c) ==
  /\ peersLock = Nobody
  /\ Goes(c, "electing", "triggering")
  /\ peersLock' = c
  /\ left' = [left EXCEPT ![c] = peers \ {c}]
  /\ UNCHANGED <<luaVars, mutex, peers, peer, dataVars, record, looked>>

LockPeer(c, p) ==
  /\ p \in left[c]
  /\ Goes(c, "triggering", "inTrig")
  /\ Locks(c, p)
  /\ left' = [left EXCEPT ![c] = @ \ {p}]
  /\ peer' = [peer EXCEPT ![c] = p]
  /\ UNCHANGED <<luaVars, peers, peersLock, dataVars, record, looked>>

\* peerTrigged of the binding of p: trig of the script may take an event back.
trig(p) ==
  IF p \in SharedLibs THEN UNCHANGED <<stack, record>>
  ELSE LET called == Lua!peerTrigged(stack[p], Script[p])
       IN  /\ \E s \in {r.stack : r \in called} : stack' = [stack EXCEPT ![p] = s]
           /\ \/ UNCHANGED record
              \/ /\ \E r \in called : r.ran
                 /\ \E e \in Raises[p] : record' = unsetEvent(record, e, p)

\* A peer that is not ready has no binding to trigger (getBinder).
peerTrigged(c) ==
  /\ Goes(c, "inTrig", "triggering")
  /\ IF bReady[peer[c]] THEN trig(peer[c]) ELSE UNCHANGED <<stack, record>>
  /\ Unlocks(peer[c])
  /\ peer' = [peer EXCEPT ![c] = Nobody]
  /\ UNCHANGED <<bReady, flags, failed, peers, peersLock, left, dataVars, looked>>

\* All peers have been triggered, and the rule is evaluated.
Deciding(c) == pc[c] = "triggering" /\ left[c] = {}

\* The rule that a connection evaluates; a library has none.
Constraint(c) == IF c \in SharedLibs THEN <<>> ELSE Rule[c]

\* The names of the rule are looked up one after the other, each under the lock
\* of the record.
Look(c) ==
  /\ Deciding(c) /\ Len(looked[c]) < Len(Constraint(c))
  /\ LET looks == hasEvent(record, Constraint(c)[Len(looked[c]) + 1])
     IN  /\ looked' = [looked EXCEPT ![c] = Append(@, looks.has)]
         /\ record' = looks.record
  /\ UNCHANGED <<pc, luaVars, lockVars, dataVars>>

\* A rule may not be evaluated; without one the message is accepted.
Evaluates(c) ==
  IF Constraint(c) = <<>> THEN {Lua!Outcome(stack[c], "yes", TRUE)}
  ELSE Lua!canAccept(stack[c], canAccept(Rule[c], looked[c]), failed[c] < MaxFailures)

Decide(c) ==
  /\ Deciding(c) /\ Len(looked[c]) = Len(Constraint(c))
  /\ \E r \in Evaluates(c) :
       /\ Goes(c, "triggering", IF r.value = "yes" THEN "updating" ELSE "idle")
       /\ stack' = [stack EXCEPT ![c] = r.stack]
       /\ failed' = [failed EXCEPT ![c] = IF r.value = Lua!Failed THEN @ + 1 ELSE @]
  /\ looked' = [looked EXCEPT ![c] = <<>>]
  /\ peersLock' = Nobody
  /\ UNCHANGED <<bReady, flags, mutex, peers, left, peer, dataVars, record>>

-----------------------------------------------------------------------------
(* modifyIncomingData.                                                     *)
LockUpdate(c) ==
  /\ hasUpdate(c)
  /\ Goes(c, "updating", "inUpdate")
  /\ Locks(c, c)
  /\ UNCHANGED <<luaVars, peers, peersLock, left, peer, dataVars, record, looked>>

Updates(c) ==
  IF c \in SharedLibs THEN {Lua!Outcome(stack[c], "yes", TRUE)}
                      ELSE Lua!updateData(stack[c], Script[c])

\* What update returns is copied, read or not; when that fails, the port reads
\* what update has left in localReader.  The port takes all it is given.
updateData(c) ==
  /\ \/ /\ Goes(c, "inUpdate", "idle") /\ Unlocks(c)
        /\ \E r \in Updates(c), reads, written \in BOOLEAN :
             LET copied == Copied(c, AtHand(c), written)
             IN  /\ reads => r.ran /\ "update" \in MayRead[c]
                 /\ delivered' = [delivered EXCEPT ![c] = IF written THEN copied.reader
                                                          ELSE IF reads THEN <<>> ELSE AtHand(c)]
                 /\ con' = [con EXCEPT ![c] = Dummy!drain(copied)]
                 /\ unwritten' = [unwritten EXCEPT ![c] = @ \/ (reads /\ ~written)]
                 /\ stack' = [stack EXCEPT ![c] = r.stack]
     \/ /\ ~hasUpdate(c) /\ Goes(c, "updating", "idle")
        /\ delivered' = [delivered EXCEPT ![c] = AtHand(c)]
        /\ con' = [con EXCEPT ![c] = Dummy!drain(@)]
        /\ UNCHANGED <<mutex, stack, unwritten>>
  /\ reader' = [reader EXCEPT ![c] = <<>>]
  /\ UNCHANGED <<bReady, flags, failed, peers, peersLock, left, peer, localReader, record, looked, received>>

-----------------------------------------------------------------------------
(* Other threads of the process.                                           *)

\* A script that has been loaded, whatever its create has said.
Loaded(c) == c \notin SharedLibs /\ pc[c] \notin {"out", "loading"} /\ stack[c] # Lua!Closed

\* The trigger thread of a script, which one of its callbacks starts with
\* setTrigInterval.
MonitorTrigger(c) ==
  /\ Loaded(c)
  /\ trig(c)
  /\ UNCHANGED <<pc, bReady, flags, failed, lockVars, dataVars, looked>>

\* The administrator of the port sets or gets the parameters of a monitor.
CarrierParams(c) ==
  /\ bReady[c] /\ c \notin SharedLibs
  /\ mutex[c] = Nobody
  /\ \E s \in {r.stack : r \in Lua!setParams(stack[c], Script[c]) \cup Lua!getParams(stack[c], Script[c])} :
       stack' = [stack EXCEPT ![c] = s]
  /\ UNCHANGED <<pc, bReady, flags, failed, lockVars, dataVars, record, looked>>

TimePasses ==
  /\ record' = Aged(record)
  /\ UNCHANGED <<pc, luaVars, lockVars, dataVars, looked>>

\* What a thread does once it has begun with a message.
Goes_on(c) ==
  \/ LockAccept(c) \/ acceptData(c) \/ Elect(c) \/ (\E p \in Connections : LockPeer(c, p))
  \/ peerTrigged(c) \/ Look(c) \/ Decide(c) \/ LockUpdate(c) \/ updateData(c)

Acts(c) ==
  \/ configure(c) \/ load(c) \/ disconnect(c) \/ Receive(c) \/ Goes_on(c)
  \/ MonitorTrigger(c) \/ CarrierParams(c)

Alive(name) == \E i \in DOMAIN record : record[i].name = name /\ Lives(record[i])

AliveNames(c) == {name \in Range(Constraint(c)) : Alive(name)}

\* The history of the events of a rule while it is evaluated.
Remembers ==
  lived' = [c \in Connections |->
              IF ~Deciding(c)' THEN {}
              ELSE IF Deciding(c) THEN lived[c] \cap AliveNames(c)' ELSE AliveNames(c)']

Next == (TimePasses \/ \E c \in Connections : Acts(c)) /\ Remembers

Spec == Init /\ [][Next]_vars

\* A thread that has a message goes on; the locks are held for a step.
Fairness == \A c \in Connections : WF_<<pc, looked>>(Goes_on(c))

FairSpec == Spec /\ Fairness

-----------------------------------------------------------------------------
\* No thread triggers a monitor that has been deleted (the destructor of
\* PortMonitor, and the lock of the group around acceptIncomingData).
NoDeletedPeer ==
  \A c \in Connections : pc[c] = "inTrig" => peer[c] \in peers /\ mutex[peer[c]] = c

\* Every message that is received is delivered or refused: threads that trigger
\* each other's monitors do not wait for each other in a circle.
MessageIsDecided ==
  \A c \in Connections : pc[c] = "accepting" ~> pc[c] = "idle"

\* A message that is accepted reaches the port once, with its own data, although
\* callbacks have read it; but a callback that has read a message whose copy
\* then fails leaves nothing for the port (localReader and con of
\* acceptIncomingData and modifyIncomingData).
DataIsDelivered ==
  [][\A c \in Connections :
       pc[c] \in {"updating", "inUpdate"} /\ pc'[c] = "idle" =>
         \/ delivered'[c] = <<received[c]>>
         \/ unwritten'[c] /\ delivered'[c] = <<>>]_vars

\* "Replaces each event symbolic name with a boolean value based on their
\* existence in MonitorEventRecord" (MonitorLua::canAccept): whatever other
\* threads set, take back or let expire between two names, an event of the rule
\* that lives while the rule is evaluated refuses the message.
RuleHolds ==
  [][\A c \in Connections : Deciding(c) /\ pc'[c] = "updating" => lived[c] = {}]_vars

\* However the calls of a monitor follow each other, the table PortMonitor is on
\* the top of the stack when the next one begins, below a message for every rule
\* that could not be evaluated: until then getLocalFunction finds what the script
\* defines (all operations of MonitorLua).
StackIsRestored ==
  \A c \in Connections \ SharedLibs :
    Loaded(c) => stack[c] = Lua!Base \o [i \in 1..failed[c] |-> "string"]
=============================================================================
