------------------------- MODULE FetchSystemProofs -------------------------
(***************************************************************************)
(* Fetching an object, for any bound on the waiting events, any number of  *)
(* misses of the hand and any calls of home.                               *)
(*                                                                         *)
(* The invariant follows an event from the call that raises it to the      *)
(* transition that takes it (Scripted), and a start from the question that *)
(* guards it to the chart that takes it (Started, Unacknowledged,          *)
(* EmptyHand): what IsFetched has been told must still be true when Fetch  *)
(* opens the hand.                                                         *)
(***************************************************************************)
EXTENDS FetchSystem, SequenceTheorems, TLAPS

Commands == {"CMD_START", "CMD_OK", "CMD_STOP"}

\* The events that the script of a state may raise.
AnswerEvents(s) ==
  CASE s = "get"      -> {"STATUS_SUCCESS", "STATUS_FAILED"}
    [] s = "pregrasp" -> {"PREGRASP_OK", "PREGRASP_KO"}
    [] s = "extract"  -> {"EXTRACT_OK", "EXTRACT_KO"}
    [] s = "open"     -> {"OPEN_OK", "OPEN_KO"}
    [] s = "grasp"    -> {"GRASP_OK", "GRASP_KO"}
    [] s = "retract"  -> {"RETRACT_OK", "RETRACT_KO"}
    [] OTHER          -> {}

StatesOf(n) ==
  IF n \in Fetchers
  THEN {"idle", "pregrasp", "extract", "open", "grasp", "retract", "success", "failure"}
  ELSE {"idle", "get", "success", "failure"}

\* The calls that the script of a state may have before it.
CallsOf(s) == {<<>>, OnEntry(s)} \cup (IF s = "grasp" THEN {<<"hasGrasped">>} ELSE {})

Waits(n, e) == \E i \in DOMAIN queue[n] : queue[n][i] = e

Pending(n, e) == late[n] = e \/ Waits(n, e)

\* A chart has one answer under way: as calls to make, in the timer or in the
\* queue, and it is one of those that its state waits for.
Scripted(n) ==
  /\ state[n] \in StatesOf(n)
  /\ calls[n] \in CallsOf(state[n])
  /\ late[n] # NoEvent => calls[n] = <<>> /\ late[n] \in AnswerEvents(state[n])
  /\ \A i \in DOMAIN queue[n] :
       \/ queue[n][i] \in Commands
       \/ queue[n][i] \in AnswerEvents(state[n]) /\ calls[n] = <<>> /\ late[n] = NoEvent
  /\ \A i, j \in DOMAIN queue[n] :
       i # j => queue[n][i] \in Commands \/ queue[n][j] \in Commands

\* A skill is started once in a tick, and only when it is idle.
Started(n) ==
  /\ Waits(n, "CMD_START") =>
       state[n] = "idle" /\ ticking = n /\ phase \in {"ask2", "ack2"} /\ seen = "SKILL_IDLE"
  /\ \A i, j \in DOMAIN queue[n] :
       queue[n][i] = "CMD_START" /\ queue[n][j] = "CMD_START" => i = j
  /\ ticking = n /\ (phase = "start" \/ (phase = "ack1" /\ seen = "SKILL_IDLE")) =>
       state[n] = "idle"

\* The tick as far as its bookkeeping goes.
Ticking ==
  /\ (phase = "none") = (ticking = NoNode)
  /\ ticking # NoNode => last = ticking
  /\ ticking = NoNode => answers = {}
  /\ seen # "SKILL_IDLE" => phase \in {"ack1", "ack2"}
  /\ ticking \in Conditions => seen # "SKILL_RUNNING"

\* A condition has nothing to do but to take acknowledgements.
AtRest(n) ==
  /\ state[n] \in {"idle"} \cup Outcomes
  /\ \A i \in DOMAIN queue[n] : queue[n][i] = "CMD_OK"

\* The outcome of a condition is acknowledged in the tick that has asked for it,
\* so that the next tick finds it idle.
Asked(n) ==
  /\ ticking # n => AtRest(n) /\ (state[n] \in Outcomes => queue[n] # <<>>)
  /\ ticking = n /\ phase \in {"ask1", "ack1", "start"} => AtRest(n) /\ state[n] = "idle"
  /\ ticking = n /\ seen # "SKILL_IDLE" => AtRest(n)
  /\ ~Waits(n, "CMD_STOP")

\* What a condition reports in a tick is what it has been told in it.
Fresh(n) ==
  ticking = n =>
    /\ state[n] = "success" \/ Pending(n, "STATUS_SUCCESS") \/ seen = "SKILL_SUCCESS" => TRUE \in answers
    /\ state[n] = "failure" \/ Pending(n, "STATUS_FAILED") \/ seen = "SKILL_FAILURE" => FALSE \in answers

\* The hand is open only while Fetch is about to close it: to open it never fails.
OpenToGrasp ==
  /\ opened => \/ state[fetch] = "open" /\ calls[fetch] = <<>>
               \/ state[fetch] = "grasp" /\ calls[fetch] = OnEntry("grasp")
  /\ ~Pending(fetch, "OPEN_KO")

\* A Fetch that still has to open the hand has nothing in it.
HandFree ==
  grasped => /\ state[fetch] \notin {"pregrasp", "extract"}
             /\ state[fetch] = "open" => calls[fetch] = <<>>
             /\ ~Pending(fetch, "GRASP_KO")

\* What Fetch has been told of the hand stays true.
HandKnown ==
  /\ state[fetch] = "retract" \/ Pending(fetch, "GRASP_OK") => grasped
  /\ Pending(fetch, "RETRACT_OK") => ~extracted
  /\ GraspedOnSuccess

\* From the tick of IsFetched to the first question of that of Fetch, Fetch
\* does not become idle: no acknowledgement waits behind its outcome.
Unacknowledged ==
  (last \in Conditions \/ (last = fetch /\ phase = "ask1")) =>
    /\ state[fetch] \in Outcomes => ~Waits(fetch, "CMD_OK")
    /\ \A i, j \in DOMAIN queue[fetch] :
         i < j /\ queue[fetch][i] \notin Commands => queue[fetch][j] # "CMD_OK"

\* IsFetched has been told that the hand is empty, and Fetch may be started.
ToldEmpty ==
  \/ ticking = isFetched /\ FALSE \in answers
  \/ ticking = NoNode /\ last = isFetched /\ result = "SKILL_FAILURE"
  \/ last = isAtUser
  \/ ticking = fetch /\ phase \in {"ask1", "start"}
  \/ ticking = fetch /\ phase = "ack1" /\ seen = "SKILL_IDLE"
  \/ Waits(fetch, "CMD_START")

EmptyHand == state[fetch] = "idle" /\ ToldEmpty => ~grasped

IInv ==
  /\ TypeOK
  /\ Ticking
  /\ \A n \in Nodes : Scripted(n) /\ Started(n)
  /\ \A n \in Conditions : Asked(n) /\ Fresh(n)
  /\ OpenToGrasp /\ HandFree /\ HandKnown
  /\ Unacknowledged /\ EmptyHand
-----------------------------------------------------------------------------
(* The data.                                                               *)

LEMMA StatesAndEvents ==
  /\ ChartStates = {"idle", "get", "pregrasp", "extract", "open", "grasp", "retract",
                    "success", "failure"}
  /\ ChartEvents = Commands \cup UNION {AnswerEvents(s) : s \in ChartStates}
  /\ \A s \in ChartStates : AnswerEvents(s) \cap Commands = {}
BY DEF ChartStates, ChartEvents, ConditionTransitions, FetchTransitions, Commands, AnswerEvents

LEMMA NodesAre ==
  /\ Nodes = {isFetched, isAtUser, fetch}
  /\ isFetched # isAtUser /\ isFetched # fetch /\ isAtUser # fetch
  /\ NoNode \notin Nodes
  /\ Conditions = {isFetched, isAtUser} /\ Fetchers = {fetch}
BY FetchSystemAssumption, SkillsAssumption, ProtocolAssumption DEF Nodes

\* Submitting an event, entry by entry.
LEMMA Submitted ==
  ASSUME ChartTypeOK, NEW n \in Nodes, NEW e \in ChartEvents, Submit(n, e)
  PROVE  /\ queue' \in [Nodes -> Seq(ChartEvents)]
         /\ \A m \in Nodes : m # n => queue'[m] = queue[m]
         /\ Len(queue[n]) \in Nat
         /\ DOMAIN queue[n] = 1..Len(queue[n])
         /\ DOMAIN queue'[n] = 1..(Len(queue[n]) + 1)
         /\ \A i \in DOMAIN queue[n] : queue'[n][i] = queue[n][i]
         /\ queue'[n][Len(queue[n]) + 1] = e
BY DEF ChartTypeOK, Submit

\* A chart takes the first event, and its state is as the table says.
LEMMA Reaction ==
  ASSUME ChartTypeOK, NEW n \in Nodes, React(n)
  PROVE  /\ queue' \in [Nodes -> Seq(ChartEvents)]
         /\ \A m \in Nodes : m # n => queue'[m] = queue[m]
         /\ Len(queue[n]) \in Nat \ {0}
         /\ DOMAIN queue[n] = 1..Len(queue[n])
         /\ DOMAIN queue'[n] = 1..(Len(queue[n]) - 1)
         /\ \A i \in DOMAIN queue'[n] : queue'[n][i] = queue[n][i + 1]
<1>1. /\ queue[n] \in Seq(ChartEvents) /\ queue[n] # <<>>
      /\ queue' = [queue EXCEPT ![n] = Tail(queue[n])]
  BY DEF ChartTypeOK, React
<1> QED BY <1>1, HeadTailProperties DEF ChartTypeOK

\* What the tables say of a transition, apart from the order of the steps of Fetch.
Moves(s, e, t) ==
  \/ s = "idle" /\ e = "CMD_START" /\ t \in {"get", "pregrasp"}
  \/ s \in Outcomes /\ e = "CMD_OK" /\ t = "idle"
  \/ e \in AnswerEvents(s) /\ t \notin {"idle", "get", "pregrasp"}

LEMMA Transition ==
  ASSUME ChartTypeOK, NEW n \in Nodes, React(n), Scripted(n)
  PROVE  /\ calls[n] = <<>> /\ late' = late
         /\ \A m \in Nodes : m # n => state'[m] = state[m] /\ calls'[m] = calls[m]
         /\ state'[n] \in StatesOf(n)
         /\ state' \in [Nodes -> ChartStates]
         /\ \/ /\ state'[n] = state[n] /\ calls'[n] = <<>>
               /\ queue[n][1] \in Commands
               /\ ~(state[n] = "idle" /\ queue[n][1] = "CMD_START")
               /\ ~(state[n] \in Outcomes /\ queue[n][1] = "CMD_OK")
            \/ /\ Moves(state[n], queue[n][1], state'[n])
               /\ <<state[n], queue[n][1], state'[n]>> \in Transitions(n)
               /\ calls'[n] = OnEntry(state'[n])
<1> DEFINE e == queue[n][1]
           enabled == {t \in Transitions(n) : t[1] = state[n] /\ t[2] = e}
<1>1. /\ state \in [Nodes -> ChartStates] /\ state[n] \in StatesOf(n)
      /\ queue[n] \in Seq(ChartEvents) /\ queue[n] # <<>>
      /\ calls[n] = <<>> /\ late' = late
      /\ Head(queue[n]) = e
  BY DEF ChartTypeOK, React, Scripted
<1>2. e \in Commands \/ e \in AnswerEvents(state[n])
  BY <1>1 DEF Scripted
<1>3. DOMAIN calls = Nodes
  BY DEF ChartTypeOK
<1>4. CASE enabled = {}
  <2>1. state' = state /\ calls' = calls
    BY <1>1, <1>4 DEF React
  <2>2. \A t \in Transitions(n) : ~(t[1] = state[n] /\ t[2] = e)
    BY <1>4
  <2>3. e \in Commands /\ ~(state[n] = "idle" /\ e = "CMD_START")
        /\ ~(state[n] \in Outcomes /\ e = "CMD_OK")
    BY <1>1, <1>2, <2>2
    DEF Transitions, ConditionTransitions, FetchTransitions, StatesOf, AnswerEvents, Outcomes, Commands
  <2> QED BY <1>1, <2>1, <2>3
<1>5. ASSUME NEW t \in enabled, state' = [state EXCEPT ![n] = t[3]],
             calls' = [calls EXCEPT ![n] = OnEntry(t[3])]
      PROVE  /\ \A m \in Nodes : m # n => state'[m] = state[m] /\ calls'[m] = calls[m]
             /\ state'[n] \in StatesOf(n)
             /\ state' \in [Nodes -> ChartStates]
             /\ Moves(state[n], e, state'[n])
             /\ <<state[n], e, state'[n]>> \in Transitions(n)
             /\ calls'[n] = OnEntry(state'[n])
  <2>1. t = <<state[n], e, t[3]>> /\ t \in Transitions(n)
    BY DEF Transitions, ConditionTransitions, FetchTransitions
  <2>2. /\ t[3] \in StatesOf(n) /\ Moves(state[n], e, t[3])
    BY <1>1, <2>1
    DEF Transitions, ConditionTransitions, FetchTransitions, Moves, StatesOf, AnswerEvents, Outcomes
  <2>3. t[3] \in ChartStates
    BY <2>2, StatesAndEvents DEF StatesOf
  <2> QED BY <1>1, <1>3, <1>5, <2>1, <2>2, <2>3
<1>6. \/ enabled = {}
      \/ \E t \in enabled : /\ state' = [state EXCEPT ![n] = t[3]]
                            /\ calls' = [calls EXCEPT ![n] = OnEntry(t[3])]
  BY <1>1 DEF React
<1> QED BY <1>1, <1>4, <1>5, <1>6

-----------------------------------------------------------------------------
(* A chart goes on.                                                        *)

LEMMA ReactKeepsScript ==
  ASSUME ChartTypeOK, NEW n \in Nodes, React(n), \A m \in Nodes : Scripted(m)
  PROVE  \A m \in Nodes : Scripted(m)'
<1>1. /\ \A m \in Nodes : /\ m # n => queue'[m] = queue[m]
                          /\ m # n => state'[m] = state[m] /\ calls'[m] = calls[m]
      /\ late' = late /\ calls[n] = <<>>
      /\ Len(queue[n]) \in Nat \ {0}
      /\ DOMAIN queue[n] = 1..Len(queue[n])
      /\ DOMAIN queue'[n] = 1..(Len(queue[n]) - 1)
      /\ \A i \in DOMAIN queue'[n] : queue'[n][i] = queue[n][i + 1]
      /\ state'[n] \in StatesOf(n)
  BY Reaction, Transition
<1>2. ASSUME NEW m \in Nodes, m # n PROVE Scripted(m)'
  BY <1>1, <1>2 DEF Scripted
<1>3. /\ 1 \in DOMAIN queue[n]
      /\ \A i \in DOMAIN queue'[n] : i + 1 \in DOMAIN queue[n] /\ i + 1 # 1
      /\ \A i, j \in DOMAIN queue'[n] : i # j => i + 1 # j + 1
  BY <1>1
<1>4. /\ calls[n] \in CallsOf(state[n])
      /\ late[n] # NoEvent => calls[n] = <<>> /\ late[n] \in AnswerEvents(state[n])
      /\ \A i \in DOMAIN queue[n] :
           \/ queue[n][i] \in Commands
           \/ queue[n][i] \in AnswerEvents(state[n]) /\ calls[n] = <<>> /\ late[n] = NoEvent
      /\ \A i, j \in DOMAIN queue[n] :
           i # j => queue[n][i] \in Commands \/ queue[n][j] \in Commands
  BY DEF Scripted
<1>5. CASE state'[n] = state[n] /\ calls'[n] = <<>>
  <2>1. \A i, j \in DOMAIN queue'[n] :
          i # j => queue'[n][i] \in Commands \/ queue'[n][j] \in Commands
    BY <1>1, <1>3, <1>4
  <2>2. \A i \in DOMAIN queue'[n] :
           \/ queue'[n][i] \in Commands
           \/ queue'[n][i] \in AnswerEvents(state'[n]) /\ calls'[n] = <<>> /\ late'[n] = NoEvent
    BY <1>1, <1>3, <1>4, <1>5
  <2> QED BY <1>1, <1>4, <1>5, <2>1, <2>2 DEF Scripted
<1>6. CASE Moves(state[n], queue[n][1], state'[n]) /\ calls'[n] = OnEntry(state'[n])
  <2>1. AnswerEvents(state[n]) = {} \/ queue[n][1] \notin Commands
    BY <1>6, <1>4 DEF Moves, AnswerEvents, Outcomes, Commands
  <2>2. \A i \in DOMAIN queue[n] : i # 1 => queue[n][i] \in Commands
    BY <1>3, <1>4, <2>1
  <2>3. \A i \in DOMAIN queue'[n] : queue'[n][i] \in Commands
    BY <1>1, <1>3, <2>2
  <2>4. late'[n] = NoEvent
    BY <1>1, <1>3, <1>4, <2>1
  <2> QED BY <1>1, <1>6, <2>3, <2>4 DEF Scripted, CallsOf
<1> QED BY <1>2, <1>5, <1>6, Transition

\* What is known of a chart that takes an event.
Takes(n) ==
  /\ \A m \in Nodes : /\ m # n => queue'[m] = queue[m]
                      /\ m # n => state'[m] = state[m] /\ calls'[m] = calls[m]
  /\ late' = late /\ calls[n] = <<>>
  /\ 1 \in DOMAIN queue[n]
  /\ \A i \in DOMAIN queue'[n] :
       i \in Nat /\ i + 1 \in DOMAIN queue[n] /\ i + 1 # 1 /\ queue'[n][i] = queue[n][i + 1]
  /\ state'[n] \in StatesOf(n)
  /\ \/ /\ state'[n] = state[n] /\ calls'[n] = <<>>
        /\ queue[n][1] \in Commands
        /\ ~(state[n] = "idle" /\ queue[n][1] = "CMD_START")
        /\ ~(state[n] \in Outcomes /\ queue[n][1] = "CMD_OK")
     \/ /\ Moves(state[n], queue[n][1], state'[n])
        /\ <<state[n], queue[n][1], state'[n]>> \in Transitions(n)
        /\ calls'[n] = OnEntry(state'[n])

LEMMA ReactTakes ==
  ASSUME ChartTypeOK, NEW n \in Nodes, React(n), Scripted(n)
  PROVE  Takes(n)
<1>1. /\ \A i \in DOMAIN queue'[n] : queue'[n][i] = queue[n][i + 1]
      /\ Len(queue[n]) \in Nat \ {0}
      /\ DOMAIN queue[n] = 1..Len(queue[n])
      /\ DOMAIN queue'[n] = 1..(Len(queue[n]) - 1)
      /\ \A m \in Nodes : m # n => queue'[m] = queue[m]
  BY Reaction
<1>2. /\ 1 \in DOMAIN queue[n]
      /\ \A i \in DOMAIN queue'[n] : i \in Nat /\ i + 1 \in DOMAIN queue[n] /\ i + 1 # 1
  BY <1>1
<1> QED BY <1>1, <1>2, Transition DEF Takes

\* Nothing is added to a queue.
LEMMA TakesWaits ==
  ASSUME NEW n \in Nodes, Takes(n), NEW m \in Nodes, NEW e, Waits(m, e)'
  PROVE  Waits(m, e)
BY DEF Takes, Waits

LEMMA ProgressKeepsStart ==
  ASSUME NEW n \in Nodes, Takes(n), Scripted(n), UNCHANGED <<ticking, phase, seen>>,
         \A m \in Nodes : Started(m)
  PROVE  \A m \in Nodes : Started(m)'
<1>1. ASSUME NEW m \in Nodes, m # n PROVE Started(m)'
  BY <1>1 DEF Takes, Started, Waits
<1>2. Started(n)'
  <2>1. Waits(n, "CMD_START")' => Waits(n, "CMD_START") /\ queue[n][1] # "CMD_START"
    BY DEF Takes, Waits, Started
  <2>2. state[n] = "idle" /\ queue[n][1] # "CMD_START" => state'[n] = "idle"
    BY DEF Takes, Moves, AnswerEvents, Outcomes
  <2>3. ticking = n /\ (phase = "start" \/ (phase = "ack1" /\ seen = "SKILL_IDLE")) =>
           queue[n][1] # "CMD_START"
    BY DEF Started, Waits, Takes
  <2>4. ASSUME NEW i \in DOMAIN queue'[n], NEW j \in DOMAIN queue'[n],
               queue'[n][i] = "CMD_START", queue'[n][j] = "CMD_START"
        PROVE  i = j
    BY <2>4 DEF Started, Takes
  <2> QED BY <2>1, <2>2, <2>3, <2>4 DEF Started
<1> QED BY <1>1, <1>2

LEMMA ProgressKeepsAnswers ==
  ASSUME NEW n \in Nodes, Takes(n), Scripted(n), Started(n),
         UNCHANGED <<ticking, phase, seen, answers>>,
         NEW m \in Conditions, Asked(m), Fresh(m), Scripted(m)
  PROVE  Asked(m)' /\ Fresh(m)'
<1>1. CASE m # n
  BY <1>1 DEF Takes, Asked, AtRest, Waits, Fresh, Pending, Nodes
<1>2. CASE m = n
  <2>1. ~Waits(m, "CMD_STOP")'
    BY <1>2, TakesWaits DEF Asked
  <2>2. AtRest(n) => AtRest(n)' /\ (state'[n] = state[n] \/ state'[n] = "idle")
    BY DEF AtRest, Takes, Moves, AnswerEvents, Outcomes
  <2>3. AtRest(n) /\ state[n] \in Outcomes => state'[n] = "idle"
    BY DEF AtRest, Takes, Moves, AnswerEvents, Outcomes
  <2>4. Asked(m)'
    BY <1>2, <2>1, <2>2, <2>3 DEF Asked, Outcomes
  <2>5. state[n] \in StatesOf(n) /\ StatesOf(n) = {"idle", "get", "success", "failure"}
    BY <1>2, NodesAre DEF StatesOf, Scripted
  <2>6. /\ state'[n] = "success" => state[n] = "success" \/ queue[n][1] = "STATUS_SUCCESS"
        /\ state'[n] = "failure" => state[n] = "failure" \/ queue[n][1] = "STATUS_FAILED"
    BY <1>2, <2>5, NodesAre DEF Takes, Transitions, ConditionTransitions
  <2>7. \A e : Pending(n, e)' => Pending(n, e)
    BY TakesWaits DEF Pending, Takes
  <2>8. Fresh(m)'
    BY <1>2, <2>6, <2>7 DEF Fresh, Pending, Waits, Takes
  <2> QED BY <2>4, <2>8
<1> QED BY <1>1, <1>2

\* The states of Fetch and what takes it from one to the next.
LEMMA FetchMoves ==
  ASSUME Takes(fetch), Scripted(fetch), state'[fetch] # state[fetch]
  PROVE  LET e == queue[fetch][1]
             Step(s, f, t) == state[fetch] = s /\ e = f /\ state'[fetch] = t
         IN  \/ Step("idle", "CMD_START", "pregrasp")
             \/ Step("pregrasp", "PREGRASP_OK", "extract")
             \/ Step("extract", "EXTRACT_OK", "open")
             \/ Step("open", "OPEN_OK", "grasp")
             \/ Step("grasp", "GRASP_OK", "retract")
             \/ Step("grasp", "GRASP_KO", "open")
             \/ Step("retract", "RETRACT_OK", "success")
             \/ state[fetch] \notin Outcomes \cup {"idle"} /\ state'[fetch] = "failure"
             \/ state[fetch] \in Outcomes /\ e = "CMD_OK" /\ state'[fetch] = "idle"
<1>1. <<state[fetch], queue[fetch][1], state'[fetch]>> \in FetchTransitions
  BY FetchSystemAssumption DEF Takes, Transitions
<1> QED BY <1>1 DEF FetchTransitions, Outcomes

LEMMA ProgressKeepsHand ==
  ASSUME NEW n \in Nodes, Takes(n), Ticking, \A m \in Nodes : Scripted(m) /\ Started(m),
         Unacknowledged, EmptyHand, OpenToGrasp, HandFree, HandKnown,
         UNCHANGED <<armVars, ticking, last, phase, seen, answers, result>>
  PROVE  /\ OpenToGrasp' /\ HandFree' /\ HandKnown'
         /\ Unacknowledged' /\ EmptyHand'
<1>1. \A m \in Nodes : \A e : Waits(m, e)' => Waits(m, e)
  BY TakesWaits
<1>2. ToldEmpty' => ToldEmpty
  BY <1>1, NodesAre DEF ToldEmpty
<1>3. CASE n # fetch
  BY <1>1, <1>2, <1>3, NodesAre
  DEF Takes, OpenToGrasp, HandFree, HandKnown, GraspedOnSuccess, Unacknowledged, EmptyHand, Pending,
      Waits, armVars
<1>4. CASE n = fetch
  <2>1. fetch \in Nodes
    BY NodesAre
  <2>2. /\ Takes(fetch) /\ Scripted(fetch) /\ Started(fetch)
        /\ calls[fetch] = <<>> /\ late' = late
        /\ \A e : Pending(fetch, e)' => Pending(fetch, e)
    BY <1>1, <1>4, <2>1 DEF Takes, Pending
  <2>3. Waits(fetch, queue[fetch][1])
    BY <2>2 DEF Waits, Takes
  <2>4. state'[fetch] = state[fetch] => calls'[fetch] = <<>>
    BY <2>2, FetchSystemAssumption DEF Takes, Transitions, FetchTransitions
  <2>5. state'[fetch] # state[fetch] => calls'[fetch] = OnEntry(state'[fetch])
    BY <2>2 DEF Takes
  <2>6. OpenToGrasp'
    <3>1. opened => state[fetch] = "open" /\ queue[fetch][1] # "OPEN_KO"
      BY <2>2, <2>3 DEF OpenToGrasp, OnEntry, Pending
    <3>2. state[fetch] = "open" /\ state'[fetch] # "open" /\ queue[fetch][1] # "OPEN_KO"
             => state'[fetch] = "grasp"
      BY <2>2, FetchSystemAssumption DEF Takes, Transitions, FetchTransitions
    <3> QED BY <2>2, <2>4, <2>5, <3>1, <3>2 DEF OpenToGrasp, armVars
  <2>7. HandFree'
    <3>1. Waits(fetch, "CMD_START") => ~grasped
      BY <2>2 DEF EmptyHand, ToldEmpty, Started
    <3> QED BY <2>2, <2>3, <2>4, <3>1, FetchMoves DEF HandFree, Pending, armVars
  <2>8. HandKnown'
    BY <2>2, <2>3, FetchMoves DEF HandKnown, GraspedOnSuccess, Pending, armVars
  <2>9. Unacknowledged'
    <3> SUFFICES ASSUME last \in Conditions \/ (last = fetch /\ phase = "ask1")
                 PROVE  /\ state'[fetch] \in Outcomes => ~Waits(fetch, "CMD_OK")'
                        /\ \A i, j \in DOMAIN queue'[fetch] :
                             i < j /\ queue'[fetch][i] \notin Commands => queue'[fetch][j] # "CMD_OK"
      BY DEF Unacknowledged
    <3>1. \A i, j \in DOMAIN queue'[fetch] : i < j => i + 1 < j + 1
      BY <2>2 DEF Takes
    <3>2. \A i \in DOMAIN queue'[fetch] : 1 < i + 1
      BY <2>2 DEF Takes
    <3>3. \A i, j \in DOMAIN queue'[fetch] :
             i < j /\ queue'[fetch][i] \notin Commands => queue'[fetch][j] # "CMD_OK"
      BY <2>2, <3>1 DEF Unacknowledged, Takes
    <3>4. CASE queue[fetch][1] \notin Commands
      BY <2>2, <3>2, <3>4 DEF Unacknowledged, Takes, Waits
    <3>5. CASE queue[fetch][1] \in Commands
      <4>1. state'[fetch] \in Outcomes => state'[fetch] = state[fetch]
        BY <2>2, <3>5 DEF Takes, Moves, AnswerEvents, Outcomes, Commands
      <4> QED BY <1>1, <2>1, <3>3, <4>1 DEF Unacknowledged
    <3> QED BY <3>3, <3>4, <3>5
  <2>10. EmptyHand'
    <3>1. state'[fetch] = "idle" /\ state[fetch] # "idle" =>
             state[fetch] \in Outcomes /\ Waits(fetch, "CMD_OK")
      BY <2>2, <2>3, FetchMoves
    <3>2. state[fetch] \in Outcomes /\ Waits(fetch, "CMD_OK") => ~ToldEmpty
      BY <2>2, NodesAre DEF ToldEmpty, Unacknowledged, Started, Ticking, Outcomes
    <3> QED BY <1>2, <3>1, <3>2 DEF EmptyHand, armVars
  <2> QED BY <2>6, <2>7, <2>8, <2>9, <2>10
<1> QED BY <1>3, <1>4

-----------------------------------------------------------------------------
(* An event is submitted.                                                  *)

\* What is known of a queue that gets e.
Adds(n, e) ==
  /\ \A m \in Nodes : m # n => queue'[m] = queue[m]
  /\ \A i \in DOMAIN queue[n] : i \in Nat /\ i \in DOMAIN queue'[n] /\ queue'[n][i] = queue[n][i]
  /\ Len(queue[n]) + 1 \in DOMAIN queue'[n] /\ queue'[n][Len(queue[n]) + 1] = e
  /\ \A i \in DOMAIN queue'[n] :
       i = Len(queue[n]) + 1 \/ (i \in DOMAIN queue[n] /\ i < Len(queue[n]) + 1)

LEMMA SubmitAdds ==
  ASSUME ChartTypeOK, NEW n \in Nodes, NEW e \in ChartEvents, Submit(n, e)
  PROVE  Adds(n, e)
<1>1. /\ \A m \in Nodes : m # n => queue'[m] = queue[m]
      /\ Len(queue[n]) \in Nat
      /\ DOMAIN queue[n] = 1..Len(queue[n])
      /\ DOMAIN queue'[n] = 1..(Len(queue[n]) + 1)
      /\ \A i \in DOMAIN queue[n] : queue'[n][i] = queue[n][i]
      /\ queue'[n][Len(queue[n]) + 1] = e
  BY Submitted
<1> QED BY <1>1 DEF Adds

LEMMA AddsWaits ==
  ASSUME NEW n \in Nodes, NEW e, Adds(n, e)
  PROVE  \A m \in Nodes : \A x : Waits(m, x)' <=> Waits(m, x) \/ (m = n /\ x = e)
<1> SUFFICES ASSUME NEW m \in Nodes, NEW x
             PROVE  Waits(m, x)' <=> Waits(m, x) \/ (m = n /\ x = e)
  OBVIOUS
<1>1. CASE m = n
  BY <1>1 DEF Waits, Adds
<1>2. CASE m # n
  BY <1>2 DEF Waits, Adds
<1> QED BY <1>1, <1>2

\* The tree submits a command: CMD_START only to a skill that is idle, and
\* CMD_OK not to a Fetch whose outcome must not be taken away yet.
LEMMA CommandKeepsCharts ==
  ASSUME NEW n \in Nodes, NEW e \in Commands, Adds(n, e),
         UNCHANGED <<state, late, calls, armVars>>,
         \A m \in Nodes : Scripted(m), OpenToGrasp, HandFree, HandKnown
  PROVE  /\ \A m \in Nodes : Scripted(m)'
         /\ OpenToGrasp' /\ HandFree' /\ HandKnown'
<1>1. ASSUME NEW m \in Nodes PROVE Scripted(m)'
  <2>1. CASE m = n
    BY <2>1 DEF Scripted, Adds
  <2>2. CASE m # n
    BY <2>2 DEF Scripted, Adds
  <2> QED BY <2>1, <2>2
<1>2. \A x : x \notin Commands => (Pending(fetch, x)' <=> Pending(fetch, x))
  BY AddsWaits, NodesAre DEF Pending
<1>3. OpenToGrasp' /\ HandFree' /\ HandKnown'
  BY <1>2 DEF OpenToGrasp, HandFree, HandKnown, GraspedOnSuccess, Commands, armVars
<1> QED BY <1>1, <1>3

\* The timer of an answer fires.
LEMMA TimeoutKeeps ==
  ASSUME ChartTypeOK, NEW n \in Nodes, Timeout(n), UNCHANGED armVars,
         \A m \in Nodes : Scripted(m) /\ Started(m),
         \A m \in Conditions : Asked(m) /\ Fresh(m),
         OpenToGrasp, HandFree, HandKnown, Unacknowledged, EmptyHand
  PROVE  /\ ChartTypeOK'
         /\ \A m \in Nodes : Scripted(m)' /\ Started(m)'
         /\ \A m \in Conditions : Asked(m)' /\ Fresh(m)'
         /\ OpenToGrasp' /\ HandFree' /\ HandKnown' /\ Unacknowledged' /\ EmptyHand'
<1> DEFINE e == late[n]
<1>1. /\ calls[n] = <<>> /\ e # NoEvent /\ e \in ChartEvents /\ e \in AnswerEvents(state[n])
      /\ late' = [late EXCEPT ![n] = NoEvent] /\ Submit(n, e)
      /\ UNCHANGED <<state, calls, protocolVars, armVars>>
      /\ state[n] \in ChartStates
  BY DEF Timeout, Fire, Scripted, ChartTypeOK
<1>2. /\ Adds(n, e) /\ e \notin Commands /\ queue' \in [Nodes -> Seq(ChartEvents)]
      /\ late'[n] = NoEvent /\ \A m \in Nodes : m # n => late'[m] = late[m]
      /\ state[n] \notin Outcomes \cup {"idle"}
  BY <1>1, SubmitAdds, Submitted, StatesAndEvents DEF ChartTypeOK, AnswerEvents, Outcomes
<1> HIDE DEF e
<1>3. ChartTypeOK'
  BY <1>1, <1>2 DEF ChartTypeOK
<1>4. \A m \in Nodes, x \in ChartEvents : Pending(m, x)' <=> Pending(m, x)
  BY <1>1, <1>2, AddsWaits, NoEventAssumption DEF Pending, e
<1>5. \A m \in Nodes, x \in Commands : Waits(m, x)' <=> Waits(m, x)
  BY <1>2, AddsWaits
<1>6. ASSUME NEW m \in Nodes PROVE Scripted(m)' /\ Started(m)'
  <2>1. CASE m # n
    BY <1>1, <1>2, <2>1 DEF Scripted, Started, Waits, Adds, protocolVars
  <2>2. CASE m = n
    <3>1. \A i \in DOMAIN queue[n] : queue[n][i] \in Commands
      BY <1>1 DEF Scripted, e
    <3>2. Scripted(n)'
      BY <1>1, <1>2, <3>1 DEF Scripted, Adds
    <3>3. Started(n)'
      <4>1. Waits(n, "CMD_START")' <=> Waits(n, "CMD_START")
        BY <1>5 DEF Commands
      <4>2. \A i \in DOMAIN queue'[n] : queue'[n][i] = "CMD_START" =>
              i \in DOMAIN queue[n] /\ queue[n][i] = "CMD_START"
        BY <1>2 DEF Adds, Commands
      <4> QED BY <1>1, <4>1, <4>2 DEF Started, protocolVars
    <3> QED BY <2>2, <3>2, <3>3
  <2> QED BY <2>1, <2>2
<1>7. ASSUME NEW m \in Conditions PROVE Asked(m)' /\ Fresh(m)'
  <2>1. m \in Nodes /\ (m = n => ~AtRest(m))
    BY <1>2 DEF AtRest, Nodes
  <2>2. Asked(m)'
    BY <1>1, <1>2, <1>5, <2>1 DEF Asked, AtRest, Adds, Commands, protocolVars
  <2>3. {"STATUS_SUCCESS", "STATUS_FAILED"} \subseteq ChartEvents
    BY StatesAndEvents DEF AnswerEvents
  <2>4. Fresh(m)'
    BY <1>1, <1>4, <2>1, <2>3 DEF Fresh, protocolVars
  <2> QED BY <2>2, <2>4
<1>8. OpenToGrasp' /\ HandFree' /\ HandKnown'
  <2>1. {"OPEN_KO", "GRASP_KO", "GRASP_OK", "RETRACT_OK"} \subseteq ChartEvents
    BY StatesAndEvents DEF AnswerEvents
  <2> QED BY <1>1, <1>4, <2>1, NodesAre
          DEF OpenToGrasp, HandFree, HandKnown, GraspedOnSuccess, armVars
<1>9. Unacknowledged'
  <2>1. CASE n # fetch
    BY <1>1, <1>2, <2>1, NodesAre DEF Unacknowledged, Adds, Waits, protocolVars
  <2>2. CASE n = fetch
    <3>1. \A i, j \in DOMAIN queue'[fetch] :
            i < j => i \in DOMAIN queue[fetch] /\ queue'[fetch][i] = queue[fetch][i]
      BY <1>2, <2>2 DEF Adds
    <3>2. \A j \in DOMAIN queue'[fetch] :
            queue'[fetch][j] = "CMD_OK" => j \in DOMAIN queue[fetch] /\ queue[fetch][j] = "CMD_OK"
      BY <1>2, <2>2 DEF Adds, Commands
    <3>3. last' = last /\ phase' = phase /\ state'[fetch] \notin Outcomes
      BY <1>1, <1>2, <2>2 DEF protocolVars
    <3>4. ASSUME last \in Conditions \/ (last = fetch /\ phase = "ask1"),
                 NEW i \in DOMAIN queue'[fetch], NEW j \in DOMAIN queue'[fetch],
                 i < j, queue'[fetch][i] \notin Commands
          PROVE  queue'[fetch][j] # "CMD_OK"
      BY <3>1, <3>2, <3>4 DEF Unacknowledged
    <3> QED BY <3>3, <3>4 DEF Unacknowledged
  <2> QED BY <2>1, <2>2
<1>10. EmptyHand'
  <2>1. Waits(fetch, "CMD_START")' <=> Waits(fetch, "CMD_START")
    BY <1>5, NodesAre DEF Commands
  <2>2. ToldEmpty' <=> ToldEmpty
    BY <1>1, <2>1 DEF ToldEmpty, protocolVars
  <2> QED BY <1>1, <2>2 DEF EmptyHand, armVars
<1> QED BY <1>3, <1>6, <1>7, <1>8, <1>9, <1>10

-----------------------------------------------------------------------------
(* A call is answered.                                                     *)

\* What is known of a chart whose call has been answered: the call was not the
\* last one of the script, or the answer becomes the event that is under way.
Hears(n, answer) ==
  /\ state' = state
  /\ \A m \in Nodes : m # n => calls'[m] = calls[m] /\ late'[m] = late[m] /\ queue'[m] = queue[m]
  /\ late[n] = NoEvent /\ \A i \in DOMAIN queue[n] : queue[n][i] \in Commands
  /\ \/ /\ state[n] = "grasp" /\ calls[n] = <<"closeHand", "hasGrasped">>
        /\ calls'[n] = <<"hasGrasped">>
        /\ queue' = queue /\ late' = late
     \/ /\ \/ state[n] \in {"get", "pregrasp", "extract", "open", "retract"} /\ calls[n] = OnEntry(state[n])
           \/ state[n] = "grasp" /\ calls[n] = <<"hasGrasped">>
        /\ calls'[n] = <<>>
        /\ \/ /\ n \in Direct /\ late'[n] = NoEvent
              /\ Adds(n, Outcome(state[n], answer))
           \/ /\ n \notin Direct /\ late'[n] = Outcome(state[n], answer)
              /\ queue' = queue

LEMMA AnswerHeard ==
  ASSUME ChartTypeOK, NEW n \in Nodes, Scripted(n), NEW answer \in BOOLEAN, Answered(n, answer)
  PROVE  /\ Hears(n, answer)
         /\ ChartTypeOK'
         /\ Outcome(state[n], answer) \in AnswerEvents(state[n])
<1>1. /\ state' = state /\ calls[n] # <<>>
      /\ calls' = [calls EXCEPT ![n] = Tail(calls[n])]
      /\ state[n] \in StatesOf(n) /\ calls[n] \in CallsOf(state[n])
      /\ late[n] = NoEvent /\ \A i \in DOMAIN queue[n] : queue[n][i] \in Commands
      /\ state[n] \in ChartStates
  BY DEF Answered, Scripted, ChartTypeOK
<1>2. \/ /\ state[n] = "grasp" /\ calls[n] = <<"closeHand", "hasGrasped">>
         /\ Len(calls[n]) = 2 /\ Tail(calls[n]) = <<"hasGrasped">>
      \/ /\ \/ state[n] \in {"get", "pregrasp", "extract", "open", "retract"} /\ calls[n] = OnEntry(state[n])
            \/ state[n] = "grasp" /\ calls[n] = <<"hasGrasped">>
         /\ Len(calls[n]) = 1 /\ Tail(calls[n]) = <<>>
  <2>1. \A c : /\ Len(<<c>>) = 1 /\ Tail(<<c>>) = <<>>
              /\ \A d : Len(<<c, d>>) = 2 /\ Tail(<<c, d>>) = <<d>>
    OBVIOUS
  <2>2. CASE state[n] \in {"idle", "success", "failure"}
    BY <1>1, <2>2 DEF CallsOf, OnEntry
  <2>3. CASE state[n] = "grasp"
    BY <1>1, <2>1, <2>3 DEF CallsOf, OnEntry
  <2>4. CASE state[n] \in {"get", "pregrasp", "extract", "open", "retract"}
    <3>1. calls[n] = OnEntry(state[n]) /\ \E c : OnEntry(state[n]) = <<c>>
      BY <1>1, <2>4 DEF CallsOf, OnEntry
    <3> QED BY <2>1, <2>4, <3>1
  <2> QED BY <1>1, <2>2, <2>3, <2>4 DEF StatesOf
<1>3. /\ Outcome(state[n], answer) \in AnswerEvents(state[n])
      /\ Outcome(state[n], answer) \in ChartEvents
  BY <1>1, <1>2, StatesAndEvents DEF Outcome, AnswerEvents
<1>4. CASE Len(calls[n]) = 2
  <2>1. queue' = queue /\ late' = late
    BY <1>4 DEF Answered
  <2>2. calls'[n] = <<"hasGrasped">> /\ \A m \in Nodes : m # n => calls'[m] = calls[m]
    BY <1>1, <1>2, <1>4 DEF ChartTypeOK
  <2>3. calls' \in [Nodes -> {<<>>, <<"hasGrasped">>} \cup {OnEntry(s) : s \in ChartStates}]
    BY <1>1, <2>2 DEF ChartTypeOK
  <2> QED BY <1>1, <1>2, <1>3, <1>4, <2>1, <2>2, <2>3 DEF Hears, ChartTypeOK
<1>5. CASE Len(calls[n]) = 1
  <2>1. calls'[n] = <<>> /\ \A m \in Nodes : m # n => calls'[m] = calls[m]
    BY <1>1, <1>2, <1>5 DEF ChartTypeOK
  <2>2. calls' \in [Nodes -> {<<>>, <<"hasGrasped">>} \cup {OnEntry(s) : s \in ChartStates}]
    BY <1>1, <2>1 DEF ChartTypeOK
  <2>3. CASE n \in Direct
    <3>1. Submit(n, Outcome(state[n], answer)) /\ late' = late
      BY <1>5, <2>3 DEF Answered
    <3>2. Adds(n, Outcome(state[n], answer)) /\ queue' \in [Nodes -> Seq(ChartEvents)]
      BY <1>3, <3>1, SubmitAdds, Submitted
    <3>3. \A m \in Nodes : m # n => queue'[m] = queue[m]
      BY <3>2 DEF Adds
    <3> QED BY <1>1, <1>2, <1>3, <1>5, <2>1, <2>2, <2>3, <3>1, <3>2, <3>3 DEF Hears, ChartTypeOK
  <2>4. CASE n \notin Direct
    <3>1. late' = [late EXCEPT ![n] = Outcome(state[n], answer)] /\ queue' = queue
      BY <1>5, <2>4 DEF Answered
    <3> QED BY <1>1, <1>2, <1>3, <1>5, <2>1, <2>2, <2>4, <3>1 DEF Hears, ChartTypeOK
  <2> QED BY <2>3, <2>4
<1> QED BY <1>2, <1>4, <1>5

LEMMA HearsKeepsScript ==
  ASSUME NEW n \in Nodes, NEW answer \in BOOLEAN, Hears(n, answer),
         Outcome(state[n], answer) \in AnswerEvents(state[n]),
         \A m \in Nodes : Scripted(m)
  PROVE  \A m \in Nodes : Scripted(m)'
<1>1. ASSUME NEW m \in Nodes, m # n PROVE Scripted(m)'
  BY <1>1 DEF Hears, Scripted
<1>2. Scripted(n)'
  <2>1. CASE calls'[n] = <<"hasGrasped">>
    BY <2>1 DEF Hears, Scripted, CallsOf
  <2>2. CASE calls'[n] = <<>> /\ n \in Direct
    BY <2>2 DEF Hears, Scripted, CallsOf, Adds
  <2>3. CASE calls'[n] = <<>> /\ n \notin Direct
    BY <2>3 DEF Hears, Scripted, CallsOf
  <2> QED BY <2>1, <2>2, <2>3 DEF Hears
<1> QED BY <1>1, <1>2

\* Nothing was under way, so that what is now is the answer.
LEMMA HearsPending ==
  ASSUME NEW n \in Nodes, NEW answer \in BOOLEAN, Hears(n, answer),
         Outcome(state[n], answer) \in AnswerEvents(state[n])
  PROVE  /\ \A m \in Nodes : \A x : m # n => (Pending(m, x)' <=> Pending(m, x))
         /\ \A x \in ChartEvents \ Commands :
              Pending(n, x)' => calls'[n] = <<>> /\ x = Outcome(state[n], answer)
         /\ \A m \in Nodes, x \in Commands : Waits(m, x)' <=> Waits(m, x)
<1> DEFINE e == Outcome(state[n], answer)
<1>1. e \notin Commands
  BY DEF AnswerEvents, Commands
<1>2. CASE queue' = queue
  <2>1. \A m \in Nodes : \A x : Waits(m, x)' <=> Waits(m, x)
    BY <1>2 DEF Waits
  <2>2. \A x \in ChartEvents \ Commands : ~Waits(n, x)
    BY DEF Hears, Waits
  <2>3. (late'[n] = e /\ calls'[n] = <<>>) \/ late'[n] = NoEvent
    BY <1>2 DEF Hears
  <2> HIDE DEF e
  <2> QED BY <2>1, <2>2, <2>3, NoEventAssumption DEF Pending, Hears, e
<1>3. CASE Adds(n, e) /\ late'[n] = NoEvent /\ calls'[n] = <<>>
  <2>1. \A m \in Nodes : \A x : Waits(m, x)' <=> Waits(m, x) \/ (m = n /\ x = e)
    BY <1>3, AddsWaits
  <2>2. \A x \in ChartEvents \ Commands : ~Waits(n, x)
    BY DEF Hears, Waits
  <2> HIDE DEF e
  <2> QED BY <1>1, <1>3, <2>1, <2>2, NoEventAssumption DEF Pending, Hears, e
<1> QED BY <1>2, <1>3 DEF Hears

\* The calls of Fetch are served by the arm.
LEMMA FetchCallKeepsHand ==
  ASSUME NEW answer \in BOOLEAN, Hears(fetch, answer),
         Outcome(state[fetch], answer) \in AnswerEvents(state[fetch]),
         ArmHandles(ArmCall(fetch), answer), ArmTypeOK, Scripted(fetch),
         OpenToGrasp, HandFree, HandKnown
  PROVE  ArmTypeOK' /\ OpenToGrasp' /\ HandFree' /\ HandKnown'
<1> DEFINE s == state[fetch]
           call == Head(calls[fetch])
<1>1. \/ s = "pregrasp" /\ calls[fetch] = <<"preGrasp">>
      \/ s = "extract" /\ calls[fetch] = <<"extractHand">>
      \/ s = "open" /\ calls[fetch] = <<"openHand">>
      \/ s = "retract" /\ calls[fetch] = <<"retractHand">>
      \/ s = "grasp" /\ calls[fetch] = <<"closeHand", "hasGrasped">> /\ calls'[fetch] = <<"hasGrasped">>
      \/ s = "grasp" /\ calls[fetch] = <<"hasGrasped">>
  BY NodesAre DEF Hears, OnEntry, Scripted, StatesOf
<1>2. state' = state /\ (calls'[fetch] = <<>> \/ (s = "grasp" /\ calls'[fetch] = <<"hasGrasped">>))
  BY DEF Hears
<1>3. ArmHandles(call, answer)
  BY <1>1 DEF ArmCall
<1>4. /\ Pending(fetch, "OPEN_KO")' => Outcome(s, answer) = "OPEN_KO"
      /\ Pending(fetch, "GRASP_KO")' => calls'[fetch] = <<>> /\ Outcome(s, answer) = "GRASP_KO"
      /\ Pending(fetch, "GRASP_OK")' => calls'[fetch] = <<>> /\ Outcome(s, answer) = "GRASP_OK"
      /\ Pending(fetch, "RETRACT_OK")' => Outcome(s, answer) = "RETRACT_OK"
  <2>1. {"OPEN_KO", "GRASP_KO", "GRASP_OK", "RETRACT_OK"} \subseteq ChartEvents \ Commands
    BY StatesAndEvents DEF AnswerEvents, Commands
  <2> QED BY <2>1, HearsPending, NodesAre
<1>5. /\ OnEntry("grasp") # <<>> /\ OnEntry("grasp") # <<"hasGrasped">>
      /\ OnEntry("open") # <<>>
      /\ Outcome(s, answer) = "OPEN_KO" => s = "open"
      /\ Outcome(s, answer) \in {"GRASP_OK", "GRASP_KO"} => s = "grasp"
      /\ Outcome(s, answer) = "RETRACT_OK" => s = "retract"
  BY DEF OnEntry, AnswerEvents
<1>6. CASE s = "pregrasp" /\ call = "preGrasp"
  <2>1. UNCHANGED armVars
    BY <1>3, <1>6 DEF ArmHandles, preGrasp, Outcome, armVars
  <2> HIDE DEF s, call
  <2> QED BY <1>2, <1>4, <1>5, <1>6, <2>1, FakeArmAssumption
          DEF ArmTypeOK, OpenToGrasp, HandFree, HandKnown, GraspedOnSuccess, armVars, s
<1>7. CASE s = "extract" /\ call = "extractHand"
  <2>1. extracted' = TRUE /\ UNCHANGED <<opened, grasped, failures, homing>>
    BY <1>3, <1>7 DEF ArmHandles, extractHand
  <2> HIDE DEF s, call
  <2> QED BY <1>2, <1>4, <1>5, <1>7, <2>1, FakeArmAssumption
          DEF ArmTypeOK, OpenToGrasp, HandFree, HandKnown, GraspedOnSuccess, s
<1>8. CASE s = "open" /\ call = "openHand"
  <2>1. /\ opened' = TRUE /\ grasped' = FALSE
        /\ UNCHANGED <<extracted, homing>>
    BY <1>3, <1>8 DEF ArmHandles, openHand
  <2>2. failures' \in 0..FakeArmFailures
    BY <1>3, <1>8, FakeArmAssumption DEF ArmHandles, openHand, ArmTypeOK
  <2>3. Outcome(s, answer) = "OPEN_OK"
    BY <1>3, <1>8 DEF ArmHandles, Outcome
  <2> HIDE DEF s, call
  <2>4. ArmTypeOK'
    BY <2>1, <2>2 DEF ArmTypeOK
  <2>5. OpenToGrasp'
    BY <1>2, <1>4, <1>8, <2>3 DEF OpenToGrasp, s
  <2>6. HandFree' /\ HandKnown'
    BY <1>2, <1>4, <1>5, <1>8, <2>1 DEF HandFree, HandKnown, GraspedOnSuccess, s
  <2> QED BY <2>4, <2>5, <2>6
<1>9. CASE s = "retract" /\ call = "retractHand"
  <2>1. extracted' = FALSE /\ UNCHANGED <<opened, grasped, failures, homing>>
    BY <1>3, <1>9 DEF ArmHandles, retractHand
  <2> HIDE DEF s, call
  <2> QED BY <1>2, <1>4, <1>5, <1>9, <2>1, FakeArmAssumption
          DEF ArmTypeOK, OpenToGrasp, HandFree, HandKnown, GraspedOnSuccess, s
<1>10. CASE s = "grasp" /\ call = "closeHand" /\ calls'[fetch] = <<"hasGrasped">>
  <2>1. /\ opened' = FALSE /\ UNCHANGED <<extracted, homing>>
        /\ grasped' = (grasped \/ (Closes /\ failures >= FakeArmFailures))
        /\ failures' = IF Closes /\ failures < FakeArmFailures THEN failures + 1 ELSE failures
    BY <1>3, <1>10 DEF ArmHandles, closeHand
  <2>2. failures' \in 0..FakeArmFailures
    BY <2>1, FakeArmAssumption DEF ArmTypeOK
  <2>3. grasped' \in BOOLEAN /\ (grasped => grasped')
    BY <2>1
  <2> HIDE DEF s, call
  <2>4. ArmTypeOK'
    BY <2>1, <2>2, <2>3 DEF ArmTypeOK
  <2>5. OpenToGrasp'
    BY <1>4, <1>5, <1>10, <2>1 DEF OpenToGrasp, s
  <2>6. HandFree' /\ HandKnown'
    BY <1>2, <1>4, <1>5, <1>10, <2>1, <2>3 DEF HandFree, HandKnown, GraspedOnSuccess, s
  <2> QED BY <2>4, <2>5, <2>6
<1>11. CASE s = "grasp" /\ call = "hasGrasped" /\ calls[fetch] = <<"hasGrasped">>
  <2>1. /\ UNCHANGED armVars
        /\ Outcome(s, answer) = IF grasped THEN "GRASP_OK" ELSE "GRASP_KO"
    BY <1>3, <1>11 DEF ArmHandles, hasGrasped, Outcome, armVars
  <2> HIDE DEF s, call
  <2> QED BY <1>2, <1>4, <1>5, <1>11, <2>1, FakeArmAssumption
          DEF ArmTypeOK, OpenToGrasp, HandFree, HandKnown, GraspedOnSuccess, armVars, s
<1> QED BY <1>1, <1>6, <1>7, <1>8, <1>9, <1>10, <1>11


LEMMA CalledKeeps ==
  ASSUME IInv, NEW n \in Nodes, Called(n)
  PROVE  /\ ChartTypeOK' /\ ArmTypeOK' /\ answers' \subseteq BOOLEAN
         /\ UNCHANGED <<ticking, last, phase, seen, result, running, reported, unread>>
         /\ ticking = NoNode => answers' = {}
         /\ \A m \in Nodes : Scripted(m)' /\ Started(m)'
         /\ \A m \in Conditions : Asked(m)' /\ Fresh(m)'
         /\ OpenToGrasp' /\ HandFree' /\ HandKnown' /\ Unacknowledged' /\ EmptyHand'
<1>1. /\ ChartTypeOK /\ ArmTypeOK /\ Ticking /\ answers \subseteq BOOLEAN
      /\ \A m \in Nodes : Scripted(m) /\ Started(m)
      /\ \A m \in Conditions : m \in Nodes /\ Asked(m) /\ Fresh(m)
      /\ OpenToGrasp /\ HandFree /\ HandKnown /\ Unacknowledged /\ EmptyHand
  BY DEF IInv, TypeOK, ProtocolTypeOK, Nodes
<1>2. PICK answer \in BOOLEAN :
        /\ IF n = isAtUser THEN UNCHANGED armVars ELSE ArmHandles(ArmCall(n), answer)
        /\ Receive(n, answer)
  BY DEF Called
<1>3. /\ Answered(n, answer) /\ calls[n] # <<>>
      /\ answers' = IF n = ticking THEN answers \cup {answer} ELSE answers
      /\ UNCHANGED <<ticking, last, phase, seen, result, running, reported, unread>>
  BY <1>2 DEF Receive, Answered
<1>4. /\ Hears(n, answer) /\ ChartTypeOK' /\ Scripted(n)
      /\ Outcome(state[n], answer) \in AnswerEvents(state[n])
  BY <1>1, <1>3, AnswerHeard
<1>5. /\ \A m \in Nodes : Scripted(m)'
      /\ \A m \in Nodes : \A x : m # n => (Pending(m, x)' <=> Pending(m, x))
      /\ \A x \in ChartEvents \ Commands :
              Pending(n, x)' => calls'[n] = <<>> /\ x = Outcome(state[n], answer)
      /\ \A m \in Nodes, x \in Commands : Waits(m, x)' <=> Waits(m, x)
      /\ state' = state
  BY <1>1, <1>4, HearsKeepsScript, HearsPending DEF Hears
<1>6. state[n] \notin {"idle", "success", "failure"}
  BY <1>4 DEF AnswerEvents
<1>7. ASSUME NEW m \in Nodes PROVE Started(m)'
  <2>1. CASE m # n
    BY <1>1, <1>3, <1>4, <1>5, <2>1 DEF Started, Hears, Waits, Commands
  <2>2. CASE m = n
    <3>1. ~Waits(n, "CMD_START")
      BY <1>1, <1>6 DEF Started
    <3>2. ~Waits(n, "CMD_START")'
      BY <1>5, <3>1 DEF Commands
    <3> QED BY <1>1, <1>3, <1>5, <1>6, <2>2, <3>2 DEF Started, Waits
  <2> QED BY <2>1, <2>2
<1>8. CASE n \in Conditions
  <2>1. n # fetch /\ ticking = n /\ ~AtRest(n) /\ last = n
    BY <1>1, <1>6, <1>8, NodesAre DEF Asked, AtRest, Outcomes, Ticking
  <2>2. seen = "SKILL_IDLE" /\ phase \notin {"ask1", "ack1", "start"}
    BY <1>1, <1>8, <2>1 DEF Asked
  <2>3. UNCHANGED armVars
    <3>1. CASE n = isAtUser
      BY <1>2, <3>1
    <3>2. CASE n = isFetched
      <4>1. state[n] = "get" /\ calls[n] = <<"get">>
        BY <1>3, <1>4, <1>6, <1>8, NodesAre DEF Scripted, StatesOf, CallsOf, OnEntry
      <4> QED BY <1>2, <3>2, <4>1, NodesAre DEF ArmCall, ArmHandles, hasGrasped, armVars
    <3> QED BY <1>8, <3>1, <3>2, NodesAre
  <2>4. n = isFetched /\ answer = FALSE => ~grasped
    <3>1. state[n] = "get" /\ calls[n] = <<"get">>
      BY <1>3, <1>4, <1>6, <1>8, NodesAre DEF Scripted, StatesOf, CallsOf, OnEntry
    <3> QED BY <1>2, <3>1, NodesAre DEF ArmCall, ArmHandles
  <2>5. ASSUME NEW m \in Conditions PROVE Asked(m)' /\ Fresh(m)'
    <3>1. CASE m # n
      <4>1. m \in Nodes /\ queue'[m] = queue[m] /\ ticking # m /\ ticking' # m
        BY <1>1, <1>3, <1>4, <2>1, <3>1 DEF Hears
      <4>2. Asked(m)'
        BY <1>1, <1>5, <4>1 DEF Asked, AtRest, Waits
      <4> QED BY <4>1, <4>2 DEF Fresh
    <3>2. CASE m = n
      <4>1. Asked(n)'
        BY <1>1, <1>3, <1>5, <1>8, <2>1, <2>2 DEF Asked, Commands
      <4>2. /\ Pending(n, "STATUS_SUCCESS")' => answer = TRUE
            /\ Pending(n, "STATUS_FAILED")' => answer = FALSE
        <5>1. {"STATUS_SUCCESS", "STATUS_FAILED"} \subseteq ChartEvents \ Commands
          BY StatesAndEvents DEF AnswerEvents, Commands
        <5> QED BY <1>4, <1>5, <5>1 DEF Outcome, AnswerEvents
      <4>3. Fresh(n)'
        BY <1>3, <1>5, <1>6, <2>1, <2>2, <4>2 DEF Fresh
      <4> QED BY <3>2, <4>1, <4>3
    <3> QED BY <3>1, <3>2
  <2>6. /\ fetch \in Nodes /\ queue'[fetch] = queue[fetch] /\ calls'[fetch] = calls[fetch]
        /\ late'[fetch] = late[fetch]
    BY <1>4, <2>1, NodesAre DEF Hears
  <2>7. OpenToGrasp' /\ HandFree' /\ HandKnown'
    BY <1>1, <1>5, <2>1, <2>3, <2>6
    DEF OpenToGrasp, HandFree, HandKnown, GraspedOnSuccess, armVars
  <2>8. Unacknowledged'
    BY <1>1, <1>3, <1>5, <2>6 DEF Unacknowledged, Waits
  <2>9. EmptyHand'
    <3>1. ToldEmpty' => ToldEmpty \/ (n = isFetched /\ answer = FALSE)
      <4>1. Waits(fetch, "CMD_START")' <=> Waits(fetch, "CMD_START")
        BY <1>5, <2>6 DEF Commands
      <4>2. CASE n = isFetched
        BY <1>2, <1>3, <2>1, <4>1, <4>2, NodesAre DEF ToldEmpty
      <4>3. CASE n = isAtUser
        BY <2>1, <4>3 DEF ToldEmpty
      <4> QED BY <1>8, <4>2, <4>3, NodesAre
    <3> QED BY <1>1, <1>5, <2>3, <2>4, <3>1 DEF EmptyHand, armVars
  <2>10. ticking # NoNode /\ answers' \subseteq BOOLEAN /\ ArmTypeOK'
    BY <1>1, <1>3, <2>1, <2>3, NodesAre DEF ArmTypeOK, armVars
  <2> QED BY <1>3, <1>4, <1>5, <1>7, <2>5, <2>7, <2>8, <2>9, <2>10
<1>9. CASE n = fetch
  <2>1. fetch \notin Direct /\ fetch # isAtUser
    BY NodesAre, SkillsAssumption
  <2>2. queue' = queue
    BY <1>4, <1>9, <2>1 DEF Hears
  <2>3. ArmTypeOK' /\ OpenToGrasp' /\ HandFree' /\ HandKnown'
    BY <1>1, <1>2, <1>4, <1>9, <2>1, FetchCallKeepsHand
  <2>4. ASSUME NEW m \in Conditions PROVE Asked(m)' /\ Fresh(m)'
    <3>1. m # n /\ m \in Nodes
      BY <1>9, NodesAre DEF Nodes
    <3>2. ticking = m => answers' = answers
      BY <1>3, <3>1
    <3>3. Asked(m)'
      BY <1>1, <1>3, <1>5, <2>2 DEF Asked, AtRest, Waits
    <3>4. \A x : Pending(m, x)' <=> Pending(m, x)
      BY <1>5, <3>1
    <3>5. Fresh(m)'
      BY <1>1, <1>3, <1>5, <3>2, <3>4 DEF Fresh
    <3> QED BY <3>3, <3>5
  <2>5. Unacknowledged' /\ EmptyHand'
    BY <1>1, <1>3, <1>5, <1>6, <1>9, <2>2 DEF Unacknowledged, EmptyHand, Waits
  <2>6. answers' \subseteq BOOLEAN /\ (ticking = NoNode => answers' = {})
    BY <1>1, <1>3, <1>9, NodesAre DEF Ticking
  <2> QED BY <1>3, <1>4, <1>5, <1>7, <2>3, <2>4, <2>5, <2>6
<1> QED BY <1>8, <1>9, NodesAre

-----------------------------------------------------------------------------
(* One lemma for each action.                                              *)

LEMMA ProgressStep ==
  ASSUME IInv, NEW n \in Nodes, Progress(n), UNCHANGED armVars
  PROVE  IInv'
<1>1. /\ ChartTypeOK /\ \A m \in Nodes : Scripted(m) /\ Started(m)
      /\ \A m \in Conditions : m \in Nodes /\ Asked(m) /\ Fresh(m)
      /\ Unacknowledged /\ EmptyHand /\ OpenToGrasp /\ HandFree /\ HandKnown /\ Ticking
  BY DEF IInv, TypeOK, Nodes
<1>2. /\ React(n)
      /\ UNCHANGED <<ticking, last, phase, seen, result, running, answers, armVars>>
  BY DEF Progress
<1>3. Takes(n)
  BY <1>1, <1>2, ReactTakes
<1>4. /\ \A m \in Nodes : Scripted(m)'
      /\ \A m \in Nodes : Started(m)'
      /\ \A m \in Conditions : Asked(m)' /\ Fresh(m)'
      /\ OpenToGrasp' /\ HandFree' /\ HandKnown' /\ Unacknowledged' /\ EmptyHand'
  BY <1>1, <1>2, <1>3, ReactKeepsScript, ProgressKeepsStart, ProgressKeepsAnswers, ProgressKeepsHand
<1>5. ChartTypeOK'
  <2>1. state' \in [Nodes -> ChartStates] /\ queue' \in [Nodes -> Seq(ChartEvents)] /\ late' = late
    BY <1>1, <1>2, Reaction, Transition
  <2>2. DOMAIN calls' = Nodes /\ calls' = [m \in DOMAIN calls' |-> calls'[m]]
    BY <1>1, <1>2 DEF React, ChartTypeOK
  <2>3. \A m \in Nodes : calls'[m] \in {<<>>, <<"hasGrasped">>} \cup {OnEntry(s) : s \in ChartStates}
    BY <1>4, <2>1 DEF Scripted, CallsOf
  <2> QED BY <1>1, <2>1, <2>2, <2>3 DEF ChartTypeOK
<1>6. Ticking'
  BY <1>1, <1>2 DEF Ticking
<1>7. ArmTypeOK' /\ ProtocolTypeOK'
  BY <1>2 DEF IInv, TypeOK, ArmTypeOK, ProtocolTypeOK, armVars, Progress
<1> QED BY <1>4, <1>5, <1>6, <1>7 DEF IInv, TypeOK

LEMMA TimeoutStep ==
  ASSUME IInv, NEW n \in Nodes, Timeout(n), UNCHANGED armVars
  PROVE  IInv'
<1>1. Ticking' /\ ArmTypeOK' /\ ProtocolTypeOK'
  BY DEF IInv, TypeOK, ArmTypeOK, ProtocolTypeOK, armVars, Timeout, protocolVars, Ticking
<1> QED BY <1>1, TimeoutKeeps DEF IInv, TypeOK

LEMMA CalledStep ==
  ASSUME IInv, NEW n \in Nodes, Called(n)
  PROVE  IInv'
<1>1. Ticking' /\ ProtocolTypeOK'
  BY CalledKeeps DEF IInv, TypeOK, ProtocolTypeOK, Ticking
<1> QED BY <1>1, CalledKeeps DEF IInv, TypeOK

\* Tick, as far as the node that is ticked goes.
LEMMA TickStep ==
  ASSUME IInv, NEW n \in Nodes, Tick(n), UNCHANGED armVars, Unacknowledged', EmptyHand'
  PROVE  IInv'
<1>1. /\ UNCHANGED <<chartVars, armVars, seen, running, reported, unread, answers>>
      /\ UNCHANGED <<state, queue, late, calls>>
      /\ ticking = NoNode /\ ticking' = n /\ last' = n /\ phase' = "ask1" /\ result' = "SKILL_IDLE"
      /\ KeepsUp(n) /\ n # NoNode
  BY NodesAre DEF Tick, chartVars
<1>2. ChartTypeOK' /\ ArmTypeOK' /\ ProtocolTypeOK'
  BY <1>1 DEF IInv, TypeOK, ChartTypeOK, ArmTypeOK, ProtocolTypeOK, armVars, SkillAck
<1>3. Ticking' /\ answers = {} /\ seen = "SKILL_IDLE"
  BY <1>1 DEF IInv, Ticking
<1>4. ASSUME NEW m \in Nodes PROVE Scripted(m)' /\ Started(m)'
  <2>1. ~Waits(m, "CMD_START")
    BY <1>1, NodesAre DEF IInv, Started
  <2> QED BY <1>1, <2>1 DEF IInv, Scripted, Started, Waits
<1>5. ASSUME NEW m \in Conditions PROVE Asked(m)' /\ Fresh(m)'
  <2>1. m \in Nodes /\ Asked(m) /\ AtRest(m) /\ Scripted(m) /\ (state[m] \in Outcomes => queue[m] # <<>>)
    BY <1>1, NodesAre DEF IInv, Asked, Nodes
  <2>2. calls[m] = <<>> /\ late[m] = NoEvent
    BY <2>1 DEF AtRest, Scripted, CallsOf, OnEntry, AnswerEvents, Outcomes
  <2>3. m = n => state[m] = "idle"
    BY <1>1, <2>1, <2>2 DEF KeepsUp, AtRest
  <2>4. Asked(m)'
    BY <1>1, <1>3, <2>1, <2>3 DEF Asked, AtRest, Waits
  <2>5. ~Pending(m, "STATUS_SUCCESS") /\ ~Pending(m, "STATUS_FAILED")
    <3>1. {"STATUS_SUCCESS", "STATUS_FAILED"} \subseteq ChartEvents
      BY StatesAndEvents DEF AnswerEvents
    <3> QED BY <2>1, <2>2, <3>1, NoEventAssumption DEF Pending, Waits, AtRest
  <2>6. Fresh(m)'
    BY <1>1, <1>3, <2>3, <2>5 DEF Fresh, Pending, Waits
  <2> QED BY <2>4, <2>6
<1>6. OpenToGrasp' /\ HandFree' /\ HandKnown'
  BY <1>1 DEF IInv, OpenToGrasp, HandFree, HandKnown, GraspedOnSuccess, Pending, Waits, armVars
<1> QED BY <1>2, <1>3, <1>4, <1>5, <1>6 DEF IInv, TypeOK

\* IsFetched is ticked when no chart has anything to take.
LEMMA TickIsFetchedStep ==
  ASSUME IInv, TickIsFetched, UNCHANGED armVars
  PROVE  IInv'
<1>1. /\ Tick(isFetched) /\ isFetched \in Nodes /\ fetch \in Nodes /\ KeepsUp(fetch)
      /\ UNCHANGED <<state, queue, late, calls, armVars, answers>>
      /\ ticking' = isFetched /\ last' = isFetched /\ ticking = NoNode
  BY NodesAre DEF TickIsFetched, Tick, chartVars
<1>2. Scripted(fetch) /\ Started(fetch) /\ answers = {}
  BY <1>1 DEF IInv, Ticking
<1>3. Unacknowledged'
  <2>1. CASE calls[fetch] = <<>>
    BY <1>1, <2>1 DEF Unacknowledged, Waits, KeepsUp
  <2>2. CASE calls[fetch] # <<>>
    BY <1>1, <1>2, <2>2 DEF Unacknowledged, Scripted, CallsOf, OnEntry, Outcomes
  <2> QED BY <2>1, <2>2
<1>4. EmptyHand'
  <2>1. ~Waits(fetch, "CMD_START")'
    BY <1>1, <1>2, NodesAre DEF Started, Waits
  <2>2. ~ToldEmpty'
    BY <1>1, <1>2, <2>1, NodesAre DEF ToldEmpty
  <2> QED BY <2>2 DEF EmptyHand
<1> QED BY <1>1, <1>3, <1>4, TickStep

LEMMA TickIsAtStep ==
  ASSUME IInv, TickIsAt, UNCHANGED armVars
  PROVE  IInv'
<1>1. /\ Tick(isAtUser) /\ isAtUser \in Nodes
      /\ UNCHANGED <<state, queue, late, calls, armVars, answers>>
      /\ ticking' = isAtUser /\ last' = isAtUser /\ ticking = NoNode
      /\ last = isFetched /\ result = "SKILL_FAILURE"
  BY NodesAre DEF TickIsAt, Tick, chartVars
<1>2. Unacknowledged'
  BY <1>1, NodesAre DEF IInv, Unacknowledged, Waits
<1>3. EmptyHand'
  BY <1>1 DEF IInv, EmptyHand, ToldEmpty, armVars
<1> QED BY <1>1, <1>2, <1>3, TickStep

LEMMA TickFetchStep ==
  ASSUME IInv, TickFetch, UNCHANGED armVars
  PROVE  IInv'
<1>1. /\ Tick(fetch) /\ fetch \in Nodes
      /\ UNCHANGED <<state, queue, late, calls, armVars, answers>>
      /\ ticking' = fetch /\ last' = fetch /\ ticking = NoNode
      /\ last = isAtUser
  BY NodesAre DEF TickFetch, Tick, chartVars
<1>2. Unacknowledged'
  BY <1>1, NodesAre DEF IInv, Unacknowledged, Waits
<1>3. EmptyHand'
  BY <1>1 DEF IInv, EmptyHand, ToldEmpty, armVars
<1> QED BY <1>1, <1>2, <1>3, TickStep

LEMMA AskStep ==
  ASSUME IInv, Ask, UNCHANGED armVars
  PROVE  IInv'
<1>1. /\ UNCHANGED <<state, queue, late, calls, armVars, ticking, last, result, running, answers>>
      /\ ticking \in Nodes /\ ticking # NoNode /\ unread' = unread
      /\ \/ phase = "ask1" /\ phase' = "ack1"
         \/ phase = "ask2" /\ phase' = "ack2"
      /\ seen' = BTStatus(state[ticking])
      /\ reported' = (reported \/ state[ticking] \in Outcomes)
  BY NodesAre DEF IInv, TypeOK, ProtocolTypeOK, Ask, chartVars
<1>2. ChartTypeOK' /\ ArmTypeOK' /\ ProtocolTypeOK'
  <2>1. seen' \in SkillAck /\ reported' \in BOOLEAN
    BY <1>1 DEF BTStatus, SkillAck, IInv, TypeOK, ProtocolTypeOK
  <2> QED BY <1>1, <2>1 DEF IInv, TypeOK, ChartTypeOK, ArmTypeOK, ProtocolTypeOK, armVars
<1>3. Ticking'
  <2>1. ticking \in Conditions => state[ticking] \in {"idle", "get", "success", "failure"}
    BY <1>1, NodesAre DEF IInv, Scripted, StatesOf
  <2> QED BY <1>1, <2>1 DEF IInv, Ticking, BTStatus
<1>4. /\ seen' = "SKILL_IDLE" <=> state[ticking] \in {"idle", "get"}
      /\ seen' = "SKILL_SUCCESS" <=> state[ticking] = "success"
      /\ seen' = "SKILL_FAILURE" <=> state[ticking] = "failure"
  BY <1>1 DEF BTStatus
<1>5. ASSUME NEW m \in Nodes PROVE Scripted(m)' /\ Started(m)'
  <2>1. Scripted(m) /\ Started(m) /\ Scripted(m)'
    BY <1>1 DEF IInv, Scripted
  <2>2. ticking = m /\ phase' = "ack1" /\ seen' = "SKILL_IDLE" => state[m] = "idle"
    <3>1. CASE m \in Conditions
      BY <1>1, <3>1 DEF IInv, Asked
    <3>2. CASE m = fetch
      BY <1>4, <2>1, <3>2, NodesAre DEF Scripted, StatesOf
    <3> QED BY <3>1, <3>2, NodesAre
  <2>3. Waits(m, "CMD_START") => phase' = "ack2" /\ seen' = "SKILL_IDLE"
    BY <1>1, <1>4, <2>1 DEF Started
  <2> QED BY <1>1, <2>1, <2>2, <2>3 DEF Started, Waits
<1>6. ASSUME NEW m \in Conditions PROVE Asked(m)' /\ Fresh(m)'
  <2>1. m \in Nodes /\ Asked(m) /\ Fresh(m) /\ Scripted(m) /\ Started(m)
    BY DEF IInv, Nodes
  <2>2. state[m] \in StatesOf(m) /\ StatesOf(m) = {"idle", "get", "success", "failure"}
    BY <2>1, NodesAre DEF Scripted, StatesOf
  <2>3. ticking = m /\ seen' # "SKILL_IDLE" => AtRest(m)
    <3> SUFFICES ASSUME ticking = m, state[m] \in Outcomes PROVE AtRest(m)
      BY <1>4, <2>2 DEF Outcomes
    <3>1. ~Waits(m, "CMD_START") /\ ~Waits(m, "CMD_STOP")
      BY <2>1 DEF Started, Asked, Outcomes
    <3>2. AnswerEvents(state[m]) = {}
      BY DEF AnswerEvents, Outcomes
    <3> QED BY <2>1, <3>1, <3>2 DEF AtRest, Scripted, Waits, Commands
  <2>4. Asked(m)'
    BY <1>1, <2>1, <2>3 DEF Asked, AtRest, Waits
  <2>5. Fresh(m)'
    BY <1>1, <1>4, <2>1 DEF Fresh, Pending, Waits
  <2> QED BY <2>4, <2>5
<1>7. OpenToGrasp' /\ HandFree' /\ HandKnown'
  BY <1>1 DEF IInv, OpenToGrasp, HandFree, HandKnown, GraspedOnSuccess, Pending, Waits, armVars
<1>8. Unacknowledged'
  BY <1>1 DEF IInv, Unacknowledged, Waits
<1>9. EmptyHand'
  <2>1. ToldEmpty' /\ state[fetch] = "idle" => ToldEmpty
    BY <1>1 DEF ToldEmpty, Waits
  <2> QED BY <1>1, <2>1 DEF IInv, EmptyHand, armVars
<1> QED BY <1>2, <1>3, <1>5, <1>6, <1>7, <1>8, <1>9 DEF IInv, TypeOK

\* What the commands of the tree have in common.
LEMMA CommandKeeps ==
  ASSUME IInv, NEW n \in Nodes, NEW e \in Commands, Submit(n, e),
         UNCHANGED <<state, late, calls, armVars>>
  PROVE  /\ Adds(n, e) /\ queue'[n] # <<>>
         /\ ChartTypeOK' /\ ArmTypeOK'
         /\ \A m \in Nodes : Scripted(m)'
         /\ OpenToGrasp' /\ HandFree' /\ HandKnown'
         /\ \A m \in Nodes : \A x : Waits(m, x)' <=> Waits(m, x) \/ (m = n /\ x = e)
         /\ \A m \in Nodes : \A x : x # e => (Pending(m, x)' <=> Pending(m, x))
<1>1. ChartTypeOK /\ ArmTypeOK /\ e \in ChartEvents
  BY StatesAndEvents DEF IInv, TypeOK
<1>2. Adds(n, e) /\ queue' \in [Nodes -> Seq(ChartEvents)]
  BY <1>1, SubmitAdds, Submitted
<1>3. queue'[n] # <<>> /\ ChartTypeOK' /\ ArmTypeOK'
  BY <1>1, <1>2 DEF ChartTypeOK, ArmTypeOK, armVars, Adds
<1>4. /\ \A m \in Nodes : Scripted(m)'
      /\ OpenToGrasp' /\ HandFree' /\ HandKnown'
  BY <1>2, CommandKeepsCharts DEF IInv
<1>5. \A m \in Nodes : \A x : Waits(m, x)' <=> Waits(m, x) \/ (m = n /\ x = e)
  BY <1>2, AddsWaits
<1>6. \A m \in Nodes : \A x : x # e => (Pending(m, x)' <=> Pending(m, x))
  BY <1>5 DEF Pending
<1> QED BY <1>2, <1>3, <1>4, <1>5, <1>6

LEMMA AcknowledgeStep ==
  ASSUME IInv, Acknowledge, UNCHANGED armVars
  PROVE  IInv'
<1> DEFINE n == ticking
<1>1. /\ phase \in {"ack1", "ack2"} /\ n \in Nodes /\ n # NoNode /\ last = n
      /\ Submit(n, "CMD_OK")
      /\ UNCHANGED <<state, late, calls, last, armVars>> /\ seen' = "SKILL_IDLE"
  BY DEF IInv, TypeOK, ProtocolTypeOK, Ticking, Acknowledge
<1>2. \/ phase = "ack1" /\ seen = "SKILL_IDLE" /\ Continue("start")
      \/ (phase = "ack1") # (seen = "SKILL_IDLE") /\ Continue("ask2")
      \/ phase = "ack2" /\ seen # "SKILL_IDLE" /\ Return(seen)
  BY DEF Acknowledge
<1>3. /\ ticking' = n /\ answers' = answers /\ result' = result /\ phase' \in {"start", "ask2"}
      \/ /\ phase = "ack2" /\ seen # "SKILL_IDLE"
         /\ ticking' = NoNode /\ phase' = "none" /\ answers' = {} /\ result' = seen
  BY <1>2 DEF Continue, Return
<1>4. phase' = "start" => phase = "ack1" /\ seen = "SKILL_IDLE"
  BY <1>2 DEF Continue, Return
<1>5. "CMD_OK" \in Commands
  BY DEF Commands
<1>6. /\ Adds(n, "CMD_OK") /\ queue'[n] # <<>>
      /\ ChartTypeOK' /\ ArmTypeOK'
      /\ \A m \in Nodes : Scripted(m)'
      /\ OpenToGrasp' /\ HandFree' /\ HandKnown'
      /\ \A m \in Nodes : \A x : Waits(m, x)' <=> Waits(m, x) \/ (m = n /\ x = "CMD_OK")
      /\ \A m \in Nodes : \A x : x # "CMD_OK" => (Pending(m, x)' <=> Pending(m, x))
  BY <1>1, <1>5, CommandKeeps
<1>7. ProtocolTypeOK'
  <2>1. CASE Return(seen)
    <3>1. seen = "SKILL_RUNNING" => n \in Fetchers
      BY <1>1 DEF IInv, Ticking, Nodes
    <3> QED BY <1>1, <2>1, <3>1 DEF Return, IInv, TypeOK, ProtocolTypeOK, SkillAck
  <2>2. ASSUME NEW next \in {"start", "ask2"}, Continue(next) PROVE ProtocolTypeOK'
    BY <1>1, <2>2 DEF Continue, IInv, TypeOK, ProtocolTypeOK, SkillAck
  <2> QED BY <1>2, <2>1, <2>2
<1>8. Ticking'
  BY <1>1, <1>3 DEF IInv, Ticking
<1>9. ASSUME NEW m \in Nodes PROVE Started(m)'
  <2>1. Started(m) /\ (Waits(m, "CMD_START")' <=> Waits(m, "CMD_START"))
    BY <1>6 DEF IInv
  <2>2. Waits(m, "CMD_START") => ticking' = m /\ phase' = "ask2"
    BY <1>2, <2>1 DEF Started, Continue
  <2>3. \A i \in DOMAIN queue'[m] : queue'[m][i] = "CMD_START" =>
          i \in DOMAIN queue[m] /\ queue[m][i] = "CMD_START"
    <3>1. CASE m = n
      BY <1>6, <3>1 DEF Adds
    <3>2. CASE m # n
      BY <1>6, <3>2 DEF Adds
    <3> QED BY <3>1, <3>2
  <2>4. ticking' = m /\ phase' = "start" => state[m] = "idle"
    BY <1>1, <1>3, <1>4, <2>1 DEF Started
  <2> QED BY <1>1, <1>3, <2>1, <2>2, <2>3, <2>4 DEF Started
<1>10. ASSUME NEW m \in Conditions PROVE Asked(m)' /\ Fresh(m)'
  <2>1. m \in Nodes /\ Asked(m) /\ Fresh(m)
    BY DEF IInv, Nodes
  <2>2. AtRest(m) => AtRest(m)'
    <3>1. CASE m = n
      BY <1>1, <1>6, <3>1 DEF Adds, AtRest
    <3>2. CASE m # n
      BY <1>1, <1>6, <2>1, <3>2 DEF Adds, AtRest
    <3> QED BY <3>1, <3>2
  <2>3. ~Waits(m, "CMD_STOP")'
    BY <1>6, <2>1 DEF Asked
  <2>4. m # n => queue'[m] = queue[m]
    BY <1>6, <2>1 DEF Adds
  <2>5. Asked(m)'
    BY <1>1, <1>3, <1>4, <1>6, <2>1, <2>2, <2>3, <2>4, NodesAre DEF Asked
  <2>6. /\ Pending(m, "STATUS_SUCCESS")' <=> Pending(m, "STATUS_SUCCESS")
        /\ Pending(m, "STATUS_FAILED")' <=> Pending(m, "STATUS_FAILED")
    BY <1>6, <2>1
  <2>7. Fresh(m)'
    BY <1>1, <1>3, <2>1, <2>6, NodesAre DEF Fresh
  <2> QED BY <2>5, <2>7
<1>11. Unacknowledged'
  <2> SUFFICES ASSUME last \in Conditions PROVE Unacknowledged'
    BY <1>1, <1>3 DEF Unacknowledged
  <2>1. n # fetch /\ queue'[fetch] = queue[fetch]
    BY <1>1, <1>6, NodesAre DEF Adds
  <2> QED BY <1>1, <2>1 DEF IInv, Unacknowledged, Waits
<1>12. EmptyHand'
  <2>1. Waits(fetch, "CMD_START")' <=> Waits(fetch, "CMD_START")
    BY <1>6, NodesAre
  <2>2. ticking' = NoNode /\ last' = isFetched /\ result' = "SKILL_FAILURE" =>
           ticking = isFetched /\ FALSE \in answers
    BY <1>1, <1>3, NodesAre DEF IInv, Fresh
  <2>3. ToldEmpty' => ToldEmpty
    BY <1>1, <1>3, <1>4, <2>1, <2>2, NodesAre DEF ToldEmpty
  <2> QED BY <1>1, <2>3 DEF IInv, EmptyHand, armVars
<1> QED BY <1>6, <1>7, <1>8, <1>9, <1>10, <1>11, <1>12 DEF IInv, TypeOK

LEMMA StartStep ==
  ASSUME IInv, Start, UNCHANGED armVars
  PROVE  IInv'
<1> DEFINE n == ticking
<1>1. /\ phase = "start" /\ phase' = "ask2" /\ n \in Nodes /\ last = n /\ seen = "SKILL_IDLE"
      /\ Submit(n, "CMD_START")
      /\ UNCHANGED <<state, late, calls, last, seen, armVars>>
      /\ UNCHANGED <<ticking, result, running, reported, unread, answers>>
      /\ state[n] = "idle"
  BY DEF IInv, TypeOK, ProtocolTypeOK, Ticking, Start, Continue, Started
<1>2. "CMD_START" \in Commands
  BY DEF Commands
<1>3. /\ Adds(n, "CMD_START") /\ queue'[n] # <<>>
      /\ ChartTypeOK' /\ ArmTypeOK'
      /\ \A m \in Nodes : Scripted(m)'
      /\ OpenToGrasp' /\ HandFree' /\ HandKnown'
      /\ \A m \in Nodes : \A x : Waits(m, x)' <=> Waits(m, x) \/ (m = n /\ x = "CMD_START")
      /\ \A m \in Nodes : \A x : x # "CMD_START" => (Pending(m, x)' <=> Pending(m, x))
  BY <1>1, <1>2, CommandKeeps
<1>4. ProtocolTypeOK' /\ Ticking'
  BY <1>1 DEF IInv, TypeOK, ProtocolTypeOK, Ticking
<1>5. ASSUME NEW m \in Nodes PROVE Started(m)'
  <2>1. Started(m) /\ ~Waits(m, "CMD_START")
    BY <1>1 DEF IInv, Started
  <2>2. CASE m = n
    <3>1. \A i \in DOMAIN queue'[n] : queue'[n][i] = "CMD_START" => i = Len(queue[n]) + 1
      BY <1>3, <2>1, <2>2 DEF Adds, Waits
    <3> QED BY <1>1, <2>2, <3>1 DEF Started
  <2>3. CASE m # n
    BY <1>1, <1>3, <2>1, <2>3 DEF Started, Adds, Waits
  <2> QED BY <2>2, <2>3
<1>6. ASSUME NEW m \in Conditions PROVE Asked(m)' /\ Fresh(m)'
  <2>1. m \in Nodes /\ Asked(m) /\ Fresh(m)
    BY DEF IInv, Nodes
  <2>2. m # n => queue'[m] = queue[m]
    BY <1>3, <2>1 DEF Adds
  <2>3. ~Waits(m, "CMD_STOP")'
    BY <1>3, <2>1 DEF Asked
  <2>4. Asked(m)'
    BY <1>1, <2>1, <2>2, <2>3 DEF Asked, AtRest
  <2>5. /\ Pending(m, "STATUS_SUCCESS")' <=> Pending(m, "STATUS_SUCCESS")
        /\ Pending(m, "STATUS_FAILED")' <=> Pending(m, "STATUS_FAILED")
    BY <1>3, <2>1
  <2>6. Fresh(m)'
    BY <1>1, <2>1, <2>5 DEF Fresh
  <2> QED BY <2>4, <2>6
<1>7. Unacknowledged'
  <2> SUFFICES ASSUME last \in Conditions PROVE Unacknowledged'
    BY <1>1 DEF Unacknowledged
  <2>1. n # fetch /\ queue'[fetch] = queue[fetch]
    BY <1>1, <1>3, NodesAre DEF Adds
  <2> QED BY <1>1, <2>1 DEF IInv, Unacknowledged, Waits
<1>8. EmptyHand'
  <2>1. Waits(fetch, "CMD_START")' => Waits(fetch, "CMD_START") \/ ticking = fetch
    BY <1>3, NodesAre
  <2>2. ToldEmpty' => ToldEmpty
    BY <1>1, <2>1 DEF ToldEmpty
  <2> QED BY <1>1, <2>2 DEF IInv, EmptyHand, armVars
<1> QED BY <1>3, <1>4, <1>5, <1>6, <1>7, <1>8 DEF IInv, TypeOK

LEMMA HaltStep ==
  ASSUME IInv, Halt(fetch), UNCHANGED armVars
  PROVE  IInv'
<1>1. /\ fetch \in Nodes /\ ticking = NoNode /\ running' \subseteq running
      /\ Submit(fetch, "CMD_STOP")
      /\ UNCHANGED <<state, late, calls, armVars>>
      /\ UNCHANGED <<ticking, last, phase, seen, result, reported, unread, answers>>
  BY NodesAre DEF Halt
<1>2. "CMD_STOP" \in Commands
  BY DEF Commands
<1>3. /\ Adds(fetch, "CMD_STOP")
      /\ ChartTypeOK' /\ ArmTypeOK'
      /\ \A m \in Nodes : Scripted(m)'
      /\ OpenToGrasp' /\ HandFree' /\ HandKnown'
      /\ \A m \in Nodes : \A x : Waits(m, x)' <=> Waits(m, x) \/ (m = fetch /\ x = "CMD_STOP")
      /\ \A m \in Nodes : \A x : x # "CMD_STOP" => (Pending(m, x)' <=> Pending(m, x))
  BY <1>1, <1>2, CommandKeeps
<1>4. ProtocolTypeOK' /\ Ticking'
  BY <1>1 DEF IInv, TypeOK, ProtocolTypeOK, Ticking
<1>5. ASSUME NEW m \in Nodes PROVE Started(m)'
  <2>1. Started(m) /\ ~Waits(m, "CMD_START") /\ m # NoNode
    BY <1>1, NodesAre DEF IInv, Started
  <2>2. ~Waits(m, "CMD_START")'
    BY <1>3, <2>1
  <2> QED BY <1>1, <2>1, <2>2 DEF Started, Waits
<1>6. ASSUME NEW m \in Conditions PROVE Asked(m)' /\ Fresh(m)'
  <2>1. m \in Nodes /\ m # fetch /\ Asked(m) /\ Fresh(m) /\ m # ticking
    BY <1>1, NodesAre DEF IInv, Nodes
  <2>2. queue'[m] = queue[m]
    BY <1>3, <2>1 DEF Adds
  <2> QED BY <1>1, <2>1, <2>2 DEF Asked, AtRest, Waits, Fresh
<1>7. Unacknowledged'
  <2> SUFFICES ASSUME last \in Conditions PROVE Unacknowledged'
    BY <1>1, NodesAre DEF Unacknowledged, IInv, Ticking
  <2>1. state[fetch] \in Outcomes => ~Waits(fetch, "CMD_OK")'
    BY <1>1, <1>3 DEF IInv, Unacknowledged
  <2>2. ASSUME NEW i \in DOMAIN queue'[fetch], NEW j \in DOMAIN queue'[fetch],
               i < j, queue'[fetch][i] \notin Commands
        PROVE  queue'[fetch][j] # "CMD_OK"
    BY <1>3, <2>2 DEF IInv, Unacknowledged, Adds
  <2> QED BY <1>1, <2>1, <2>2 DEF Unacknowledged
<1>8. EmptyHand'
  <2>1. Waits(fetch, "CMD_START")' <=> Waits(fetch, "CMD_START")
    BY <1>1, <1>3
  <2>2. ToldEmpty' => ToldEmpty
    BY <1>1, <2>1 DEF ToldEmpty
  <2> QED BY <1>1, <2>2 DEF IInv, EmptyHand, armVars
<1> QED BY <1>3, <1>4, <1>5, <1>6, <1>7, <1>8 DEF IInv, TypeOK

\* What is said of the skills and the tick depends on their variables only.
LEMMA SkillsStand ==
  ASSUME IInv, UNCHANGED <<state, queue, late, calls>>,
         UNCHANGED <<ticking, last, phase, seen, result, running, reported, unread, answers>>
  PROVE  /\ ChartTypeOK' /\ ProtocolTypeOK' /\ Ticking'
         /\ \A m \in Nodes : Scripted(m)' /\ Started(m)'
         /\ \A m \in Conditions : Asked(m)' /\ Fresh(m)'
         /\ Unacknowledged'
<1>1. ChartTypeOK' /\ ProtocolTypeOK' /\ Ticking'
  BY DEF IInv, TypeOK, ChartTypeOK, ProtocolTypeOK, Ticking
<1>2. ASSUME NEW m \in Nodes PROVE Scripted(m)' /\ Started(m)'
  <2>1. Scripted(m)'
    BY DEF IInv, Scripted
  <2>2. Started(m)'
    BY DEF IInv, Started, Waits
  <2> QED BY <2>1, <2>2
<1>3. ASSUME NEW m \in Conditions PROVE Asked(m)' /\ Fresh(m)'
  <2>1. Asked(m)'
    BY DEF IInv, Asked, AtRest, Waits
  <2>2. Fresh(m)'
    BY DEF IInv, Fresh, Pending, Waits
  <2> QED BY <2>1, <2>2
<1>4. Unacknowledged'
  BY DEF IInv, Unacknowledged, Waits
<1> QED BY <1>1, <1>2, <1>3, <1>4

\* The operator's steps leave the skills alone.  The hand can only close on the
\* object while it is open, and so when Fetch is about to close it itself.
LEMMA ArmStep ==
  ASSUME IInv, Arm
  PROVE  IInv'
<1>1. /\ UNCHANGED <<state, queue, late, calls>>
      /\ UNCHANGED <<ticking, last, phase, seen, result, running, reported, unread, answers>>
  BY DEF Arm, chartVars, protocolVars
<1>2. /\ ChartTypeOK' /\ ProtocolTypeOK' /\ Ticking'
      /\ \A m \in Nodes : Scripted(m)' /\ Started(m)'
      /\ \A m \in Conditions : Asked(m)' /\ Fresh(m)'
      /\ Unacknowledged'
  BY <1>1, SkillsStand
<1>3. \A x : Pending(fetch, x)' <=> Pending(fetch, x)
  BY <1>1 DEF Pending, Waits
<1>4. ToldEmpty' <=> ToldEmpty
  BY <1>1 DEF ToldEmpty, Waits
<1>5. /\ extracted \in BOOLEAN /\ opened \in BOOLEAN /\ grasped \in BOOLEAN
      /\ failures \in 0..FakeArmFailures /\ FakeArmFailures \in Nat
      /\ OpenToGrasp /\ HandFree /\ HandKnown /\ EmptyHand /\ Scripted(fetch)
  BY FakeArmAssumption, NodesAre DEF IInv, TypeOK, ArmTypeOK
<1>6. CASE Home
  <2>1. extracted' = FALSE /\ homing' = "retracted" /\ UNCHANGED <<opened, grasped, failures>>
    BY <1>6 DEF Home, retractHand
  <2>2. ArmTypeOK'
    BY <1>5, <2>1 DEF ArmTypeOK
  <2>3. OpenToGrasp' /\ HandFree' /\ HandKnown' /\ EmptyHand'
    BY <1>1, <1>3, <1>4, <1>5, <2>1
    DEF OpenToGrasp, HandFree, HandKnown, GraspedOnSuccess, EmptyHand
  <2> QED BY <1>2, <2>2, <2>3 DEF IInv, TypeOK
<1>7. CASE HomeCloses
  <2>1. /\ opened' = FALSE /\ homing' = "closed" /\ extracted' = extracted
        /\ grasped' = (grasped \/ (Closes /\ failures >= FakeArmFailures))
        /\ failures' = IF Closes /\ failures < FakeArmFailures THEN failures + 1 ELSE failures
    BY <1>7 DEF HomeCloses, closeHand
  <2>2. ArmTypeOK'
    <3>1. failures' \in 0..FakeArmFailures /\ grasped' \in BOOLEAN
      BY <1>5, <2>1
    <3> QED BY <1>5, <2>1, <3>1 DEF ArmTypeOK
  <2>3. (grasped => grasped') /\ (grasped' /\ ~grasped => opened)
    BY <1>5, <2>1 DEF Closes
  <2>4. OpenToGrasp'
    BY <1>3, <1>5, <2>1 DEF OpenToGrasp
  <2>5. opened => /\ state[fetch] \notin {"idle", "pregrasp", "extract"}
                  /\ state[fetch] = "open" => calls[fetch] = <<>>
                  /\ ~Pending(fetch, "GRASP_KO")
    <3>1. "GRASP_KO" # NoEvent /\ "GRASP_KO" \notin Commands
      BY NoEventAssumption, StatesAndEvents DEF AnswerEvents, Commands
    <3>2. opened => \/ state[fetch] = "open" /\ calls[fetch] = <<>>
                    \/ state[fetch] = "grasp" /\ calls[fetch] # <<>>
      <4>1. OnEntry("grasp") # <<>>
        BY DEF OnEntry
      <4> QED BY <1>5, <4>1 DEF OpenToGrasp
    <3>3. Pending(fetch, "GRASP_KO") => calls[fetch] = <<>> /\ "GRASP_KO" \in AnswerEvents(state[fetch])
      BY <1>5, <3>1 DEF Scripted, Pending, Waits
    <3>4. "GRASP_KO" \notin AnswerEvents("open")
      BY DEF AnswerEvents
    <3> QED BY <3>2, <3>3, <3>4
  <2>6. HandFree' /\ HandKnown' /\ EmptyHand'
    BY <1>1, <1>3, <1>4, <1>5, <2>1, <2>3, <2>5
    DEF HandFree, HandKnown, GraspedOnSuccess, EmptyHand
  <2> QED BY <1>2, <2>2, <2>4, <2>6 DEF IInv, TypeOK
<1>8. CASE HomeEnds
  <2>1. homing' = "no" /\ UNCHANGED <<extracted, opened, grasped, failures>>
    BY <1>8 DEF HomeEnds
  <2>2. ArmTypeOK'
    BY <1>5, <2>1 DEF ArmTypeOK
  <2>3. OpenToGrasp' /\ HandFree' /\ HandKnown' /\ EmptyHand'
    BY <1>1, <1>3, <1>4, <1>5, <2>1
    DEF OpenToGrasp, HandFree, HandKnown, GraspedOnSuccess, EmptyHand
  <2> QED BY <1>2, <2>2, <2>3 DEF IInv, TypeOK
<1> QED BY <1>6, <1>7, <1>8 DEF Arm, Operator

-----------------------------------------------------------------------------
(* The theorems.                                                           *)

LEMMA InitInv == Init => IInv
<1> SUFFICES ASSUME Init PROVE IInv
  OBVIOUS
<1>1. /\ \A n \in Nodes : state[n] = "idle" /\ queue[n] = <<>> /\ late[n] = NoEvent /\ calls[n] = <<>>
      /\ DOMAIN <<>> = {}
  BY DEF Init, ChartInit
<1>2. /\ ticking = NoNode /\ phase = "none" /\ seen = "SKILL_IDLE" /\ last = NoNode /\ answers = {}
      /\ extracted = FALSE /\ opened = FALSE /\ grasped = FALSE
  BY DEF Init, ProtocolInit, ArmInit
<1>3. TypeOK
  <2>1. ChartTypeOK
    <3>1. "idle" \in ChartStates /\ OnEntry("idle") = <<>>
      BY StatesAndEvents DEF OnEntry
    <3> QED BY <3>1 DEF Init, ChartInit, ChartTypeOK
  <2>2. ProtocolTypeOK /\ ArmTypeOK
    <3>1. ProtocolTypeOK
      BY DEF Init, ProtocolInit, ProtocolTypeOK, SkillAck
    <3>2. ArmTypeOK
      <4>1. 0 \in 0..FakeArmFailures
        BY FakeArmAssumption
      <4> QED BY <4>1 DEF Init, ArmInit, ArmTypeOK
    <3> QED BY <3>1, <3>2
  <2> QED BY <2>1, <2>2 DEF TypeOK
<1>4. ASSUME NEW n \in Nodes PROVE Scripted(n) /\ Started(n) /\ ~Waits(n, "CMD_STOP")
  BY <1>1, <1>2, NodesAre DEF Scripted, Started, Waits, StatesOf, CallsOf
<1>5. ASSUME NEW n \in Conditions PROVE Asked(n) /\ Fresh(n)
  BY <1>1, <1>2, <1>4, NodesAre DEF Asked, Fresh, AtRest, Nodes, Outcomes
<1>6. Ticking /\ Unacknowledged
  BY <1>2, NodesAre DEF Ticking, Unacknowledged
<1>7. \A x \in ChartEvents : ~Pending(fetch, x)
  BY <1>1, NodesAre, NoEventAssumption DEF Pending, Waits
<1>8. OpenToGrasp /\ HandFree /\ HandKnown /\ EmptyHand
  <2>1. {"OPEN_KO", "GRASP_OK", "RETRACT_OK"} \subseteq ChartEvents
    BY StatesAndEvents DEF AnswerEvents
  <2> QED BY <1>1, <1>2, <1>7, <2>1, NodesAre
          DEF OpenToGrasp, HandFree, HandKnown, GraspedOnSuccess, EmptyHand
<1> QED BY <1>3, <1>4, <1>5, <1>6, <1>8 DEF IInv

LEMMA NextInv == IInv /\ [Next]_vars => IInv'
<1> SUFFICES ASSUME IInv, [Next]_vars PROVE IInv'
  OBVIOUS
<1>1. CASE Tree
  BY <1>1, TickIsFetchedStep, TickIsAtStep, TickFetchStep, HaltStep, AskStep, AcknowledgeStep,
     StartStep DEF Tree
<1>2. CASE Arm
  BY <1>2, ArmStep
<1>3. ASSUME NEW n \in Nodes, Chart(n) PROVE IInv'
  BY <1>3, ProgressStep, TimeoutStep DEF Chart
<1>4. ASSUME NEW n \in Nodes, Called(n) PROVE IInv'
  BY <1>4, CalledStep
<1>5. CASE UNCHANGED vars
  <2>1. UNCHANGED <<state, queue, late, calls, armVars, ticking, last, phase, seen, result, running,
                    reported, unread, answers>>
    BY <1>5 DEF vars, chartVars, protocolVars
  <2>2. /\ ChartTypeOK' /\ ProtocolTypeOK' /\ Ticking'
        /\ \A m \in Nodes : Scripted(m)' /\ Started(m)'
        /\ \A m \in Conditions : Asked(m)' /\ Fresh(m)'
        /\ Unacknowledged'
    BY <2>1, SkillsStand
  <2>3. ArmTypeOK'
    BY <2>1 DEF IInv, TypeOK, ArmTypeOK, armVars
  <2>4. OpenToGrasp' /\ HandFree' /\ HandKnown'
    BY <2>1 DEF IInv, OpenToGrasp, HandFree, HandKnown, GraspedOnSuccess, Pending, Waits, armVars
  <2>5. EmptyHand'
    BY <2>1 DEF IInv, EmptyHand, ToldEmpty, Waits, armVars
  <2> QED BY <2>2, <2>3, <2>4, <2>5 DEF IInv, TypeOK
<1> QED BY <1>1, <1>2, <1>3, <1>4, <1>5 DEF Next

LEMMA Invariance == Spec => []IInv
<1> QED BY InitInv, NextInv, PTL DEF Spec

\* The variables stay in their types, whatever the bounds.
THEOREM TypeCorrect == Spec => []TypeOK
<1>1. IInv => TypeOK
  BY DEF IInv
<1> QED BY <1>1, Invariance, PTL

\* A Fetch that reports success has the object in the hand and the hand drawn
\* back, whatever the operator has done meanwhile.
THEOREM GraspedOnSuccessHolds == Spec => []GraspedOnSuccess
<1>1. IInv => GraspedOnSuccess
  BY DEF IInv, HandKnown
<1> QED BY <1>1, Invariance, PTL

\* Only openHand empties the hand, and Fetch calls it only when nothing is held:
\* neither a retry nor a second Fetch drops the object.
LEMMA StepDropsNothing == IInv /\ [Next]_vars => (grasped => grasped')
<1> SUFFICES ASSUME IInv, [Next]_vars, grasped PROVE grasped'
  OBVIOUS
<1>1. CASE UNCHANGED armVars
  BY <1>1 DEF armVars
<1>2. CASE Arm
  BY <1>2 DEF Arm, Operator, Home, HomeCloses, HomeEnds, retractHand, closeHand
<1>3. ASSUME NEW n \in Nodes, Called(n), ~UNCHANGED armVars PROVE grasped'
  <2>1. PICK answer \in BOOLEAN : ArmHandles(ArmCall(n), answer)
    BY <1>3 DEF Called
  <2>2. calls[n] # <<>> /\ Scripted(n) /\ HandFree
    BY <1>3 DEF Called, IInv
  <2>3. ArmCall(n) # "openHand"
    <3>1. Head(calls[n]) = "openHand" => n = fetch /\ state[n] = "open"
      BY <2>2, NodesAre DEF Scripted, StatesOf, CallsOf, OnEntry
    <3> QED BY <2>2, <3>1 DEF ArmCall, HandFree
  <2> QED BY <2>1, <2>3
          DEF ArmHandles, preGrasp, extractHand, retractHand, closeHand, hasGrasped
<1> QED BY <1>1, <1>2, <1>3 DEF Next, Tree, Chart, vars

THEOREM NeverDropsHolds == Spec => NeverDrops
<1>1. IInv /\ [Next]_vars => [grasped => grasped']_vars
  BY StepDropsNothing
<1> QED BY <1>1, Invariance, PTL DEF Spec, NeverDrops

\* A condition reports what a call made during this very tick has answered: the
\* outcome of an earlier tick is never reported again.
THEOREM ReportsFreshAnswerHolds == Spec => ReportsFreshAnswer
<1> DEFINE Reported ==
      \A n \in Conditions :
        ticking = n /\ ticking' # n =>
          /\ seen = "SKILL_SUCCESS" => TRUE \in answers
          /\ seen = "SKILL_FAILURE" => FALSE \in answers
<1>1. IInv => \A n \in Conditions : Fresh(n)
  BY DEF IInv
<1>2. IInv /\ [Next]_vars => [Reported]_vars
  BY <1>1 DEF Fresh
<1> QED BY <1>2, Invariance, PTL DEF Spec, ReportsFreshAnswer
=============================================================================
