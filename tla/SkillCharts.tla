---------------------------- MODULE SkillCharts ----------------------------
(***************************************************************************)
(* The small skills: the four condition skills (IsAt, IsFetched,           *)
(* BatteryLevel, BatteryNotCharging), whose statecharts differ only in the *)
(* call they make, and the Fetch skill.  The onentry script of a state     *)
(* makes blocking calls to a component; what the last one answers becomes  *)
(* an event, which IsAt submits at once and the others from a timer that   *)
(* fires when the event loop runs again (QTimer::singleShot with 0).       *)
(*                                                                         *)
(* While a script waits for an answer its chart takes no event, but the    *)
(* port of the skill is served by another thread, so the state is read and *)
(* events are queued all the same.                                         *)
(***************************************************************************)
EXTENDS Sequences, Naturals

CONSTANTS Conditions, Fetchers,    \* the instances of the two kinds of skill
          Direct,                  \* those that submit the outcome at once
          NoEvent

ASSUME SkillsAssumption ==
  /\ Conditions \cap Fetchers = {}
  /\ Direct \subseteq Conditions

VARIABLES
  state,    \* the active state
  queue,    \* submitted events
  late,     \* the event of a timer that has not fired
  calls     \* the calls the active state's script has still to make

chartVars == <<state, queue, late, calls>>

Nodes == Conditions \cup Fetchers

-----------------------------------------------------------------------------
(* The charts.  A node of Conditions asks one question, named by "get".    *)

\* Mutant: a condition that does not hold asks again.
ConditionTransitionsRetry == {
  <<"idle", "CMD_START", "get">>,
  <<"get", "STATUS_SUCCESS", "success">>,
  <<"get", "STATUS_FAILED", "get">>,
  <<"success", "CMD_OK", "idle">>,
  <<"failure", "CMD_OK", "idle">>}

ConditionTransitions == {
  <<"idle", "CMD_START", "get">>,
  <<"get", "STATUS_SUCCESS", "success">>,
  <<"get", "STATUS_FAILED", "failure">>,
  <<"success", "CMD_OK", "idle">>,
  <<"failure", "CMD_OK", "idle">>}

\* Mutant: an empty hand is drawn back.
FetchTransitionsGiveUp == {
  <<"idle", "CMD_START", "pregrasp">>,
  <<"pregrasp", "PREGRASP_OK", "extract">>, <<"pregrasp", "PREGRASP_KO", "failure">>,
  <<"extract", "EXTRACT_OK", "open">>,      <<"extract", "EXTRACT_KO", "failure">>,
  <<"open", "OPEN_OK", "grasp">>,           <<"open", "OPEN_KO", "failure">>,
  <<"grasp", "GRASP_OK", "retract">>,       <<"grasp", "GRASP_KO", "retract">>,
  <<"retract", "RETRACT_OK", "success">>,   <<"retract", "RETRACT_KO", "failure">>,
  <<"success", "CMD_OK", "idle">>,          <<"failure", "CMD_OK", "idle">>}

FetchTransitions == {
  <<"idle", "CMD_START", "pregrasp">>,
  <<"pregrasp", "PREGRASP_OK", "extract">>, <<"pregrasp", "PREGRASP_KO", "failure">>,
  <<"extract", "EXTRACT_OK", "open">>,      <<"extract", "EXTRACT_KO", "failure">>,
  <<"open", "OPEN_OK", "grasp">>,           <<"open", "OPEN_KO", "failure">>,
  <<"grasp", "GRASP_OK", "retract">>,       <<"grasp", "GRASP_KO", "open">>,
  <<"retract", "RETRACT_OK", "success">>,   <<"retract", "RETRACT_KO", "failure">>,
  <<"success", "CMD_OK", "idle">>,          <<"failure", "CMD_OK", "idle">>}

Transitions(n) == IF n \in Fetchers THEN FetchTransitions ELSE ConditionTransitions

ChartStates == {t[1] : t \in ConditionTransitions \cup FetchTransitions}
ChartEvents == {t[2] : t \in ConditionTransitions \cup FetchTransitions} \cup {"CMD_STOP"}

ASSUME NoEventAssumption == NoEvent \notin ChartEvents

\* The calls of a state's onentry, in the order of the script.
OnEntry(s) ==
  CASE s = "get"      -> <<"get">>
    [] s = "pregrasp" -> <<"preGrasp">>
    [] s = "extract"  -> <<"extractHand">>
    [] s = "open"     -> <<"openHand">>
    [] s = "grasp"    -> <<"closeHand", "hasGrasped">>
    [] s = "retract"  -> <<"retractHand">>
    [] OTHER          -> <<>>

\* The event for the answer of the last call.
Outcome(s, answer) ==
  CASE s = "get"      -> IF answer THEN "STATUS_SUCCESS" ELSE "STATUS_FAILED"
    [] s = "pregrasp" -> IF answer THEN "PREGRASP_OK" ELSE "PREGRASP_KO"
    [] s = "extract"  -> IF answer THEN "EXTRACT_OK" ELSE "EXTRACT_KO"
    [] s = "open"     -> IF answer THEN "OPEN_OK" ELSE "OPEN_KO"
    [] s = "grasp"    -> IF answer THEN "GRASP_OK" ELSE "GRASP_KO"
    [] s = "retract"  -> IF answer THEN "RETRACT_OK" ELSE "RETRACT_KO"

\* The scope:bt_status attribute.  The question of a condition is still IDLE,
\* so that its tick waits for the answer; the steps of Fetch are RUNNING.
BTStatus(s) ==
  CASE s \in {"idle", "get"} -> "SKILL_IDLE"
    [] s = "success"         -> "SKILL_SUCCESS"
    [] s = "failure"         -> "SKILL_FAILURE"
    [] OTHER                 -> "SKILL_RUNNING"

-----------------------------------------------------------------------------
ChartTypeOK ==
  /\ state \in [Nodes -> ChartStates]
  /\ queue \in [Nodes -> Seq(ChartEvents)]
  /\ late \in [Nodes -> ChartEvents \cup {NoEvent}]
  /\ calls \in [Nodes -> {<<>>, <<"hasGrasped">>} \cup {OnEntry(s) : s \in ChartStates}]

ChartInit ==
  /\ state = [n \in Nodes |-> "idle"]
  /\ queue = [n \in Nodes |-> <<>>]
  /\ late = [n \in Nodes |-> NoEvent]
  /\ calls = [n \in Nodes |-> <<>>]

Submit(n, e) == queue' = [queue EXCEPT ![n] = Append(@, e)]

\* The chart takes the next event; one that has no transition is lost.
React(n) ==
  /\ calls[n] = <<>>
  /\ queue[n] # <<>>
  /\ queue' = [queue EXCEPT ![n] = Tail(@)]
  /\ LET enabled == {t \in Transitions(n) : t[1] = state[n] /\ t[2] = Head(queue[n])}
     IN \/ \E t \in enabled : /\ state' = [state EXCEPT ![n] = t[3]]
                              /\ calls' = [calls EXCEPT ![n] = OnEntry(t[3])]
        \/ enabled = {} /\ UNCHANGED <<state, calls>>
  /\ UNCHANGED late

\* The pending call of the script is answered.  A call whose answer does not
\* come gives the default of the protocol, false, as an answer.
Answered(n, answer) ==
  /\ calls[n] # <<>>
  /\ calls' = [calls EXCEPT ![n] = Tail(@)]
  /\ \/ /\ Len(calls[n]) > 1    \* the answer is not used
        /\ UNCHANGED <<queue, late>>
     \/ /\ Len(calls[n]) = 1
        /\ n \in Direct
        /\ Submit(n, Outcome(state[n], answer))
        /\ UNCHANGED late
     \/ /\ Len(calls[n]) = 1
        /\ n \notin Direct
        /\ late' = [late EXCEPT ![n] = Outcome(state[n], answer)]
        /\ UNCHANGED queue
  /\ UNCHANGED state

\* The timer fires.
Fire(n) ==
  /\ calls[n] = <<>>
  /\ late[n] # NoEvent
  /\ Submit(n, late[n])
  /\ late' = [late EXCEPT ![n] = NoEvent]
  /\ UNCHANGED <<state, calls>>
=============================================================================
