-------------------------- MODULE ChargingMission --------------------------
(***************************************************************************)
(* The robot under the behaviour tree: the tree, the battery with its      *)
(* station, and the two GoTo skills as NavigationUnit describes them: a    *)
(* skill that is started waits for the unit, drives while it has it, and   *)
(* gives it back when it arrives, fails or is stopped.  It stays in        *)
(* success or failure until it is stopped.                                 *)
(*                                                                         *)
(* A command waits in the event queue of its skill, and the tick of an     *)
(* action asks the skill twice, so that the skill may come to any other    *)
(* state between the two: a skill that is cleaning up at the first answer  *)
(* and idle at the second is not started, and the tick asks for ever.  The *)
(* condition skills are quick: they decide within the tick that asks them. *)
(***************************************************************************)
EXTENDS BehaviorTree, Battery, SequencesExt

CONSTANTS
  StationMayCrash,    \* whether the station process may die
  StopMayBeLost,      \* whether a skill may miss a CMD_STOP
  GoToMayFail         \* whether a skill may give up its journey

ASSUME FaultsAssumption ==
  {StationMayCrash, StopMayBeLost, GoToMayFail} \subseteq BOOLEAN

VARIABLES
  skill,    \* what each GoTo skill does
  commands, \* what it has been sent and not yet taken
  place,    \* where the robot is
  missed,   \* the GoTo skills that have missed their last CMD_STOP
  came      \* whether it has come to the station with a low battery, on a journey that
            \* the tree remembers, and nothing has gone wrong since: no CMD_STOP
            \* missed, the station process up

worldVars == <<skill, commands, place, missed, came>>
vars == <<treeVars, batteryVars, worldVars>>

\* Taking the unit, driving, giving the unit back at the end of the journey,
\* and cleaning up after CMD_STOP: all of these answer SKILL_RUNNING.
SkillPhases == {"idle", "waiting", "driving", "arrived", "failed", "stopping", "success", "failure"}

Commands == {"CMD_START", "CMD_STOP"}

Goal(a) == IF a = "GoToChargingStation" THEN "station" ELSE "destination"

TypeOK ==
  /\ TreeTypeOK
  /\ BatteryTypeOK
  /\ skill \in [Actions -> SkillPhases]
  /\ commands \in [Actions -> Seq(Commands)]
  /\ place \in {"station", "road", "destination"}
  /\ missed \subseteq Actions
  /\ came \in BOOLEAN

Init ==
  /\ TreeInit
  /\ BatteryInit
  /\ skill = [a \in Actions |-> "idle"]
  /\ commands = [a \in Actions |-> <<>>]
  /\ place = "road"
  /\ missed = {}
  /\ came = FALSE

-----------------------------------------------------------------------------
(* The leaves.                                                             *)
Holds(c) ==
  CASE c = "BatteryLevel"        -> BatteryLevelHolds
    [] c = "BatteryNotCharging"  -> BatteryNotChargingHolds
    [] c = "IsAtChargingStation" -> place = "station"
    [] c = "IsAtDestination"     -> place = "destination"

request_ack(a) ==
  CASE skill[a] = "idle"    -> "IDLE"
    [] skill[a] = "success" -> "SUCCESS"
    [] skill[a] = "failure" -> "FAILURE"
    [] OTHER                -> "RUNNING"

\* Leaf l has the status r; halt() of the actions that are given up sends CMD_STOP.
LeafReturns(l, r) ==
  /\ \E stopped \in SUBSET (Actions \cup {"Wait"}) :
       /\ Visit(l, r, stopped)
       /\ commands' = [a \in Actions |-> IF a \in stopped THEN Append(commands[a], "CMD_STOP")
                                                          ELSE commands[a]]
  /\ missed' = missed \ {l}
  /\ UNCHANGED <<batteryVars, skill, place, came>>

VisitCondition(c) == LeafReturns(c, IF Holds(c) THEN "SUCCESS" ELSE "FAILURE")

\* YARPNode::tick, its first request: only a skill that is idle then is started.
AskAction(a) ==
  /\ Ask(a)
  /\ commands' = IF request_ack(a) = "IDLE"
                 THEN [commands EXCEPT ![a] = Append(@, "CMD_START")] ELSE commands
  /\ UNCHANGED <<batteryVars, skill, place, missed, came>>

\* The later requests of the tick, of which the first that is not answered IDLE ends it.
VisitAction(a) ==
  /\ asked
  /\ request_ack(a) # "IDLE"
  /\ LeafReturns(a, request_ack(a))

VisitWait == LeafReturns("Wait", "RUNNING")

\* A second passes between two ticks, and more while the robot moves; a
\* statechart takes its events within milliseconds.
KeepsUp == \A a \in Actions : commands[a] = <<>>

Tree ==
  \/ BeginTick /\ KeepsUp /\ UNCHANGED <<batteryVars, worldVars>>
  \/ \E c \in ConditionLeaves : VisitCondition(c)
  \/ \E a \in Actions : AskAction(a) \/ VisitAction(a)
  \/ VisitWait

-----------------------------------------------------------------------------
(* The skills and the robot.                                               *)
Becomes(a, phase) == skill' = [skill EXCEPT ![a] = phase]

\* A skill takes the next command from its queue.
Takes(a, command) ==
  /\ commands[a] # <<>>
  /\ Head(commands[a]) = command
  /\ commands' = [commands EXCEPT ![a] = Tail(@)]
  /\ UNCHANGED <<treeVars, batteryVars, place>>

Starts(a) ==
  /\ Takes(a, "CMD_START")
  /\ skill[a] = "idle"
  /\ Becomes(a, "waiting")
  /\ UNCHANGED <<missed, came>>

\* A skill that is driving or at its end gives the unit back and is idle again;
\* one that is idle or cleaning up has no transition for CMD_STOP.
Stops(a) ==
  /\ Takes(a, "CMD_STOP")
  /\ \/ skill[a] \in {"idle", "stopping"} /\ UNCHANGED skill
     \/ skill[a] \notin {"idle", "stopping"} /\ Becomes(a, "stopping")
  /\ missed' = missed \ {a}
  /\ UNCHANGED came

\* While it takes the unit or gives it back, some states have no transition for
\* CMD_STOP either, and the skill goes on.
Misses(a) ==
  /\ StopMayBeLost
  /\ Takes(a, "CMD_STOP")
  /\ skill[a] \in {"waiting", "arrived", "failed"}
  /\ missed' = missed \cup {a}
  /\ came' = FALSE
  /\ UNCHANGED skill

\* The other skill gives the unit back somewhere on its way to its end.
TakesUnit(a) ==
  /\ skill[a] = "waiting"
  /\ \A b \in Actions : skill[b] # "driving"
  /\ Becomes(a, "driving")
  /\ UNCHANGED <<treeVars, batteryVars, commands, place, missed, came>>

Departs(a) ==
  /\ skill[a] = "driving" /\ KeepsUp
  /\ place \notin {"road", Goal(a)}
  /\ place' = "road"
  /\ UNCHANGED <<treeVars, batteryVars, skill, commands, missed, came>>

Reaches(a) ==
  /\ skill[a] = "driving" /\ KeepsUp
  /\ place # Goal(a)
  /\ place' = Goal(a)
  /\ came' = /\ Goal(a) = "station" /\ charge <= Low /\ running
             /\ a \in running_ /\ missed = {}
  /\ UNCHANGED <<treeVars, batteryVars, skill, commands, missed>>

\* The skill finds that the robot has arrived, or that it has not and never will.
Ends(a) ==
  /\ skill[a] = "driving"
  /\ \/ place = Goal(a) /\ Becomes(a, "arrived")
     \/ GoToMayFail /\ Becomes(a, "failed")
  /\ UNCHANGED <<treeVars, batteryVars, commands, place, missed, came>>

\* The unit has been given back.
GivesBack(a) ==
  /\ \/ skill[a] = "arrived"  /\ Becomes(a, "success")
     \/ skill[a] = "failed"   /\ Becomes(a, "failure")
     \/ skill[a] = "stopping" /\ Becomes(a, "idle")
  /\ UNCHANGED <<treeVars, batteryVars, commands, place, missed, came>>

Robot(a) ==
  \/ Starts(a) \/ Stops(a) \/ Misses(a)
  \/ TakesUnit(a) \/ Departs(a) \/ Reaches(a) \/ Ends(a) \/ GivesBack(a)

Power ==
  /\ \/ Integrate
     \/ updateModule(place = "station")
     \/ StationRestart
  /\ UNCHANGED <<treeVars, worldVars>>

StationDies ==
  /\ StationMayCrash
  /\ StationCrash
  /\ came' = FALSE
  /\ UNCHANGED <<treeVars, skill, commands, place, missed>>

Next == Tree \/ (\E a \in Actions : Robot(a)) \/ Power \/ StationDies

Spec == Init /\ [][Next]_vars

Unchanged == UNCHANGED <<treeVars, worldVars>>

\* The tree ticks at 1 Hz and the station looks periodically; a crashed
\* station is restarted; a robot that drives arrives; a skill takes its events
\* and is not refused the lock of the blackboard for ever.
FairSpec ==
  /\ Spec
  /\ WF_vars(Tree)
  /\ \A a \in Actions :
       /\ WF_vars(Starts(a) \/ Stops(a) \/ Misses(a))
       /\ WF_vars(TakesUnit(a)) /\ WF_vars(Reaches(a)) /\ WF_vars(Ends(a)) /\ WF_vars(GivesBack(a))
  /\ WF_vars(Integrate /\ Unchanged)
  /\ WF_vars(updateModule(place = "station") /\ Unchanged)
  /\ WF_vars(StationRestart /\ Unchanged)

-----------------------------------------------------------------------------
\* Whether a CMD_STOP waits for a.
Stopped(a) == "CMD_STOP" \in ToSet(commands[a])

\* Between two ticks at most one of the GoTo skills is at work and has not been
\* sent CMD_STOP, but for one that has missed it: the tree has halted the other,
\* although it starts the new one first (main.cpp, the loop).
OneActionAtWork ==
  leaf = "rest" =>
    Cardinality({a \in Actions \ missed :
                   skill[a] \in {"waiting", "driving"} /\ ~Stopped(a)}) <= 1

\* A GoTo skill that has ended and not been stopped tells its old outcome.
Stale(a) == skill[a] \in {"success", "failure"} /\ place # Goal(a)

\* The tick of a waits for a skill that nobody will start: it was cleaning up
\* when the tick asked first (YARPNode::tick, the loop).
Stranded(a) ==
  leaf = a /\ asked /\ skill[a] = "idle" /\ commands[a] = <<>>

Standstill == Stale("GoToChargingStation") \/ \E a \in Actions : Stranded(a)

\* A low battery brings the robot to the station, or to a standstill: behind an
\* old outcome of GoToChargingStation, because the tick in which its own leaf
\* saw the outcome does not make the library remember it as RUNNING, so that
\* nothing stops the skill afterwards; or in a tick that waits for ever for an
\* action it has not started (YARPNode::tick, the halts of the tree).
LowReachesStation ==
  charge <= Low ~> (place = "station" \/ Standstill)

\* A robot that came to the station with a low battery leaves it full, unless
\* the station process dies meanwhile or a skill has missed its CMD_STOP and
\* drives off: between the level and the status the tree always sees that it is
\* being charged.
LeavesFull ==
  [][came /\ place = "station" /\ place' # "station" => charge = Full]_vars

\* A battery that was left charging when the station process died under the
\* robot does not stay so on the road: the tree takes the robot back, or comes
\* to one of the standstills.
PhantomChargeEnds ==
  (place # "station" /\ current < 0) ~> (place = "station" \/ current >= 0 \/ Standstill)

\* A station that never dies leaves the robot drawing current wherever it has
\* seen it away (updateModule; what it saves and restores).
DischargesAway ==
  [](~prev_docked /\ place # "station" => current > 0) \/ <>~running
=============================================================================
