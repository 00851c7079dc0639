------------------------------ MODULE Monitors ------------------------------
(***************************************************************************)
(* The four runtime monitors: the statecharts BatteryLevelMonitor,         *)
(* DestinationMonitor, GraspMonitor and TargetMonitor, and the             *)
(* MonitorDelegate that submits the signals of the reader to each of them  *)
(* as events.  A chart takes an event and then its eventless transitions   *)
(* until it waits again, so that one event takes it from one waiting state *)
(* to another; "failure" is the alarm and is never left.                   *)
(***************************************************************************)
EXTENDS MonitorReader

CONSTANTS
  Critical,            \* batteryLevelCritical of BatteryLevelMonitor
  LowLevel,            \* batteryLevelLow of DestinationMonitor
  FullLevel,           \* batteryLevelFull of TargetMonitor
  DestinationTheta, GraspTheta, TargetTheta    \* the tickCounterThetas

ASSUME MonitorsAssumption ==
  /\ {Critical, LowLevel, FullLevel} \subseteq 0..100
  /\ {DestinationTheta, GraspTheta, TargetTheta} \subseteq Nat

navigationTarget == "kitchen"
lowBatteryTarget == "charging_station"

VARIABLES
  reader,    \* the MonitorReader
  battery, destination, grasp, target    \* the charts of the monitors

monitorVars == <<reader, battery, destination, grasp, target>>

-----------------------------------------------------------------------------
(* Each operator takes a chart and an event <<name, data>> to the chart    *)
(* that waits for the next.                                                *)

\* Mutant: a level that is right again ends the alarm.
BatteryLevelMonitorForgives(c, e) ==
  IF e[1] = "batteryLevelChanged" THEN (IF e[2] >= Critical THEN "idle" ELSE "failure") ELSE c

BatteryLevelMonitor(c, e) ==
  IF c = "idle" /\ e[1] = "batteryLevelChanged"
  THEN IF e[2] >= Critical THEN "idle" ELSE "failure"
  ELSE c

InitialDestination ==
  [at |-> "idleState-a", batteryLevel |-> 100, destination |-> "", tickCounter |-> 0]

\* The regions that store the values react to the same event as the monitor,
\* before the eventless transitions are looked at.
Update(c, e) ==
  CASE e[1] = "batteryLevelChanged" -> [c EXCEPT !.batteryLevel = e[2]]
    [] e[1] = "destinationChanged"  -> [c EXCEPT !.destination = e[2]]
    [] OTHER                        -> c

\* Mutant: once the battery is low, the destination is not looked at.
CheckDestinationNever(c) ==
  [c EXCEPT !.at = "waitForTickState"]

\* checkDestinationState; idleState-b, which is entered for the charging
\* station alone, goes on to idleState-a.
CheckDestination(c) ==
  [c EXCEPT !.at = IF c.destination = lowBatteryTarget THEN "idleState-a" ELSE "waitForTickState"]

DestinationMonitor(c, e) ==
  LET u == Update(c, e)
  IN  CASE c.at = "idleState-a" /\ e[1] = "destinationChanged" ->
             [u EXCEPT !.at = "waitForBatteryLevelState"]
        [] c.at = "waitForBatteryLevelState" /\ e[1] = "batteryLevelChanged" /\ u.batteryLevel < LowLevel ->
             CheckDestination([u EXCEPT !.tickCounter = DestinationTheta])
        [] c.at = "waitForTickState" /\ e[1] = "tick" ->
             IF c.tickCounter > 0 THEN CheckDestination([u EXCEPT !.tickCounter = @ - 1])
                                  ELSE [u EXCEPT !.at = "failure"]
        [] OTHER -> u

InitialGrasp == [at |-> "idle", tickCounter |-> 0]

\* Mutant: the monitor goes on counting until the hand is said to be back.
GraspMonitorReply(c, e) ==
  CASE c.at = "idle" /\ e[1] = "openHandReplyReceived" /\ e[2] ->
         [at |-> "graspingState", tickCounter |-> GraspTheta]
    [] c.at = "graspingState" /\ e[1] = "tick" ->
         IF c.tickCounter > 0 THEN [c EXCEPT !.tickCounter = @ - 1] ELSE [c EXCEPT !.at = "failure"]
    [] OTHER -> c

\* Mutant: every hand that opens starts the count again.
GraspMonitorRestarts(c, e) ==
  CASE e[1] = "openHandReplyReceived" /\ e[2] /\ c.at # "failure" ->
         [at |-> "graspingState", tickCounter |-> GraspTheta]
    [] c.at = "graspingState" /\ e[1] = "tick" ->
         IF c.tickCounter > 0 THEN [c EXCEPT !.tickCounter = @ - 1] ELSE [c EXCEPT !.at = "failure"]
    [] c.at = "graspingState" /\ e[1] = "retractHandCommandSent" -> [c EXCEPT !.at = "idle"]
    [] OTHER -> c

GraspMonitor(c, e) ==
  CASE c.at = "idle" /\ e[1] = "openHandReplyReceived" /\ e[2] ->
         [at |-> "graspingState", tickCounter |-> GraspTheta]
    [] c.at = "graspingState" /\ e[1] = "tick" ->
         IF c.tickCounter > 0 THEN [c EXCEPT !.tickCounter = @ - 1] ELSE [c EXCEPT !.at = "failure"]
    [] c.at = "graspingState" /\ e[1] = "retractHandCommandSent" -> [c EXCEPT !.at = "idle"]
    [] OTHER -> c

InitialTarget == [at |-> "idle", tickCounter |-> 0]

\* localeCompare is zero, and so false, for equal names.
TargetMonitor(c, e) ==
  CASE c.at = "idle" /\ e[1] = "destinationChanged" /\ e[2] = navigationTarget ->
         [c EXCEPT !.at = "waitForBatteryLevelState"]
    [] c.at = "waitForBatteryLevelState" /\ e[1] = "batteryLevelChanged" ->
         IF e[2] < FullLevel THEN [c EXCEPT !.at = "idle"]
                             ELSE [at |-> "waitForTickState", tickCounter |-> TargetTheta]
    [] c.at = "waitForTickState" /\ e[1] = "tick" ->
         IF c.tickCounter > 0 THEN [c EXCEPT !.tickCounter = @ - 1] ELSE [c EXCEPT !.at = "failure"]
    [] c.at = "waitForTickState" /\ e[1] = "destinationReached" /\ e[2] # navigationTarget ->
         [c EXCEPT !.at = "idle"]
    [] OTHER -> c

-----------------------------------------------------------------------------
charts == [battery |-> battery, destination |-> destination, grasp |-> grasp, target |-> target]

\* Every chart takes an event.
SubmitToAll(c, e) ==
  [battery     |-> BatteryLevelMonitor(c.battery, e),
   destination |-> DestinationMonitor(c.destination, e),
   grasp       |-> GraspMonitor(c.grasp, e),
   target      |-> TargetMonitor(c.target, e)]

\* Mutant: destinationReached is wired to the signal of that name.
DelegateStraight(c, signal) ==
  SubmitToAll(c, signal)

\* The delegate submits every signal under its own name, but for
\* destinationReached: that event follows every destinationChanged.
Delegate(c, signal) ==
  CASE signal[1] = "destinationChanged" ->
         SubmitToAll(SubmitToAll(c, signal), Signal("destinationReached", signal[2]))
    [] signal[1] = "destinationReached" -> c
    [] OTHER -> SubmitToAll(c, signal)

\* The charts after all signals of a message.
Delegated(c, signals) ==
  LET after[i \in 0..Len(signals)] == IF i = 0 THEN c ELSE Delegate(after[i - 1], signals[i])
  IN  after[Len(signals)]

MonitorsInit ==
  /\ reader = InitialReader
  /\ battery = "idle"
  /\ destination = InitialDestination
  /\ grasp = InitialGrasp
  /\ target = InitialTarget

\* A message arrives at /monitor and the charts take its events.
Hear(m) ==
  \E heard \in {read(reader, m)} : \E c \in {Delegated(charts, heard.signals)} :
    /\ reader' = heard.reader
    /\ battery' = c.battery /\ destination' = c.destination
    /\ grasp' = c.grasp /\ target' = c.target
=============================================================================
