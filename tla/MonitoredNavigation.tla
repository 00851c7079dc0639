------------------------ MODULE MonitoredNavigation ------------------------
(***************************************************************************)
(* The monitors of the battery and of the journeys, and what they are      *)
(* shown: the readings of the BatteryLevel skill, the calls of the GoTo    *)
(* skills and of the IsAt skills, and the ticks of the tree.  A journey is *)
(* reduced to its start, its end and the questions of its skill.  Only the *)
(* replies to level, getStatus, isAtLocation and halt are shown here: the  *)
(* reader ignores the commands of these connections.                       *)
(***************************************************************************)
EXTENDS Monitors, FiniteSetsExt

CONSTANTS Destinations, Charges

Nowhere == "nowhere"

ASSUME MonitoredNavigationAssumption ==
  /\ {navigationTarget, lowBatteryTarget} \subseteq Destinations
  /\ {Nowhere, NO_LOCATION} \cap Destinations = {}
  /\ Charges \subseteq 0..100 /\ 100 \in Charges

VARIABLES
  charge,    \* of the battery; the operator may set it
  journey,   \* the destination of the skill that is at work
  progress,  \* GoToStatus of the journey
  at,        \* where the robot is
  ended,     \* the journey whose end its skill has been told of
  lowest,    \* the lowest level read
  late,      \* the last ticks, with a low level read, that did not show the station as destination
  kept       \* ticks since the shown destination changed to another one than the target

envVars == <<charge, journey, progress, at>>
vars == <<monitorVars, envVars, ended, lowest, late, kept>>

Object(from, to) == CHOOSE o \in Create(SendersSide, from, to) : TRUE

levelPort == Object("/BatteryReaderBatteryLevelClient", "/BatteryComponent")
goToPort  == Object("/GoToClient", "/GoToComponent")
startPort == Object("/GoToUser/BT_rpc/client", "/GoToUser/BT_rpc/server")

ABORT == 3

TypeOK ==
  /\ reader.batteryLevel \in Charges
  /\ reader.destination \in Destinations \cup {NO_LOCATION}
  /\ battery \in {"idle", "failure"}
  /\ destination.at \in {"idleState-a", "waitForBatteryLevelState", "waitForTickState", "failure"}
  /\ destination.tickCounter \in 0..DestinationTheta
  /\ target.at \in {"idle", "waitForBatteryLevelState", "waitForTickState", "failure"}
  /\ target.tickCounter \in 0..TargetTheta
  /\ charge \in Charges /\ lowest \in Charges
  /\ journey \in Destinations \cup {Nowhere} /\ at \in Destinations \cup {Nowhere}
  /\ progress \in {RUNNING, SUCCESS, ABORT}
  /\ ended \in Destinations \cup {Nowhere}
  /\ late \in -1..DestinationTheta + 1 /\ kept \in 0..TargetTheta + 1

Init ==
  /\ MonitorsInit
  /\ charge \in Charges
  /\ journey = Nowhere /\ progress = RUNNING /\ at \in Destinations \cup {Nowhere}
  /\ ended = Nowhere /\ lowest = 100 /\ late = -1 /\ kept = 0

\* A step that shows m; the history follows from what is shown.
Shows(m) ==
  /\ Hear(m)
  /\ LET shown == reader'.destination
         changed == shown # reader.destination
         low == lowest' < LowLevel
         tick == IF m.type = "tick" THEN 1 ELSE 0
     IN  /\ lowest' = Min({lowest, reader'.batteryLevel})
         /\ late' = IF m.type # "tick" /\ late # -1 THEN late
                    ELSE IF low /\ shown # lowBatteryTarget THEN Min({late + 1, DestinationTheta + 1})
                    ELSE -1
         /\ kept' = IF changed /\ shown # navigationTarget THEN 0
                    ELSE Min({kept + tick, TargetTheta + 1})

ShowsNothing == UNCHANGED <<monitorVars, lowest, late, kept>>

-----------------------------------------------------------------------------
TreeTick == Shows(TickMessage) /\ UNCHANGED <<envVars, ended>>

SetsCharge(c) ==
  /\ charge' = c
  /\ ShowsNothing /\ UNCHANGED <<journey, progress, at, ended>>

ReadsLevel ==
  /\ Shows(BatteryUpdateReply(levelPort, [method |-> "level", ret |-> charge]))
  /\ UNCHANGED <<envVars, ended>>

\* The tree starts a skill, whose first call drives the robot off.
Begins(d) ==
  /\ journey = Nowhere
  /\ journey' = d /\ progress' = RUNNING /\ at' = Nowhere
  /\ ended' = IF ended = d THEN Nowhere ELSE ended
  /\ Shows(SkillUpdate(startPort, [method |-> "send_start"]))
  /\ UNCHANGED charge

Drives ==
  /\ journey # Nowhere /\ progress = RUNNING
  /\ \/ progress' = SUCCESS /\ at' = journey
     \/ progress' = ABORT /\ at' = at
  /\ ShowsNothing /\ UNCHANGED <<charge, journey, ended>>

\* The skill asks until the journey has ended.
Polls ==
  /\ journey # Nowhere
  /\ Shows(GoToUpdateReply(goToPort, [method |-> "getStatus", dest |-> journey, ret |-> progress]))
  /\ IF progress = RUNNING THEN UNCHANGED <<journey, ended>>
                           ELSE journey' = Nowhere /\ ended' = journey
  /\ UNCHANGED <<charge, progress, at>>

\* The tree stops the skill, which stops the robot.
Halts ==
  /\ journey # Nowhere
  /\ Shows(GoToUpdateReply(goToPort, [method |-> "halt", dest |-> journey]))
  /\ journey' = Nowhere
  /\ UNCHANGED <<charge, progress, at, ended>>

AsksWhere(d) ==
  /\ Shows(GoToUpdateReply(goToPort, [method |-> "isAtLocation", dest |-> d, ret |-> at = d]))
  /\ UNCHANGED <<envVars, ended>>

Next ==
  \/ TreeTick \/ ReadsLevel \/ Drives \/ Polls \/ Halts
  \/ \E c \in Charges : SetsCharge(c)
  \/ \E d \in Destinations : Begins(d) \/ AsksWhere(d)

Spec == Init /\ [][Next]_vars

-----------------------------------------------------------------------------
\* BatteryLevelMonitor is in alarm exactly when a critical level has ever been
\* read, although it hears of changes only (MonitorReader::read, the reply to
\* level).
BatteryAlarmIff == battery = "failure" <=> lowest < Critical

\* A journey whose skill has been told of its end is no longer shown, until it
\* begins again: whatever the order of journeys, halts and failures (the reply
\* to getStatus).
EndedIsNotShown == ended # Nowhere => reader.destination # ended

\* DestinationMonitor raises no alarm unless a low level had been read and
\* another destination than the station was shown at all of its ticks but the
\* last, which it raises the alarm at without looking at the destination again.
DestinationAlarmJustified ==
  [][destination.at # "failure" /\ destination'.at = "failure" => late >= DestinationTheta]_vars

\* TargetMonitor raises no alarm on a robot that has turned to another
\* destination while it was counting: the delegate tells it of the change, as
\* destinationReached.
TargetAlarmJustified ==
  [][target.at # "failure" /\ target'.at = "failure" => kept >= TargetTheta]_vars

=============================================================================
