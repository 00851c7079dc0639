------------------------------ MODULE Battery ------------------------------
(***************************************************************************)
(* The battery of the simulated robot: the fakeBattery device (external),  *)
(* the charging station, a periodic module that turns the current of the   *)
(* battery round while the robot is near the station, and the battery      *)
(* component, which tells the skills the level and the charging status.    *)
(*                                                                         *)
(* The station remembers in prev_docked whether the robot was there when   *)
(* it last looked, and in discharge_current what the robot draws.  Both    *)
(* are lost when the process is restarted; the current that it has set in  *)
(* the device is not.                                                      *)
(***************************************************************************)
EXTENDS Integers

CONSTANTS
  Full,       \* the charge from which the station stops charging (99.7)
  Low,        \* the greatest charge that BatteryLevel calls low (30)
  Load,       \* what the robot draws
  Faint,      \* the least current that the station takes for a load (0.3)
  Default     \* what it assumes instead (1.0)

ASSUME BatteryAssumption ==
  /\ Full \in Nat /\ Low \in Nat /\ Low < Full
  /\ Load \in Nat /\ Faint \in Nat /\ Default \in Nat
  /\ 0 < Faint /\ Faint <= Load /\ Faint <= Default

VARIABLES
  charge, current,    \* the fakeBattery device: a positive current discharges
  prev_docked, discharge_current,
  running             \* whether the station process is up

batteryVars == <<charge, current, prev_docked, discharge_current, running>>

Magnitudes == {0, Load, Default}

BatteryTypeOK ==
  /\ charge \in 0..Full
  /\ current \in Magnitudes \cup {-m : m \in Magnitudes}
  /\ prev_docked \in BOOLEAN
  /\ discharge_current \in Magnitudes
  /\ running \in BOOLEAN

BatteryInit ==
  /\ charge = Full
  /\ current = Load
  /\ prev_docked = FALSE
  /\ discharge_current = 0    \* not initialised; never read before it is assigned
  /\ running = TRUE

\* The device integrates the current.
Integrate ==
  /\ \/ current > 0 /\ charge > 0 /\ charge' = charge - 1
     \/ current < 0 /\ charge < Full /\ charge' = charge + 1
  /\ UNCHANGED <<current, prev_docked, discharge_current, running>>

-----------------------------------------------------------------------------
Magnitude(c) == IF c < 0 THEN -c ELSE c

\* The current before docking; the sign it has does not matter, so that a
\* charge that was interrupted is taken for the load as well.
SavedCurrent == IF Magnitude(current) < Faint THEN Default ELSE Magnitude(current)

Docks == discharge_current' = IF prev_docked THEN discharge_current ELSE SavedCurrent

\* Mutant: the current is turned round again only if the battery is not full.
updateModuleKeeps(docked) ==
  /\ running
  /\ \/ docked /\ Docks /\ current' = IF charge >= Full THEN 0 ELSE -discharge_current'
     \/ /\ ~docked
        /\ current' = IF prev_docked /\ charge < Full THEN discharge_current ELSE current
        /\ UNCHANGED discharge_current
  /\ prev_docked' = docked
  /\ UNCHANGED <<charge, running>>

\* updateModule, with the robot near the station or not.
updateModule(docked) ==
  /\ running
  /\ \/ /\ docked
        /\ Docks
        /\ current' = IF charge >= Full THEN 0 ELSE -discharge_current'
     \/ /\ ~docked /\ prev_docked
        /\ current' = discharge_current
        /\ UNCHANGED discharge_current
     \/ /\ ~docked /\ ~prev_docked
        /\ UNCHANGED <<current, discharge_current>>
  /\ prev_docked' = docked
  /\ UNCHANGED <<charge, running>>

\* The process dies, and is started again with its members as constructed.
StationCrash ==
  /\ running
  /\ running' = FALSE
  /\ UNCHANGED <<charge, current, prev_docked, discharge_current>>

StationRestart ==
  /\ ~running
  /\ running' = TRUE
  /\ prev_docked' = FALSE
  /\ discharge_current' = 0
  /\ UNCHANGED <<charge, current>>

-----------------------------------------------------------------------------
(* What the condition skills read through the battery component.           *)
level == charge

\* The device is BATTERY_OK_IN_CHARGE while the current flows in.
charging_status == IF current < 0 THEN "BATTERY_CHARGING" ELSE "BATTERY_NOT_CHARGING"

\* Mutant: no level is low.
BatteryLevelHoldsEmpty == level >= 0

\* Mutant: a charge above the low level is enough.
BatteryNotChargingHoldsEarly == current >= 0 \/ level > Low

BatteryLevelHolds == level > Low
BatteryNotChargingHolds == charging_status = "BATTERY_NOT_CHARGING"
=============================================================================
