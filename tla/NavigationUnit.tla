---------------------------- MODULE NavigationUnit ----------------------------
(***************************************************************************)
(* What the skills, the blackboard and the lock protocol between them are  *)
(* there for: the one unit of the resource Navigation.  A skill takes it   *)
(* when nobody has it, commands the robot only while it has it, and gives  *)
(* it back only when it no longer commands the robot.                      *)
(***************************************************************************)
CONSTANT Skills

VARIABLES
  holders,  \* the skills that have taken the unit
  drivers   \* the skills that command the robot

vars == <<holders, drivers>>

Init == holders = {} /\ drivers = {}

Take(s) ==
  /\ holders = {}
  /\ holders' = {s}
  /\ UNCHANGED drivers

Drive(s) ==
  /\ holders = {s}
  /\ drivers = {}
  /\ drivers' = {s}
  /\ UNCHANGED holders

Stop(s) ==
  /\ drivers = {s}
  /\ drivers' = {}
  /\ UNCHANGED holders

Give(s) ==
  /\ holders = {s}
  /\ s \notin drivers
  /\ holders' = {}
  /\ UNCHANGED drivers

Next == \E s \in Skills : Take(s) \/ Drive(s) \/ Stop(s) \/ Give(s)

Spec == Init /\ [][Next]_vars

=============================================================================
