---------------------------- MODULE GoToComponent ----------------------------
(***************************************************************************)
(* The GoToComponent and the navigation server behind it.  The component   *)
(* keeps one flag, running; which target is current and how far the robot  *)
(* has come is known to the navigation server only, which is external and  *)
(* is modelled by the calls the component makes to it.  Handlers hold mtx, *)
(* so each is one action.                                                  *)
(***************************************************************************)
CONSTANTS
  Locations,       \* the destinations
  Nowhere,         \* no destination, no area
  QueriesMayFail   \* the navigation server may leave a query unanswered

ASSUME GoToAssumption ==
  /\ Nowhere \notin Locations
  /\ QueriesMayFail \in BOOLEAN

VARIABLES
  running,    \* GoToComponent::running
  target,     \* name of the current target, kept by the navigation server
  navStatus,  \* its navigation status
  area        \* the area the robot is inside of

navVars == <<running, target, navStatus, area>>

GoToStatus == {"NOT_STARTED", "RUNNING", "SUCCESS", "ABORT"}

\* moving stands for the five statuses that getStatus answers with RUNNING,
\* aborted for those it answers with ABORT.
NavigationStatus == {"idle", "moving", "goal_reached", "aborted"}

GoToTypeOK ==
  /\ running \in BOOLEAN
  /\ target \in Locations \cup {Nowhere}
  /\ navStatus \in NavigationStatus
  /\ area \in Locations \cup {Nowhere}

GoToInit ==
  /\ running = FALSE
  /\ target = Nowhere
  /\ navStatus = "idle"
  /\ area \in Locations \cup {Nowhere}

checkInsideArea(d) == area = d

-----------------------------------------------------------------------------
(* Handlers.                                                               *)

\* A robot that is inside the area already is not given a target.
goTo(d) ==
  /\ running' = TRUE
  /\ IF checkInsideArea(d)
     THEN UNCHANGED <<target, navStatus>>
     ELSE target' = d /\ navStatus' = "moving"
  /\ UNCHANGED area

Progress(d) ==
  CASE navStatus = "idle" /\ ~running -> "NOT_STARTED"
    [] navStatus = "idle" /\ running ->
         IF checkInsideArea(d) THEN "SUCCESS" ELSE "RUNNING"
    [] navStatus = "moving" -> "RUNNING"
    [] navStatus = "goal_reached" -> "SUCCESS"
    [] OTHER -> "ABORT"

getStatus(d, r) ==
  /\ \/ r = IF target = d THEN Progress(d) ELSE "NOT_STARTED"
     \/ QueriesMayFail /\ r = "ABORT"
  /\ UNCHANGED navVars

\* Mutant: the flag is cleared and the navigation is not stopped.
haltFlagOnly(d) ==
  /\ running' = FALSE
  /\ UNCHANGED <<target, navStatus, area>>

\* The destination is not looked at: the comparison with the current target
\* is commented out.
halt(d) ==
  /\ running' = FALSE
  /\ navStatus' = IF running THEN "idle" ELSE navStatus
  /\ UNCHANGED <<target, area>>

-----------------------------------------------------------------------------
(* The navigation server.                                                  *)

\* The robot leaves the area it started in.
Leave ==
  /\ navStatus = "moving"
  /\ area' = Nowhere
  /\ UNCHANGED <<running, target, navStatus>>

Arrive ==
  /\ navStatus = "moving"
  /\ navStatus' = "goal_reached"
  /\ area' = target
  /\ UNCHANGED <<running, target>>

Abort ==
  /\ navStatus = "moving"
  /\ navStatus' = "aborted"
  /\ UNCHANGED <<running, target, area>>

\* The server returns to idle after a goal it has reached.
Settle ==
  /\ navStatus = "goal_reached"
  /\ navStatus' = "idle"
  /\ UNCHANGED <<running, target, area>>

Navigate ==
  \/ Leave
  \/ Arrive
  \/ Abort
  \/ Settle

=============================================================================
