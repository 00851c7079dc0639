---------------------------- MODULE BehaviorTree ----------------------------
(***************************************************************************)
(* The behaviour tree release3_BT.xml, as BehaviorTree.CPP runs it:        *)
(*                                                                         *)
(*   ReactiveSequence                                                      *)
(*     ReactiveFallback                                                    *)
(*       ReactiveSequence  BatteryLevel, BatteryNotCharging                *)
(*       ReactiveSequence                                                  *)
(*         ReactiveFallback  IsAtChargingStation, GoToChargingStation      *)
(*         Wait                                                            *)
(*     ReactiveFallback  IsAtDestination, GoToDestination                  *)
(*                                                                         *)
(* A tick visits the leaves one after the other, so that the world may     *)
(* change between two of them.  A reactive node starts from its first      *)
(* child every time; when it is decided it halts the children that the     *)
(* library remembers as RUNNING.  halt() of an action sends CMD_STOP.      *)
(* The tick of a leaf asks its skill twice, with whatever happens between. *)
(***************************************************************************)
EXTENDS FiniteSets

VARIABLES
  leaf,       \* the leaf to visit next; "rest" between two ticks
  asked,      \* whether its tick has the answer of its first request_ack
  running_    \* the leaves that the library remembers as RUNNING

treeVars == <<leaf, asked, running_>>

Actions == {"GoToChargingStation", "GoToDestination"}
ConditionLeaves == {"BatteryLevel", "BatteryNotCharging", "IsAtChargingStation", "IsAtDestination"}
Leaves == Actions \cup ConditionLeaves \cup {"Wait"}

TreeTypeOK ==
  /\ leaf \in Leaves \cup {"rest"}
  /\ asked \in BOOLEAN
  /\ running_ \subseteq Actions \cup {"Wait"}

TreeInit == leaf = "rest" /\ asked = FALSE /\ running_ = {}

\* The loop of main: one tick after the other.
BeginTick ==
  /\ leaf = "rest"
  /\ leaf' = "BatteryLevel"
  /\ UNCHANGED <<asked, running_>>

ChargingBranch == {"GoToChargingStation", "Wait"}
MissionBranch  == {"GoToDestination"}

\* The leaf visited after l has returned r: the next one of the same traversal,
\* or "rest" when the root is decided.
NextLeaf(l, r) ==
  CASE l = "BatteryLevel"        -> IF r = "SUCCESS" THEN "BatteryNotCharging"
                                                     ELSE "IsAtChargingStation"
    [] l = "BatteryNotCharging"  -> IF r = "SUCCESS" THEN "IsAtDestination"
                                                     ELSE "IsAtChargingStation"
    [] l = "IsAtChargingStation" -> IF r = "SUCCESS" THEN "Wait" ELSE "GoToChargingStation"
    [] l = "GoToChargingStation" -> IF r = "SUCCESS" THEN "Wait" ELSE "rest"
    [] l = "IsAtDestination"     -> IF r = "SUCCESS" THEN "rest" ELSE "GoToDestination"
    [] OTHER                     -> "rest"

\* Mutant: the charging branch does not halt the mission.
HaltedKeepsMission(l, r) ==
  CASE l = "BatteryNotCharging" /\ r = "SUCCESS"  -> ChargingBranch
    [] l = "IsAtChargingStation" /\ r = "SUCCESS" -> {"GoToChargingStation"}
    [] OTHER                                      -> {}

\* The leaves that the decided control nodes halt then, if they are RUNNING.
Halted(l, r) ==
  CASE l = "BatteryNotCharging" /\ r = "SUCCESS"  -> ChargingBranch
    [] l = "IsAtChargingStation" /\ r = "SUCCESS" -> {"GoToChargingStation"}
    [] l = "GoToChargingStation" /\ r # "SUCCESS" -> MissionBranch \cup {"Wait"}
    [] l = "Wait"                                 -> MissionBranch
    [] l = "IsAtDestination" /\ r = "SUCCESS"     -> MissionBranch
    [] OTHER                                      -> {}

\* YARPNode::tick asks for the first time.
Ask(l) ==
  /\ leaf = l
  /\ ~asked
  /\ asked' = TRUE
  /\ UNCHANGED <<leaf, running_>>

\* Leaf l returns r; stopped are the leaves whose halt() is called.
Visit(l, r, stopped) ==
  /\ leaf = l
  /\ leaf' = NextLeaf(l, r)
  /\ asked' = FALSE
  /\ stopped = Halted(l, r) \cap running_
  /\ running_' = ((IF r = "RUNNING" THEN running_ \cup {l} ELSE running_ \ {l}) \ stopped)
=============================================================================
