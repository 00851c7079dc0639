----------------------------- MODULE GoToSystem -----------------------------
(***************************************************************************)
(* The GoTo skills with the components they call and the behaviour tree    *)
(* that commands them.  The nodes of the tree are YARPAction objects; one  *)
(* thread ticks them.  The conditions of the tree are left open: any node  *)
(* may be ticked next and any running node halted, except that the control *)
(* nodes of release3_BT.xml, all reactive, halt the other running node     *)
(* once a newly ticked one is running, before they tick a third time.      *)
(*                                                                         *)
(* The blackboard starts empty and serves while it reads its file; its     *)
(* operator commands are not issued while the skills run.                  *)
(***************************************************************************)
EXTENDS GoToSkill

CONSTANTS
  MaxQueue,   \* bound on the external queue of a skill that is sent a command
  MaxStale    \* bound on the timers of one kind left over when it is started

ASSUME BoundsAssumption == MaxQueue \in Nat /\ MaxStale \in Nat

\* entries.ini: navigation has one unit.
ASSUME EntriesAssumption ==
  Entries[Navigation].value = [type |-> Int32, datum |-> 1]

VARIABLES
  running_nodes,  \* the nodes whose status is RUNNING: the ones halt reaches
  ticking         \* the skill whose node the tree waits for in tick(), or NoSkill

btVars == <<running_nodes, ticking>>
vars == <<bbVars, navVars, skillVars, btVars>>

TypeOK ==
  /\ BlackboardTypeOK
  /\ GoToTypeOK
  /\ SkillTypeOK
  /\ running_nodes \subseteq Skills
  /\ ticking \in Skills \cup {NoSkill}

Init ==
  /\ BlackboardInit
  /\ GoToInit
  /\ SkillInit
  /\ running_nodes = {}
  /\ ticking = NoSkill

-----------------------------------------------------------------------------
(* The tree.                                                               *)

\* request_ack: the bt_status of the active state.  The CMD_OK event it also
\* submits is matched by no transition of this statechart and is left out.
request_ack(s) ==
  CASE state[s] = "idle" -> "IDLE"
    [] state[s] = "success" -> "SUCCESS"
    [] state[s] = "failure" -> "FAILURE"
    [] OTHER -> "RUNNING"

Admits(s) == Len(externalQueue[s]) < MaxQueue

\* YARPNode::tick up to its sleep.
Tick(s) ==
  /\ ticking = NoSkill
  /\ \A c, d \in running_nodes : c = d
  /\ ticking' = s
  /\ IF request_ack(s) = "IDLE"
     THEN /\ Admits(s) /\ \A e \in Timed : timers[s][e] <= MaxStale
          /\ Command(s, "CMD_START")
     ELSE UNCHANGED skillVars
  /\ UNCHANGED <<bbVars, navVars, running_nodes>>

\* The rest of YARPNode::tick, at the poll that does not answer IDLE.
Return(s) ==
  /\ ticking = s
  /\ request_ack(s) # "IDLE"
  /\ running_nodes' = IF request_ack(s) = "RUNNING" THEN running_nodes \cup {s}
                                                   ELSE running_nodes \ {s}
  /\ ticking' = NoSkill
  /\ UNCHANGED <<bbVars, navVars, skillVars>>

\* The while loop of YARPNode::tick.
Poll(s) ==
  /\ ticking = s
  /\ request_ack(s) = "IDLE"
  /\ UNCHANGED vars

\* A control node halts a child that is running; YARPAction::halt.
Halt(s) ==
  /\ ticking = NoSkill
  /\ s \in running_nodes
  /\ Admits(s)
  /\ Command(s, "CMD_STOP")
  /\ running_nodes' = running_nodes \ {s}
  /\ UNCHANGED <<bbVars, navVars, ticking>>

-----------------------------------------------------------------------------

StartBlackboard ==
  /\ \/ \E k \in Keys : parseEntry(k)
     \/ /\ \A k \in Keys : m_initialization_values[k] # NoEntry
        /\ \A k \in Keys : ~Stored(k)   \* init calls it once
        /\ resetData
  /\ UNCHANGED <<navVars, skillVars, btVars>>

Move == Navigate /\ UNCHANGED <<bbVars, skillVars, btVars>>

React(s) == (Follow(s) \/ Discard(s)) /\ UNCHANGED btVars

Timeout(s) == (\E e \in Timed : Fire(s, e)) /\ UNCHANGED btVars

Skill(s) == React(s) \/ Timeout(s)

Tree(s) == Tick(s) \/ Return(s) \/ Poll(s) \/ Halt(s)

Next ==
  \/ StartBlackboard
  \/ Move
  \/ \E s \in Skills : Skill(s) \/ Tree(s)

Spec == Init /\ [][Next]_vars

-----------------------------------------------------------------------------
(* Fairness.  The event loop of a skill takes events as long as there are  *)
(* some, timers fire, the blackboard finishes its start, and the           *)
(* navigation server brings a movement to an end.  The tree owes nothing:  *)
(* it may stop ticking.                                                    *)

FairSpec ==
  /\ Spec
  /\ WF_vars(StartBlackboard)
  /\ WF_vars((Arrive \/ Abort) /\ UNCHANGED <<bbVars, skillVars, btVars>>)
  /\ \A s \in Skills : WF_vars(React(s)) /\ WF_vars(Timeout(s))

-----------------------------------------------------------------------------
(* Properties.                                                             *)

Units == m_storage[Navigation].value.datum

Holds(s) == resourceCount[s] > 0

\* The unit of entries.ini is never lost and never doubled: it is either in
\* the store or with exactly one skill, in every state in between the four
\* requests of any skill and under CMD_STOP at any point of them.
UnitConserved ==
  IF Stored(Navigation) /\ Units > 0
  THEN Units = 1 /\ \A s \in Skills : resourceCount[s] = 0
  ELSE Stored(Navigation) =>
         /\ Units = 0
         /\ \E s \in Skills : /\ resourceCount[s] = 1
                              /\ \A c \in Skills \ {s} : resourceCount[c] = 0

\* Two skills never command the robot at a time.
OneSkillDrives ==
  \A s, c \in Skills : state[s] \in Driving /\ state[c] \in Driving => s = c

\* A skill at rest, from the tree's point of view, keeps neither the lock of
\* the blackboard nor the unit: nothing it left behind blocks another skill.
RestingHoldsNothing ==
  \A s \in Skills : state[s] \in Resting => ~Owns(s, Navigation) /\ ~Holds(s)

\* The statecharts and the blackboard implement the arbiter of the unit: the
\* unit changes hands, and a skill starts or stops to command the robot, in
\* steps NavigationUnit allows, one at a time.
Unit == INSTANCE NavigationUnit WITH
  holders <- {s \in Skills : Holds(s)},
  drivers <- {s \in Skills : state[s] \in Driving}

ImplementsNavigationUnit == Unit!Spec

\* The robot moves only to the location of a skill that holds the unit.
RobotMovesForHolder ==
  navStatus = "moving" => Holds(target)

\* The tree takes a SUCCESS only from a node it knows to be running: "SKILL_SUCCESS
\* indicates that the node has completed running during this time step"
\* (BT_wrappers.thrift:11).
SuccessIsOfThisRun ==
  [][\A s \in Skills :
       Tick(s) /\ request_ack(s) = "SUCCESS" => s \in running_nodes]_vars

\* A skill that owns the lock of the blackboard gives it back, wherever it is
\* stopped.
LockReleased ==
  \A s \in Skills : Owns(s, Navigation) ~> ~Owns(s, Navigation)

\* Other skills take the lock again and again: one that waits for the unit
\* does so without a pause.  Nothing in the code then bounds how often lock is
\* refused to this skill.
Contended(s) == []<>(\E c \in Skills \ {s} : Owns(c, Navigation))

\* A skill that holds the unit, or whose stop the statechart has accepted,
\* comes to rest (and then holds nothing, RestingHoldsNothing), by success,
\* failure or stop, unless it is refused the lock for ever by the others.
ComesToRest ==
  \A s \in Skills :
    \/ Holds(s) \/ state[s] \in Stopping \cup {"internal_unlockKey"} ~> state[s] \in Resting
    \/ Contended(s)

=============================================================================
