------------------------------ MODULE GoToSkill ------------------------------
(***************************************************************************)
(* The GoTo skill: the statechart GoToSkillStateMachine.scxml, once per    *)
(* element of Skills, run by the Qt SCXML interpreter.  A skill takes the  *)
(* unit of the resource Navigation from the blackboard (lock, read, write, *)
(* unlock), drives to its location, and gives the unit back on success, on *)
(* failure and on CMD_STOP.                                                *)
(*                                                                         *)
(* A step of a skill takes one event from its queues and, when the current *)
(* state has an enabled transition for it, enters the target state and     *)
(* executes its onentry script; otherwise the event is lost.  An onentry   *)
(* makes one call to another component, which is atomic there, so the step *)
(* as a whole is one action.  The internal queue is served first; an event *)
(* with a delay is a timer, and leaving the state that started it does not *)
(* cancel it.                                                              *)
(***************************************************************************)
EXTENDS Blackboard, GoToComponent, Sequences

CONSTANT Navigation    \* the key of the resource in the blackboard

ASSUME NavigationAssumption ==
  /\ Navigation \in Keys
  /\ Locations = Skills   \* each instance is started with its own location

VARIABLES
  state,          \* the active state
  internalQueue,  \* raised events
  externalQueue,  \* sent events and commands
  timers,         \* delayed events that have not fired: event -> how many
  currVal, resourceCount,
  reply           \* what the call of the active state's onentry answered

skillVars == <<state, internalQueue, externalQueue, timers, currVal, resourceCount, reply>>

\* reply stands for retDataBool, retDataInt32 and retGoToStatus: the cond of a
\* transition reads the one that the onentry of its own state has assigned.
Reply == requestEvaluation \cup GoToStatus \cup {"NONE"}

-----------------------------------------------------------------------------
(* The states, grouped by what their onentry does.                         *)

Locking   == {"lockKey", "lockKey_1", "lockKey_2", "lockKey_3", "internal_lockKey"}
Reading   == {"readData", "readData_1", "readData_2", "readData_3", "internal_readData"}
Taking    == {"writeData"}
Releasing == {"writeData_1", "writeData_2", "writeData_3", "internal_writeData"}
RollingBack == {"rollback_writeData"}
Unlocking == {"unlockKey", "unlockKey_1", "unlockKey_2", "unlockKey_3",
              "unlockBusy", "internal_unlockKey"}
Stopping  == {"halted", "internal_halted"}
Driving   == {"sendrequest", "getstatus"}
Resting   == {"idle", "success", "failure", "wrongKey"}

States == Locking \cup Reading \cup Taking \cup Releasing \cup RollingBack
            \cup Unlocking \cup Stopping \cup Driving \cup Resting \cup {"checkResource"}

Timed  == {"LOCK_FALSE", "REQUEST_SENT", "STATUS_RUNNING", "UNLOCK_TRUE", "RESET"}
Events == Timed \cup
  {"CMD_START", "CMD_STOP", "LOCK_TRUE", "INVALID_KEY", "DATA_READ",
   "DATA_EQUAL_ZERO", "DATA_GREATER_THAN_ZERO", "WRITE_DATA_TRUE", "UNLOCK_FALSE",
   "UNLOCK_BUSY_TRUE", "UNLOCK_BUSY_FALSE", "TO_CHECK_RESOURCE", "FREE_UP",
   "TO_IDLE", "STATUS_SUCCESS", "STATUS_FAILED"}

SkillTypeOK ==
  /\ state \in [Skills -> States]
  /\ internalQueue \in [Skills -> Seq(Events)]
  /\ externalQueue \in [Skills -> Seq(Events)]
  /\ timers \in [Skills -> [Timed -> Nat]]
  /\ currVal \in [Skills -> Int]
  /\ resourceCount \in [Skills -> Int]
  /\ reply \in [Skills -> Reply]

SkillInit ==
  /\ state = [s \in Skills |-> "idle"]
  /\ internalQueue = [s \in Skills |-> <<>>]
  /\ externalQueue = [s \in Skills |-> <<>>]
  /\ timers = [s \in Skills |-> [e \in Timed |-> 0]]
  /\ currVal = [s \in Skills |-> 0]
  /\ resourceCount = [s \in Skills |-> 0]
  /\ reply = [s \in Skills |-> "NONE"]

-----------------------------------------------------------------------------
(* The transitions: <<state, event, target>>.                              *)

Transitions == {
  \* take the unit
  <<"idle", "CMD_START", "lockKey">>,
  <<"lockKey", "LOCK_FALSE", "lockKey">>,
  <<"lockKey", "LOCK_TRUE", "readData">>,
  <<"lockKey", "INVALID_KEY", "wrongKey">>,
  <<"readData", "DATA_EQUAL_ZERO", "unlockBusy">>,
  <<"readData", "DATA_GREATER_THAN_ZERO", "writeData">>,
  <<"unlockBusy", "UNLOCK_BUSY_TRUE", "lockKey">>,
  <<"unlockBusy", "UNLOCK_BUSY_FALSE", "unlockBusy">>,
  <<"writeData", "WRITE_DATA_TRUE", "unlockKey">>,
  <<"unlockKey", "UNLOCK_FALSE", "unlockKey">>,
  <<"unlockKey", "UNLOCK_TRUE", "sendrequest">>,
  \* drive
  <<"sendrequest", "REQUEST_SENT", "getstatus">>,
  <<"getstatus", "STATUS_RUNNING", "getstatus">>,
  <<"getstatus", "STATUS_SUCCESS", "lockKey_2">>,
  <<"getstatus", "STATUS_FAILED", "lockKey_1">>,
  \* give the unit back: _1 after a failure, _2 after a success, _3 when halted
  <<"lockKey_1", "LOCK_FALSE", "lockKey_1">>,
  <<"lockKey_1", "LOCK_TRUE", "readData_1">>,
  <<"readData_1", "DATA_READ", "writeData_1">>,
  <<"writeData_1", "WRITE_DATA_TRUE", "unlockKey_1">>,
  <<"unlockKey_1", "UNLOCK_FALSE", "unlockKey_1">>,
  <<"unlockKey_1", "UNLOCK_TRUE", "failure">>,
  <<"lockKey_2", "LOCK_FALSE", "lockKey_2">>,
  <<"lockKey_2", "LOCK_TRUE", "readData_2">>,
  <<"readData_2", "DATA_READ", "writeData_2">>,
  <<"writeData_2", "WRITE_DATA_TRUE", "unlockKey_2">>,
  <<"unlockKey_2", "UNLOCK_FALSE", "unlockKey_2">>,
  <<"unlockKey_2", "UNLOCK_TRUE", "success">>,
  <<"halted", "RESET", "checkResource">>,
  <<"checkResource", "FREE_UP", "lockKey_3">>,
  <<"checkResource", "TO_IDLE", "idle">>,
  <<"lockKey_3", "LOCK_FALSE", "lockKey_3">>,
  <<"lockKey_3", "LOCK_TRUE", "readData_3">>,
  <<"readData_3", "DATA_READ", "writeData_3">>,
  <<"writeData_3", "WRITE_DATA_TRUE", "unlockKey_3">>,
  <<"unlockKey_3", "UNLOCK_FALSE", "unlockKey_3">>,
  <<"unlockKey_3", "UNLOCK_TRUE", "idle">>,
  <<"unlockKey_3", "TO_CHECK_RESOURCE", "checkResource">>,
  \* stopped in the middle of taking the unit or of giving it back
  <<"readData", "CMD_STOP", "internal_unlockKey">>,
  <<"writeData", "CMD_STOP", "rollback_writeData">>,
  <<"lockKey_1", "CMD_STOP", "internal_lockKey">>,
  <<"lockKey_2", "CMD_STOP", "internal_lockKey">>,
  <<"readData_1", "CMD_STOP", "internal_readData">>,
  <<"readData_2", "CMD_STOP", "internal_readData">>,
  <<"writeData_1", "CMD_STOP", "internal_unlockKey">>,
  <<"writeData_2", "CMD_STOP", "internal_unlockKey">>,
  <<"internal_lockKey", "LOCK_FALSE", "internal_lockKey">>,
  <<"internal_lockKey", "LOCK_TRUE", "internal_readData">>,
  <<"internal_readData", "DATA_READ", "internal_writeData">>,
  <<"internal_writeData", "WRITE_DATA_TRUE", "internal_unlockKey">>,
  <<"rollback_writeData", "WRITE_DATA_TRUE", "internal_unlockKey">>,
  <<"internal_unlockKey", "UNLOCK_FALSE", "internal_unlockKey">>,
  <<"internal_unlockKey", "UNLOCK_TRUE", "internal_halted">>,
  <<"internal_halted", "RESET", "idle">>,
  \* stopped while driving or at rest, or restarted
  <<"sendrequest", "CMD_STOP", "halted">>,
  <<"getstatus", "CMD_STOP", "halted">>,
  <<"success", "CMD_STOP", "halted">>,
  <<"failure", "CMD_STOP", "halted">>,
  <<"wrongKey", "CMD_STOP", "internal_halted">>,
  <<"success", "CMD_START", "idle">>,
  <<"failure", "CMD_START", "idle">>,
  <<"wrongKey", "CMD_START", "idle">>}

\* The cond of a transition compares the reply with what the event announces;
\* internal_unlockKey is the state that does not.
Confirmed(s, e) ==
  \/ state[s] = "internal_unlockKey"
  \/ CASE e \in {"LOCK_TRUE", "UNLOCK_BUSY_TRUE", "WRITE_DATA_TRUE", "DATA_READ"} -> reply[s] = "VALID"
       [] e \in {"UNLOCK_FALSE", "UNLOCK_BUSY_FALSE"} -> reply[s] # "VALID"
       [] e = "LOCK_FALSE" -> IF state[s] = "lockKey" THEN reply[s] = "UNAUTHORIZED_CLIENT"
                                                      ELSE reply[s] # "VALID"
       [] e = "INVALID_KEY" -> reply[s] = "INVALID_KEY"
       [] e = "UNLOCK_TRUE" ->
            reply[s] = "VALID" /\ (state[s] = "unlockKey_3" => resourceCount[s] = 0)
       [] e = "TO_CHECK_RESOURCE" -> reply[s] = "VALID" /\ resourceCount[s] > 0
       [] e = "DATA_EQUAL_ZERO" -> reply[s] = "VALID" /\ currVal[s] = 0
       [] e = "DATA_GREATER_THAN_ZERO" -> reply[s] = "VALID" /\ currVal[s] > 0
       [] e = "FREE_UP" -> resourceCount[s] > 0
       [] e = "TO_IDLE" -> resourceCount[s] = 0
       [] e = "STATUS_RUNNING" -> reply[s] = "RUNNING"
       [] e = "STATUS_SUCCESS" -> reply[s] = "SUCCESS"
       [] e = "STATUS_FAILED" -> reply[s] \in {"ABORT", "NOT_STARTED"}
       [] OTHER -> TRUE

-----------------------------------------------------------------------------
(* The interpreter's queues.                                               *)

HasEvent(s) == internalQueue[s] # <<>> \/ externalQueue[s] # <<>>

Event(s) == IF internalQueue[s] # <<>> THEN Head(internalQueue[s])
                                       ELSE Head(externalQueue[s])

\* The event is taken from its queue; the onentry raises the events int,
\* sends the events ext and starts a timer for each event of late.
Consume(s, int, ext, late) ==
  /\ internalQueue' = [internalQueue EXCEPT ![s] = (IF @ # <<>> THEN Tail(@) ELSE @) \o int]
  /\ externalQueue' = [externalQueue EXCEPT ![s] =
                         (IF internalQueue[s] # <<>> THEN @ ELSE Tail(@)) \o ext]
  /\ timers' = [timers EXCEPT ![s] = [e \in Timed |-> IF e \in late THEN @[e] + 1 ELSE @[e]]]

Raise(s, e) == Consume(s, <<e>>, <<>>, {})
Send(s, e)  == Consume(s, <<>>, <<e>>, {})
Delay(s, e) == Consume(s, <<>>, <<>>, {e})
Quiet(s)    == Consume(s, <<>>, <<>>, {})

\* Mutant: a timer fires although it is not pending.
FireAgain(s, e) ==
  /\ timers' = [timers EXCEPT ![s][e] = @ - 1]
  /\ externalQueue' = [externalQueue EXCEPT ![s] = Append(@, e)]
  /\ UNCHANGED <<state, internalQueue, currVal, resourceCount, reply>>
  /\ UNCHANGED <<bbVars, navVars>>

\* A timer fires.  REQUEST_SENT is submitted with the type InternalEvent.
Fire(s, e) ==
  /\ timers[s][e] > 0
  /\ timers' = [timers EXCEPT ![s][e] = @ - 1]
  /\ IF e = "REQUEST_SENT"
     THEN /\ internalQueue' = [internalQueue EXCEPT ![s] = Append(@, e)]
          /\ UNCHANGED externalQueue
     ELSE /\ externalQueue' = [externalQueue EXCEPT ![s] = Append(@, e)]
          /\ UNCHANGED internalQueue
  /\ UNCHANGED <<state, currVal, resourceCount, reply>>
  /\ UNCHANGED <<bbVars, navVars>>

-----------------------------------------------------------------------------
(* The onentry scripts.                                                    *)

\* lockKey and lockKey_3 try again after 500 ms, the others at once; only
\* lockKey tells an unknown key from a locked one.
EnterLocking(s, st) ==
  /\ st \in Locking
  /\ \E r \in requestEvaluation :
       /\ lock(s, Navigation, r)
       /\ reply' = [reply EXCEPT ![s] = r]
       /\ \/ r = "VALID" /\ Send(s, "LOCK_TRUE")
          \/ r # "VALID" /\ st \in Locking \ {"lockKey", "lockKey_3"} /\ Send(s, "LOCK_FALSE")
          \/ r # "VALID" /\ st = "lockKey_3" /\ Delay(s, "LOCK_FALSE")
          \/ r = "UNAUTHORIZED_CLIENT" /\ st = "lockKey" /\ Delay(s, "LOCK_FALSE")
          \/ r \notin {"VALID", "UNAUTHORIZED_CLIENT"} /\ st = "lockKey" /\ Send(s, "INVALID_KEY")
  /\ UNCHANGED <<navVars, currVal, resourceCount>>

\* A read that fails sends no event; readData alone forgets the old value.
EnterReading(s, st) ==
  /\ st \in Reading
  /\ \E r \in requestEvaluation : \E v \in Numbers :
       /\ readData(s, Navigation, Int32, r, v)
       /\ reply' = [reply EXCEPT ![s] = r]
       /\ currVal' = [currVal EXCEPT ![s] = IF r = "VALID" THEN v
                                            ELSE IF st = "readData" THEN -1 ELSE @]
       /\ \/ r = "VALID" /\ st # "readData" /\ Send(s, "DATA_READ")
          \/ r = "VALID" /\ st = "readData" /\ v = 0 /\ Send(s, "DATA_EQUAL_ZERO")
          \/ r = "VALID" /\ st = "readData" /\ v > 0 /\ Send(s, "DATA_GREATER_THAN_ZERO")
          \/ r = "VALID" /\ st = "readData" /\ v < 0 /\ Quiet(s)
          \/ r # "VALID" /\ Quiet(s)
  /\ UNCHANGED <<navVars, resourceCount>>

\* Writes v; a write that fails sends no event and counts nothing.
Write(s, v, taken, newVal) ==
  /\ \E r \in requestEvaluation :
       /\ writeData(s, Navigation, Int32, v, r)
       /\ reply' = [reply EXCEPT ![s] = r]
       /\ \/ /\ r = "VALID"
             /\ resourceCount' = [resourceCount EXCEPT ![s] = @ + taken]
             /\ currVal' = [currVal EXCEPT ![s] = newVal]
             /\ Send(s, "WRITE_DATA_TRUE")
          \/ /\ r # "VALID"
             /\ UNCHANGED <<resourceCount, currVal>>
             /\ Quiet(s)
  /\ UNCHANGED navVars

EnterTaking(s, st) ==
  st \in Taking /\ Write(s, currVal[s] - 1, 1, currVal[s] - 1)

EnterReleasing(s, st) ==
  st \in Releasing /\ Write(s, currVal[s] + 1, -1, currVal[s])

\* Mutant: the unit is put back and still counted.
EnterRollingBackUncounted(s, st) ==
  st \in RollingBack /\ Write(s, currVal[s] + 1, 0, currVal[s] + 1)

EnterRollingBack(s, st) ==
  st \in RollingBack /\ Write(s, currVal[s] + 1, -1, currVal[s] + 1)

\* How the other states tell what unlock has answered.
Unlocked(s, st, r) ==
  IF st = "unlockBusy" THEN IF r = "VALID" THEN "UNLOCK_BUSY_TRUE" ELSE "UNLOCK_BUSY_FALSE"
  ELSE IF r # "VALID" THEN "UNLOCK_FALSE"
  ELSE IF st = "unlockKey_3" /\ resourceCount[s] # 0 THEN "TO_CHECK_RESOURCE"
  ELSE "UNLOCK_TRUE"

\* internal_unlockKey keeps the reply in a local variable, raises the
\* refusal and posts the success through a zero timer.
EnterUnlocking(s, st) ==
  /\ st \in Unlocking
  /\ \E r \in requestEvaluation :
       /\ unlock(s, Navigation, r)
       /\ reply' = [reply EXCEPT ![s] = r]
       /\ \/ st = "internal_unlockKey" /\ r = "VALID" /\ Delay(s, "UNLOCK_TRUE")
          \/ st = "internal_unlockKey" /\ r # "VALID" /\ Raise(s, "UNLOCK_FALSE")
          \/ st # "internal_unlockKey" /\ Send(s, Unlocked(s, st, r))
  /\ UNCHANGED <<navVars, currVal, resourceCount>>

\* Both halt the robot, whether or not this skill has set it in motion.
EnterStopping(s, st) ==
  /\ st \in Stopping
  /\ halt(s)
  /\ \/ st = "halted" /\ Raise(s, "RESET")
     \/ st = "internal_halted" /\ Delay(s, "RESET")
  /\ reply' = [reply EXCEPT ![s] = "NONE"]
  /\ UNCHANGED <<bbVars, currVal, resourceCount>>

EnterSendrequest(s, st) ==
  /\ st = "sendrequest"
  /\ goTo(s)
  /\ Delay(s, "REQUEST_SENT")
  /\ reply' = [reply EXCEPT ![s] = "NONE"]
  /\ UNCHANGED <<bbVars, currVal, resourceCount>>

EnterGetstatus(s, st) ==
  /\ st = "getstatus"
  /\ \E r \in GoToStatus :
       /\ getStatus(s, r)
       /\ reply' = [reply EXCEPT ![s] = r]
       /\ \/ r = "RUNNING" /\ Delay(s, "STATUS_RUNNING")
          \/ r = "SUCCESS" /\ Send(s, "STATUS_SUCCESS")
          \/ r \in {"ABORT", "NOT_STARTED"} /\ Send(s, "STATUS_FAILED")
  /\ UNCHANGED <<bbVars, currVal, resourceCount>>

EnterCheckResource(s, st) ==
  /\ st = "checkResource"
  /\ Send(s, IF resourceCount[s] = 0 THEN "TO_IDLE" ELSE "FREE_UP")
  /\ reply' = [reply EXCEPT ![s] = "NONE"]
  /\ UNCHANGED <<bbVars, navVars, currVal, resourceCount>>

EnterResting(s, st) ==
  /\ st \in Resting
  /\ Quiet(s)
  /\ reply' = [reply EXCEPT ![s] = "NONE"]
  /\ UNCHANGED <<bbVars, navVars, currVal, resourceCount>>

Enter(s, st) ==
  \/ EnterLocking(s, st)
  \/ EnterReading(s, st)
  \/ EnterTaking(s, st)
  \/ EnterReleasing(s, st)
  \/ EnterRollingBack(s, st)
  \/ EnterUnlocking(s, st)
  \/ EnterStopping(s, st)
  \/ EnterSendrequest(s, st)
  \/ EnterGetstatus(s, st)
  \/ EnterCheckResource(s, st)
  \/ EnterResting(s, st)

-----------------------------------------------------------------------------
(* A step of the interpreter.                                              *)

\* Mutant: readData stopped goes straight to internal_halted.
SuccessorsKeepLock == [st \in States |-> [e \in Events |->
  IF st = "readData" /\ e = "CMD_STOP" THEN {"internal_halted"}
  ELSE {to \in States : <<st, e, to>> \in Transitions}]]

\* Mutant: readData has no transition for a resource that is taken.
SuccessorsBusyStuck == [st \in States |-> [e \in Events |->
  IF e = "DATA_EQUAL_ZERO" THEN {}
  ELSE {to \in States : <<st, e, to>> \in Transitions}]]

\* Mutant: checkResource has no transition for a skill without a unit.
SuccessorsIdleMissing == [st \in States |-> [e \in Events |->
  IF e = "TO_IDLE" THEN {}
  ELSE {to \in States : <<st, e, to>> \in Transitions}]]

\* Mutant: a failure is answered with a new request, without the unit.
SuccessorsRetry == [st \in States |-> [e \in Events |->
  IF st = "unlockKey_1" /\ e = "UNLOCK_TRUE" THEN {"sendrequest"}
  ELSE {to \in States : <<st, e, to>> \in Transitions}]]

Successors == [st \in States |-> [e \in Events |->
                 {to \in States : <<st, e, to>> \in Transitions}]]

\* Mutant: getstatus takes NOT_STARTED for no failure.
TargetsNotStarted(s) ==
  IF (state[s] = "getstatus" /\ reply[s] = "NOT_STARTED") \/ ~Confirmed(s, Event(s))
  THEN {} ELSE Successors[state[s]][Event(s)]

Targets(s) == IF Confirmed(s, Event(s)) THEN Successors[state[s]][Event(s)] ELSE {}

Follow(s) ==
  /\ HasEvent(s)
  /\ \E st \in Targets(s) :
       /\ state' = [state EXCEPT ![s] = st]
       /\ Enter(s, st)

Discard(s) ==
  /\ HasEvent(s)
  /\ Targets(s) = {}
  /\ Quiet(s)
  /\ UNCHANGED <<state, currVal, resourceCount, reply>>
  /\ UNCHANGED <<bbVars, navVars>>

\* A command arrives on the RPC thread and is queued behind the other events:
\* send_stop passes HighPriority as the data of the event.
Command(s, e) ==
  /\ externalQueue' = [externalQueue EXCEPT ![s] = Append(@, e)]
  /\ UNCHANGED <<state, internalQueue, timers, currVal, resourceCount, reply>>

=============================================================================
