-------------------------- MODULE GoToSystemProofs --------------------------
(***************************************************************************)
(* The unit of the resource Navigation under any number of GoTo skills,    *)
(* any data and any sequence of commands of the tree.                      *)
(*                                                                         *)
(* The invariant says nothing of what is in the queues: events outlive the *)
(* state that sent them, and the argument is that the reply a state keeps, *)
(* which its transitions compare with the event, makes a late one harmless.*)
(***************************************************************************)
EXTENDS GoToSystem, SequenceTheorems, TLAPS

\* The states of a skill that has written the smaller datum and not yet the
\* larger one.
Taken ==
  {"writeData", "unlockKey", "lockKey_1", "lockKey_2", "lockKey_3", "internal_lockKey",
   "readData_1", "readData_2", "readData_3", "internal_readData"} \cup Driving

\* The states in between lock and unlock.
Editing == Reading \cup Taking \cup Releasing \cup RollingBack

\* halted and checkResource serve a skill that has the unit and one that has
\* not: resourceCount is what tells them apart.
Counted ==
  \A s \in Skills :
    /\ resourceCount[s] \in {0, 1}
    /\ state[s] \in Taken => resourceCount[s] = 1
    /\ resourceCount[s] = 1 => state[s] \in Taken \cup {"halted", "checkResource"}

\* Who owns the lock can be told from the state and its reply.
LockKnown ==
  \A s \in Skills :
    Owns(s, Navigation) <=>
      \/ state[s] \in Editing
      \/ state[s] \in Locking /\ reply[s] = "VALID"

\* Requests of the owner are not refused.
Granted ==
  \A s \in Skills :
    state[s] \in Editing \cup (Unlocking \ {"internal_unlockKey"}) => reply[s] = "VALID"

\* What the owner has read is what is in the store until it writes.
Current ==
  \A s \in Skills :
    state[s] \in Reading \cup Taking => currVal[s] = Units

\* The store before and after the end of init.
StoreFilled ==
  /\ up
  /\ m_initialization_values[Navigation] \in {NoEntry, Entries[Navigation]}
  /\ Stored(Navigation) => m_storage[Navigation].value.type = Int32
  /\ ~Stored(Navigation) => \A s \in Skills : resourceCount[s] = 0

IInv ==
  /\ TypeOK
  /\ StoreFilled
  /\ Counted
  /\ LockKnown
  /\ Granted
  /\ Current
  /\ UnitConserved

\* The navigation server moves the robot only while the skill whose location
\* is the target follows the movement, and that skill is not told otherwise.
MoveFollowed ==
  /\ navStatus = "moving" => running /\ target \in Skills /\ state[target] \in Driving
  /\ \A s \in Skills :
       state[s] = "getstatus" /\ reply[s] # "RUNNING" => navStatus # "moving"

-----------------------------------------------------------------------------
(* The queues.                                                             *)

QueuesOK ==
  /\ internalQueue \in [Skills -> Seq(Events)]
  /\ externalQueue \in [Skills -> Seq(Events)]
  /\ timers \in [Skills -> [Timed -> Nat]]

\* A skill that has an event takes one of the statechart's events.
LEMMA EventIsEvent ==
  ASSUME QueuesOK, NEW s \in Skills, HasEvent(s)
  PROVE  Event(s) \in Events
BY HeadTailProperties DEF QueuesOK, HasEvent, Event

\* Taking an event and submitting others keeps the queues well formed.
LEMMA ConsumeKeepsQueues ==
  ASSUME QueuesOK, NEW s \in Skills, HasEvent(s),
         NEW int \in Seq(Events), NEW ext \in Seq(Events), NEW late \in SUBSET Timed,
         Consume(s, int, ext, late)
  PROVE  QueuesOK'
<1>1. /\ internalQueue[s] \in Seq(Events)
      /\ externalQueue[s] \in Seq(Events)
      /\ timers[s] \in [Timed -> Nat]
  BY DEF QueuesOK
<1>2. (IF internalQueue[s] # <<>> THEN Tail(internalQueue[s]) ELSE internalQueue[s]) \o int
        \in Seq(Events)
  BY <1>1, HeadTailProperties, ConcatProperties
<1>3. (IF internalQueue[s] # <<>> THEN externalQueue[s] ELSE Tail(externalQueue[s])) \o ext
        \in Seq(Events)
  BY <1>1, HeadTailProperties, ConcatProperties DEF HasEvent
<1>4. [e \in Timed |-> IF e \in late THEN timers[s][e] + 1 ELSE timers[s][e]]
        \in [Timed -> Nat]
  BY <1>1
<1> QED BY <1>2, <1>3, <1>4 DEF Consume, QueuesOK

\* What an onentry does to the queues.
Submits(s) ==
  \/ \E e \in Events : Raise(s, e) \/ Send(s, e)
  \/ \E e \in Timed : Delay(s, e)
  \/ Quiet(s)

\* So does any of the ways an onentry submits events.
LEMMA SubmitKeepsQueues ==
  ASSUME TypeOK, NEW s \in Skills, HasEvent(s), Submits(s)
  PROVE  QueuesOK'
<1>1. QueuesOK
  BY DEF TypeOK, SkillTypeOK, QueuesOK
<1>2. <<>> \in Seq(Events) /\ {} \in SUBSET Timed
  OBVIOUS
<1>3. ASSUME NEW e \in Events, Raise(s, e) PROVE QueuesOK'
  <2>1. <<e>> \in Seq(Events)
    OBVIOUS
  <2> QED BY <1>1, <1>2, <1>3, <2>1, ConsumeKeepsQueues DEF Raise
<1>4. ASSUME NEW e \in Events, Send(s, e) PROVE QueuesOK'
  <2>1. <<e>> \in Seq(Events)
    OBVIOUS
  <2> QED BY <1>1, <1>2, <1>4, <2>1, ConsumeKeepsQueues DEF Send
<1>5. ASSUME NEW e \in Timed, Delay(s, e) PROVE QueuesOK'
  <2>1. {e} \in SUBSET Timed
    OBVIOUS
  <2> QED BY <1>1, <1>2, <1>5, <2>1, ConsumeKeepsQueues DEF Delay
<1>6. CASE Quiet(s)
  BY <1>1, <1>2, <1>6, ConsumeKeepsQueues DEF Quiet
<1> QED BY <1>3, <1>4, <1>5, <1>6 DEF Submits

-----------------------------------------------------------------------------
(* Entering a state.  Arrival gathers what a transition tells of the skill *)
(* at the moment the onentry of its target runs.                           *)

Arrival(s, st) ==
  /\ st \in Locking => (resourceCount[s] = 1 <=> st # "lockKey")
  /\ st \in Reading => /\ Owns(s, Navigation)
                       /\ resourceCount[s] = 1 <=> st # "readData"
  /\ st \in Taking => /\ Owns(s, Navigation)
                      /\ resourceCount[s] = 0
                      /\ currVal[s] = Units
                      /\ currVal[s] > 0
  /\ st \in Releasing \cup RollingBack => /\ Owns(s, Navigation)
                                          /\ resourceCount[s] = 1
                                          /\ currVal[s] = Units
  /\ st \in Unlocking \ {"internal_unlockKey"} => /\ Owns(s, Navigation)
                                                  /\ resourceCount[s] = 1 <=> st = "unlockKey"
  /\ st \in Stopping \cup Driving \cup Resting \cup {"checkResource"}
       => ~Owns(s, Navigation)
  /\ st \in Driving => resourceCount[s] = 1
  /\ st \in Resting \cup {"internal_halted", "internal_unlockKey"} => resourceCount[s] = 0

\* What the table of transitions and their conditions tell of a skill that
\* follows one of them.
LEMMA TransitionArrives ==
  ASSUME IInv, NEW s \in Skills, NEW e \in Events, NEW st \in States,
         <<state[s], e, st>> \in Transitions, Confirmed(s, e)
  PROVE  Arrival(s, st)
<1>1. /\ resourceCount[s] \in {0, 1}
      /\ state[s] \in Taken => resourceCount[s] = 1
      /\ resourceCount[s] = 1 => state[s] \in Taken \cup {"halted", "checkResource"}
  BY DEF IInv, Counted
<1>2. Owns(s, Navigation) <=>
        state[s] \in Editing \/ (state[s] \in Locking /\ reply[s] = "VALID")
  BY DEF IInv, LockKnown
<1>3. state[s] \in Editing \cup (Unlocking \ {"internal_unlockKey"}) => reply[s] = "VALID"
  BY DEF IInv, Granted
<1>4. state[s] \in Reading \cup Taking => currVal[s] = Units
  BY DEF IInv, Current
<1> USE DEF Locking, Reading, Taking, Releasing, RollingBack, Unlocking, Stopping,
            Driving, Resting, Editing, Taken
<1>5. st \in Locking => (resourceCount[s] = 1 <=> st # "lockKey")
  BY <1>1, <1>3 DEF Transitions, Confirmed
<1>6. st \in Reading => /\ Owns(s, Navigation)
                        /\ resourceCount[s] = 1 <=> st # "readData"
  BY <1>1, <1>2, <1>3 DEF Transitions, Confirmed
<1>7. st \in Taking => /\ Owns(s, Navigation)
                       /\ resourceCount[s] = 0
                       /\ currVal[s] = Units
                       /\ currVal[s] > 0
  BY <1>1, <1>2, <1>3, <1>4 DEF Transitions, Confirmed
<1>8. st \in Releasing \cup RollingBack => /\ Owns(s, Navigation)
                                           /\ resourceCount[s] = 1
                                           /\ currVal[s] = Units
  BY <1>1, <1>2, <1>3, <1>4 DEF Transitions, Confirmed
<1>9. st \in Unlocking \ {"internal_unlockKey"} =>
        /\ Owns(s, Navigation)
        /\ resourceCount[s] = 1 <=> st = "unlockKey"
  BY <1>1, <1>2, <1>3 DEF Transitions, Confirmed
<1>10. st \in Stopping \cup Driving \cup Resting \cup {"checkResource"}
         => ~Owns(s, Navigation)
  BY <1>1, <1>2, <1>3 DEF Transitions, Confirmed
<1>11. st \in Driving => resourceCount[s] = 1
  BY <1>1, <1>3 DEF Transitions, Confirmed
<1>12. st \in Resting \cup {"internal_halted", "internal_unlockKey"} => resourceCount[s] = 0
  BY <1>1, <1>3 DEF Transitions, Confirmed
<1> HIDE DEF Locking, Reading, Taking, Releasing, RollingBack, Unlocking, Stopping,
             Driving, Resting, Editing, Taken
<1> QED BY <1>5, <1>6, <1>7, <1>8, <1>9, <1>10, <1>11, <1>12 DEF Arrival

\* A step into st, up to the effect of its onentry.
Entering(s, st) ==
  /\ IInv
  /\ HasEvent(s)
  /\ Arrival(s, st)
  /\ state' = [state EXCEPT ![s] = st]
  /\ UNCHANGED btVars

\* lock answers VALID to whom it makes or leaves the owner.
LEMMA LockingKeepsIInv ==
  ASSUME NEW s \in Skills, NEW st \in States, Entering(s, st), EnterLocking(s, st)
  PROVE  IInv'
<1> USE BlackboardAssumption, NavigationAssumption
<1>1. PICK r \in requestEvaluation :
        /\ lock(s, Navigation, r)
        /\ reply' = [reply EXCEPT ![s] = r]
        /\ \/ r = "VALID" /\ Send(s, "LOCK_TRUE")
           \/ r # "VALID" /\ st \in Locking \ {"lockKey", "lockKey_3"} /\ Send(s, "LOCK_FALSE")
           \/ r # "VALID" /\ st = "lockKey_3" /\ Delay(s, "LOCK_FALSE")
           \/ r = "UNAUTHORIZED_CLIENT" /\ st = "lockKey" /\ Delay(s, "LOCK_FALSE")
           \/ r \notin {"VALID", "UNAUTHORIZED_CLIENT"} /\ st = "lockKey" /\ Send(s, "INVALID_KEY")
  BY DEF EnterLocking
<1>2. st \in Locking /\ UNCHANGED <<navVars, currVal, resourceCount, btVars>>
  BY DEF EnterLocking, Entering
<1>3. IInv /\ state' = [state EXCEPT ![s] = st]
  BY DEF Entering
<1>4. QueuesOK'
  <2>1. Submits(s)
    BY <1>1 DEF Submits, Events, Timed
  <2> QED BY <1>3, <2>1, SubmitKeepsQueues DEF Entering, IInv
<1>5. /\ UNCHANGED <<m_initialization_values, up>>
      /\ m_storage \in [Keys -> Entry \cup {NoEntry}]
      /\ r # "VALID" => m_storage' = m_storage /\ ~Owns(s, Navigation)
      /\ r = "VALID" => /\ Stored(Navigation)
                        /\ m_storage[Navigation] \in Entry
                        /\ m_storage[Navigation].owner \in {NoSkill, s}
                        /\ m_storage' = [m_storage EXCEPT ![Navigation].owner = s]
  BY <1>1, <1>3 DEF lock, Evaluate, IInv, TypeOK, BlackboardTypeOK, StoreFilled, Stored, Owns
<1>6. /\ Stored(Navigation)' <=> Stored(Navigation)
      /\ Stored(Navigation) => m_storage'[Navigation].value = m_storage[Navigation].value
      /\ Owns(s, Navigation)' <=> r = "VALID"
      /\ \A c \in Skills \ {s} : Owns(c, Navigation)' <=> Owns(c, Navigation)
  BY <1>5 DEF Stored, Owns, Entry
<1>7. TypeOK'
  <2>1. BlackboardTypeOK'
    BY <1>3, <1>5 DEF IInv, TypeOK, BlackboardTypeOK, Entry
  <2>2. SkillTypeOK'
    BY <1>1, <1>2, <1>3, <1>4 DEF IInv, TypeOK, SkillTypeOK, QueuesOK, Reply
  <2> QED BY <1>2, <1>3, <2>1, <2>2 DEF IInv, TypeOK, GoToTypeOK, navVars, btVars
<1>8. StoreFilled'
  BY <1>2, <1>3, <1>5, <1>6 DEF IInv, StoreFilled
<1>9. Counted'
  BY <1>2, <1>3 DEF Entering, Arrival, IInv, Counted, TypeOK, SkillTypeOK,
                    Taken, Locking, Driving
<1>10. LockKnown'
  BY <1>1, <1>2, <1>3, <1>6
     DEF IInv, LockKnown, TypeOK, SkillTypeOK,
         Editing, Locking, Reading, Taking, Releasing, RollingBack
<1>11. Granted'
  BY <1>1, <1>2, <1>3
     DEF IInv, Granted, TypeOK, SkillTypeOK,
         Editing, Locking, Reading, Taking, Releasing, RollingBack, Unlocking
<1>12. Current'
  <2> SUFFICES ASSUME NEW c \in Skills, state'[c] \in Reading \cup Taking
               PROVE  currVal'[c] = Units'
    BY DEF Current
  <2>1. c # s
    BY <1>2, <1>3 DEF IInv, TypeOK, SkillTypeOK, Locking, Reading, Taking
  <2>2. state[c] \in Reading \cup Taking
    BY <1>3, <2>1 DEF IInv, TypeOK, SkillTypeOK
  <2>3. Owns(c, Navigation)
    BY <1>3, <2>2 DEF IInv, LockKnown, Editing
  <2> QED BY <1>2, <1>3, <1>6, <2>2, <2>3 DEF IInv, Current, Owns, Units
<1>13. UnitConserved'
  BY <1>2, <1>3, <1>6 DEF IInv, UnitConserved, Units
<1> QED BY <1>7, <1>8, <1>9, <1>10, <1>11, <1>12, <1>13 DEF IInv

\* unlock is requested by the owner, except when internal_unlockKey is entered
\* again; in either case s is not the owner afterwards.
LEMMA UnlockingKeepsIInv ==
  ASSUME NEW s \in Skills, NEW st \in States, Entering(s, st), EnterUnlocking(s, st)
  PROVE  IInv'
<1> USE BlackboardAssumption, NavigationAssumption
<1>1. PICK r \in requestEvaluation :
        /\ unlock(s, Navigation, r)
        /\ reply' = [reply EXCEPT ![s] = r]
        /\ \/ st = "internal_unlockKey" /\ r = "VALID" /\ Delay(s, "UNLOCK_TRUE")
           \/ st = "internal_unlockKey" /\ r # "VALID" /\ Raise(s, "UNLOCK_FALSE")
           \/ st # "internal_unlockKey" /\ Send(s, Unlocked(s, st, r))
  BY DEF EnterUnlocking
<1>2. st \in Unlocking /\ UNCHANGED <<navVars, currVal, resourceCount, btVars>>
  BY DEF EnterUnlocking, Entering
<1>3. IInv /\ state' = [state EXCEPT ![s] = st]
  BY DEF Entering
<1>4. QueuesOK'
  <2>1. Submits(s)
    BY <1>1 DEF Submits, Unlocked, Events, Timed
  <2> QED BY <1>3, <2>1, SubmitKeepsQueues DEF Entering, IInv
<1>5. /\ UNCHANGED <<m_initialization_values, up>>
      /\ m_storage \in [Keys -> Entry \cup {NoEntry}]
      /\ r # "VALID" => m_storage' = m_storage /\ ~Owns(s, Navigation)
      /\ r = "VALID" => /\ Stored(Navigation)
                        /\ m_storage[Navigation] \in Entry
                        /\ m_storage[Navigation].owner = s
                        /\ m_storage' = [m_storage EXCEPT ![Navigation].owner = NoSkill]
  BY <1>1, <1>3 DEF unlock, Evaluate, IInv, TypeOK, BlackboardTypeOK, StoreFilled, Stored, Owns
<1>6. /\ Stored(Navigation)' <=> Stored(Navigation)
      /\ Stored(Navigation) => m_storage'[Navigation].value = m_storage[Navigation].value
      /\ ~Owns(s, Navigation)'
      /\ \A c \in Skills \ {s} : Owns(c, Navigation)' <=> Owns(c, Navigation)
  BY <1>5 DEF Stored, Owns, Entry
<1>7. TypeOK'
  <2>1. BlackboardTypeOK'
    BY <1>3, <1>5 DEF IInv, TypeOK, BlackboardTypeOK, Entry
  <2>2. SkillTypeOK'
    BY <1>1, <1>2, <1>3, <1>4 DEF IInv, TypeOK, SkillTypeOK, QueuesOK, Reply
  <2> QED BY <1>2, <1>3, <2>1, <2>2 DEF IInv, TypeOK, GoToTypeOK, navVars, btVars
<1>8. StoreFilled'
  BY <1>2, <1>3, <1>5, <1>6 DEF IInv, StoreFilled
<1>9. Counted'
  BY <1>2, <1>3 DEF Entering, Arrival, IInv, Counted, TypeOK, SkillTypeOK,
                    Taken, Unlocking, Driving
<1>10. LockKnown'
  BY <1>1, <1>2, <1>3, <1>6
     DEF IInv, LockKnown, TypeOK, SkillTypeOK,
         Editing, Locking, Reading, Taking, Releasing, RollingBack, Unlocking
<1>11. Granted'
  <2>1. st # "internal_unlockKey" => r = "VALID"
    BY <1>2, <1>5 DEF Entering, Arrival
  <2> QED BY <1>1, <1>2, <1>3, <2>1
          DEF IInv, Granted, TypeOK, SkillTypeOK,
              Editing, Reading, Taking, Releasing, RollingBack, Unlocking
<1>12. Current'
  <2> SUFFICES ASSUME NEW c \in Skills, state'[c] \in Reading \cup Taking
               PROVE  currVal'[c] = Units'
    BY DEF Current
  <2>1. c # s
    BY <1>2, <1>3 DEF IInv, TypeOK, SkillTypeOK, Unlocking, Reading, Taking
  <2>2. state[c] \in Reading \cup Taking
    BY <1>3, <2>1 DEF IInv, TypeOK, SkillTypeOK
  <2>3. Owns(c, Navigation)
    BY <1>3, <2>2 DEF IInv, LockKnown, Editing
  <2> QED BY <1>2, <1>3, <1>6, <2>2, <2>3 DEF IInv, Current, Owns, Units
<1>13. UnitConserved'
  BY <1>2, <1>3, <1>6 DEF IInv, UnitConserved, Units
<1> QED BY <1>7, <1>8, <1>9, <1>10, <1>11, <1>12, <1>13 DEF IInv

\* An onentry that changes nothing of the blackboard and counts nothing: a
\* read by the owner, a call to the GoToComponent, or none.
LEMMA QuietEntryKeepsIInv ==
  ASSUME NEW s \in Skills, NEW st \in States, Entering(s, st),
         st \in Reading \cup Stopping \cup Driving \cup Resting \cup {"checkResource"},
         NEW r \in Reply, NEW v \in Int,
         reply' = [reply EXCEPT ![s] = r],
         currVal' = [currVal EXCEPT ![s] = v],
         st \in Reading => r = "VALID" /\ v = Units,
         UNCHANGED <<bbVars, resourceCount>>,
         GoToTypeOK', QueuesOK'
  PROVE  IInv'
<1>1. IInv /\ state' = [state EXCEPT ![s] = st] /\ UNCHANGED btVars
  BY DEF Entering
<1>2. TypeOK'
  BY <1>1 DEF IInv, TypeOK, BlackboardTypeOK, SkillTypeOK, QueuesOK, bbVars, btVars
<1>3. StoreFilled'
  BY <1>1 DEF IInv, StoreFilled, Stored, bbVars
<1>4. Counted'
  <2>1. /\ st \in Taken => resourceCount[s] = 1
        /\ resourceCount[s] = 1 => st \in Taken \cup {"halted", "checkResource"}
    BY <1>1 DEF Entering, Arrival, IInv, Counted,
                Taken, Reading, Stopping, Driving, Resting
  <2> QED BY <1>1, <2>1 DEF IInv, Counted, TypeOK, SkillTypeOK
<1>5. LockKnown'
  <2>1. Owns(s, Navigation) <=> st \in Editing
    BY DEF Entering, Arrival, Editing, Reading, Taking, Releasing, RollingBack,
           Stopping, Driving, Resting
  <2>2. st \notin Locking
    BY DEF Locking, Reading, Stopping, Driving, Resting
  <2> QED BY <1>1, <2>1, <2>2 DEF IInv, LockKnown, TypeOK, SkillTypeOK, Owns, Stored, bbVars
<1>6. Granted'
  <2>1. st \in Editing \cup (Unlocking \ {"internal_unlockKey"}) => r = "VALID"
    BY DEF Editing, Reading, Taking, Releasing, RollingBack, Unlocking,
           Stopping, Driving, Resting
  <2> QED BY <1>1, <2>1 DEF IInv, Granted, TypeOK, SkillTypeOK
<1>7. Current'
  <2>1. st \in Reading \cup Taking => v = Units
    BY DEF Reading, Taking, Stopping, Driving, Resting
  <2> QED BY <1>1, <2>1 DEF IInv, Current, TypeOK, SkillTypeOK, Units, bbVars
<1>8. UnitConserved'
  BY <1>1 DEF IInv, UnitConserved, Units, Stored, bbVars
<1> QED BY <1>2, <1>3, <1>4, <1>5, <1>6, <1>7, <1>8 DEF IInv

\* Reading is entered by the owner only: the read is answered, with the datum.
LEMMA ReadingKeepsIInv ==
  ASSUME NEW s \in Skills, NEW st \in States, Entering(s, st), EnterReading(s, st)
  PROVE  IInv'
<1> USE BlackboardAssumption, NavigationAssumption
<1>1. PICK r \in requestEvaluation, v \in Numbers :
        /\ readData(s, Navigation, Int32, r, v)
        /\ reply' = [reply EXCEPT ![s] = r]
        /\ currVal' = [currVal EXCEPT ![s] = IF r = "VALID" THEN v
                                             ELSE IF st = "readData" THEN -1 ELSE @]
        /\ \/ r = "VALID" /\ st # "readData" /\ Send(s, "DATA_READ")
           \/ r = "VALID" /\ st = "readData" /\ v = 0 /\ Send(s, "DATA_EQUAL_ZERO")
           \/ r = "VALID" /\ st = "readData" /\ v > 0 /\ Send(s, "DATA_GREATER_THAN_ZERO")
           \/ r = "VALID" /\ st = "readData" /\ v < 0 /\ Quiet(s)
           \/ r # "VALID" /\ Quiet(s)
  BY DEF EnterReading
<1>2. st \in Reading /\ UNCHANGED <<navVars, resourceCount>>
  BY DEF EnterReading
<1>3. Stored(Navigation) /\ m_storage[Navigation].owner = s
  BY <1>2 DEF Entering, Arrival, Owns
<1>4. /\ r = "VALID"
      /\ v = As(Int32, m_storage[Navigation].value)
      /\ UNCHANGED bbVars
  BY <1>1, <1>3 DEF readData, Evaluate, Entering, IInv, StoreFilled
<1>5. v = Units
  BY <1>3, <1>4 DEF As, Units, Int32, String, Entering, IInv, StoreFilled
<1>6. Submits(s)
  BY <1>1 DEF Submits, Events, Timed
<1>7. QueuesOK'
  BY <1>6, SubmitKeepsQueues DEF Entering, IInv
<1>8. GoToTypeOK'
  BY <1>2 DEF Entering, IInv, TypeOK, GoToTypeOK, navVars
<1>9. currVal' = [currVal EXCEPT ![s] = v]
  BY <1>1, <1>4
<1> QED BY <1>1, <1>2, <1>4, <1>5, <1>7, <1>8, <1>9, QuietEntryKeepsIInv DEF Reply

\* The onentry scripts that call the GoToComponent, and those that call nobody.
LEMMA NoRequestKeepsIInv ==
  ASSUME NEW s \in Skills, NEW st \in States, Entering(s, st),
         \/ EnterStopping(s, st)
         \/ EnterSendrequest(s, st)
         \/ EnterGetstatus(s, st)
         \/ EnterCheckResource(s, st)
         \/ EnterResting(s, st)
  PROVE  IInv'
<1> USE NavigationAssumption
<1> USE DEF EnterStopping, EnterSendrequest, EnterGetstatus, EnterCheckResource, EnterResting
<1>1. st \in Stopping \cup Driving \cup Resting \cup {"checkResource"}
  BY DEF Driving
<1>2. UNCHANGED <<bbVars, currVal, resourceCount>>
  OBVIOUS
<1>3. \E r \in Reply : reply' = [reply EXCEPT ![s] = r]
  BY DEF Reply
<1>4. Submits(s)
  <2>1. CASE EnterGetstatus(s, st)
    BY <2>1 DEF Submits, Events, Timed
  <2>2. CASE EnterCheckResource(s, st)
    BY <2>2 DEF Submits, Events, Timed
  <2>3. CASE EnterStopping(s, st) \/ EnterSendrequest(s, st) \/ EnterResting(s, st)
    BY <2>3 DEF Submits, Events, Timed
  <2> QED BY <2>1, <2>2, <2>3
<1>5. QueuesOK'
  BY <1>4, SubmitKeepsQueues DEF Entering, IInv
<1>6. GoToTypeOK'
  BY DEF Entering, IInv, TypeOK, GoToTypeOK, goTo, halt, getStatus, navVars, NavigationStatus
<1>7. /\ currVal' = [currVal EXCEPT ![s] = currVal[s]]
      /\ currVal[s] \in Int
  BY <1>2 DEF Entering, IInv, TypeOK, SkillTypeOK
<1>8. st \notin Reading
  BY <1>1 DEF Reading, Stopping, Driving, Resting
<1> HIDE DEF EnterStopping, EnterSendrequest, EnterGetstatus, EnterCheckResource, EnterResting
<1> QED BY <1>1, <1>2, <1>3, <1>5, <1>6, <1>7, <1>8, QuietEntryKeepsIInv

\* A write by the owner moves the unit between the store and the owner: n of
\* them, 1 or -1, out of the store.
LEMMA WriteKeepsIInv ==
  ASSUME NEW s \in Skills, NEW st \in States, Entering(s, st),
         NEW n \in {-1, 1}, NEW newVal \in Int,
         \/ st \in Taking /\ n = 1 /\ newVal = currVal[s] - 1
         \/ st \in Releasing \cup RollingBack /\ n = -1,
         Write(s, currVal[s] - n, n, newVal)
  PROVE  IInv'
<1> USE BlackboardAssumption, NavigationAssumption
<1>1. IInv /\ state' = [state EXCEPT ![s] = st] /\ UNCHANGED btVars
  BY DEF Entering
<1>2. /\ Stored(Navigation)
      /\ m_storage[Navigation] \in Entry
      /\ m_storage[Navigation].owner = s
      /\ m_storage \in [Keys -> Entry \cup {NoEntry}]
      /\ currVal[s] = Units
      /\ st \in Taking => Units > 0 /\ resourceCount[s] = 0
      /\ st \notin Taking => resourceCount[s] = 1
  BY <1>1 DEF Entering, Arrival, Owns, Stored, IInv, TypeOK, BlackboardTypeOK
<1>3. /\ Units = IF n = 1 THEN 1 ELSE 0
      /\ \A c \in Skills \ {s} : resourceCount[c] = 0
  BY <1>1, <1>2 DEF IInv, UnitConserved, Counted,
                    Taking, Releasing, RollingBack
<1>4. PICK r \in requestEvaluation :
        /\ writeData(s, Navigation, Int32, currVal[s] - n, r)
        /\ reply' = [reply EXCEPT ![s] = r]
        /\ \/ /\ r = "VALID"
              /\ resourceCount' = [resourceCount EXCEPT ![s] = @ + n]
              /\ currVal' = [currVal EXCEPT ![s] = newVal]
              /\ Send(s, "WRITE_DATA_TRUE")
           \/ /\ r # "VALID"
              /\ UNCHANGED <<resourceCount, currVal>>
              /\ Quiet(s)
  BY DEF Write
<1>5. r = "VALID"
  BY <1>1, <1>2, <1>4 DEF writeData, Evaluate, IInv, StoreFilled
<1> DEFINE left == IF n = 1 THEN 0 ELSE 1
<1>6. /\ m_storage' = [m_storage EXCEPT ![Navigation].value = [type |-> Int32, datum |-> left]]
      /\ UNCHANGED <<m_initialization_values, up, navVars>>
      /\ reply' = [reply EXCEPT ![s] = "VALID"]
      /\ resourceCount' = [resourceCount EXCEPT ![s] = IF n = 1 THEN 1 ELSE 0]
      /\ currVal' = [currVal EXCEPT ![s] = newVal]
  <2>1. currVal[s] - n = left
    BY <1>2, <1>3
  <2>2. resourceCount[s] + n = IF n = 1 THEN 1 ELSE 0
    BY <1>2 DEF Taking, Releasing, RollingBack
  <2> QED BY <1>4, <1>5, <2>1, <2>2 DEF writeData, Write
<1>7. QueuesOK'
  <2>1. Submits(s)
    BY <1>4 DEF Submits, Events, Timed
  <2> QED BY <2>1, <1>1, SubmitKeepsQueues DEF Entering, IInv
<1>8. [type |-> Int32, datum |-> left] \in Datum
  <2>1. left \in Numbers
    BY EntriesAssumption DEF Datum, Data, Types, Int32, Float64, String
  <2> QED BY <2>1 DEF Datum, Data, Types, Int32, Float64, String
<1>9. /\ Stored(Navigation)'
      /\ m_storage'[Navigation].value = [type |-> Int32, datum |-> left]
      /\ Owns(s, Navigation) /\ Owns(s, Navigation)'
      /\ \A c \in Skills \ {s} : Owns(c, Navigation)' <=> Owns(c, Navigation)
  BY <1>2, <1>6, <1>8 DEF Stored, Owns, Entry
<1>10. TypeOK'
  <2>1. BlackboardTypeOK'
    BY <1>1, <1>2, <1>6, <1>8 DEF IInv, TypeOK, BlackboardTypeOK, Entry
  <2>2. SkillTypeOK'
    <3>1. "VALID" \in Reply
      BY DEF Reply, requestEvaluation
    <3>2. resourceCount' \in [Skills -> Int]
      BY <1>1, <1>6 DEF IInv, TypeOK, SkillTypeOK
    <3>3. currVal' \in [Skills -> Int] /\ reply' \in [Skills -> Reply]
      BY <1>1, <1>6, <3>1 DEF IInv, TypeOK, SkillTypeOK
    <3>4. state' \in [Skills -> States]
      BY <1>1 DEF IInv, TypeOK, SkillTypeOK
    <3> QED BY <1>7, <3>2, <3>3, <3>4 DEF SkillTypeOK, QueuesOK
  <2> QED BY <1>1, <1>6, <2>1, <2>2 DEF IInv, TypeOK, GoToTypeOK, navVars, btVars
<1>11. StoreFilled'
  BY <1>1, <1>6, <1>9 DEF IInv, StoreFilled
<1>12. Counted'
  BY <1>1, <1>6 DEF IInv, Counted, TypeOK, SkillTypeOK,
                    Taken, Taking, Releasing, RollingBack, Driving
<1>13. LockKnown'
  BY <1>1, <1>6, <1>9
     DEF IInv, LockKnown, TypeOK, SkillTypeOK,
         Editing, Locking, Reading, Taking, Releasing, RollingBack
<1>14. Granted'
  BY <1>1, <1>6 DEF IInv, Granted, TypeOK, SkillTypeOK
<1>15. Current'
  <2> SUFFICES ASSUME NEW c \in Skills, state'[c] \in Reading \cup Taking
               PROVE  currVal'[c] = Units'
    BY DEF Current
  <2>1. Units' = left
    BY <1>9 DEF Units
  <2>2. CASE c = s
    <3>1. st \in Taking /\ n = 1
      BY <1>1, <2>2 DEF IInv, TypeOK, SkillTypeOK, Reading, Taking, Releasing, RollingBack
    <3>2. newVal = 0
      BY <3>1, <1>2, <1>3 DEF Taking, Releasing, RollingBack
    <3> QED BY <1>1, <1>6, <2>1, <2>2, <3>1, <3>2 DEF IInv, TypeOK, SkillTypeOK
  <2>3. CASE c # s
    <3>1. state[c] \in Reading \cup Taking
      BY <1>1, <2>3 DEF IInv, TypeOK, SkillTypeOK
    <3>2. Owns(c, Navigation)
      BY <1>1, <3>1 DEF IInv, LockKnown, Editing
    <3> QED BY <1>9, <2>3, <3>2 DEF Owns
  <2> QED BY <2>2, <2>3
<1>16. UnitConserved'
  <2>1. Units' = left /\ Stored(Navigation)'
    BY <1>9 DEF Units
  <2>2. \A c \in Skills : resourceCount'[c] = IF c = s /\ n = 1 THEN 1 ELSE 0
    BY <1>1, <1>3, <1>6 DEF IInv, TypeOK, SkillTypeOK
  <2> QED BY <2>1, <2>2 DEF UnitConserved
<1> QED BY <1>10, <1>11, <1>12, <1>13, <1>14, <1>15, <1>16 DEF IInv

-----------------------------------------------------------------------------
(* The steps of the system.                                                *)

\* What a step of the interpreter that follows a transition is.
LEMMA FollowEnters ==
  ASSUME IInv, NEW s \in Skills, Follow(s), UNCHANGED btVars
  PROVE  \E st \in States, e \in Events :
           /\ <<state[s], e, st>> \in Transitions
           /\ Confirmed(s, e)
           /\ Entering(s, st)
           /\ Enter(s, st)
<1>1. HasEvent(s)
  BY DEF Follow
<1>2. Event(s) \in Events
  BY <1>1, EventIsEvent DEF IInv, TypeOK, SkillTypeOK, QueuesOK
<1>3. state[s] \in States
  BY DEF IInv, TypeOK, SkillTypeOK
<1>4. PICK st \in Targets(s) : state' = [state EXCEPT ![s] = st] /\ Enter(s, st)
  BY DEF Follow
<1>5. /\ Confirmed(s, Event(s))
      /\ st \in States
      /\ <<state[s], Event(s), st>> \in Transitions
  BY <1>2, <1>3, <1>4 DEF Targets, Successors
<1>6. Arrival(s, st)
  BY <1>2, <1>5, TransitionArrives
<1> QED BY <1>1, <1>2, <1>4, <1>5, <1>6 DEF Entering

\* A step of the interpreter that follows a transition, by kind of onentry.
LEMMA FollowKeepsIInv ==
  ASSUME IInv, NEW s \in Skills, Follow(s), UNCHANGED btVars
  PROVE  IInv'
<1>1. PICK st \in States : Entering(s, st) /\ Enter(s, st)
  BY FollowEnters
<1>2. currVal[s] \in Int
  BY DEF IInv, TypeOK, SkillTypeOK
<1>3. CASE EnterLocking(s, st)
  BY <1>1, <1>3, LockingKeepsIInv
<1>4. CASE EnterReading(s, st)
  BY <1>1, <1>4, ReadingKeepsIInv
<1>5. CASE EnterTaking(s, st)
  <2>1. st \in Taking /\ Write(s, currVal[s] - 1, 1, currVal[s] - 1)
    BY <1>5 DEF EnterTaking
  <2> QED BY <1>1, <1>2, <2>1, WriteKeepsIInv
<1>6. CASE EnterReleasing(s, st)
  <2>1. st \in Releasing /\ Write(s, currVal[s] - (-1), -1, currVal[s])
    BY <1>2, <1>6 DEF EnterReleasing
  <2> QED BY <1>1, <1>2, <2>1, WriteKeepsIInv
<1>7. CASE EnterRollingBack(s, st)
  <2>1. st \in RollingBack /\ Write(s, currVal[s] - (-1), -1, currVal[s] + 1)
    BY <1>2, <1>7 DEF EnterRollingBack
  <2> QED BY <1>1, <1>2, <2>1, WriteKeepsIInv
<1>8. CASE EnterUnlocking(s, st)
  BY <1>1, <1>8, UnlockingKeepsIInv
<1>9. CASE \/ EnterStopping(s, st)
           \/ EnterSendrequest(s, st)
           \/ EnterGetstatus(s, st)
           \/ EnterCheckResource(s, st)
           \/ EnterResting(s, st)
  BY <1>1, <1>9, NoRequestKeepsIInv
<1> QED BY <1>1, <1>3, <1>4, <1>5, <1>6, <1>7, <1>8, <1>9 DEF Enter

\* Everything IInv speaks of, types aside.
coreVars == <<m_storage, m_initialization_values, up, state, currVal, resourceCount, reply>>

\* A step that changes only queues, timers, the robot or the tree.
LEMMA CoreUnchangedKeepsIInv ==
  ASSUME IInv, UNCHANGED coreVars, TypeOK'
  PROVE  IInv'
BY DEF coreVars, IInv, StoreFilled, Counted, LockKnown, Granted, Current,
       UnitConserved, Units, Owns, Stored

\* An event that enables nothing is lost.
LEMMA DiscardKeepsIInv ==
  ASSUME IInv, NEW s \in Skills, Discard(s), UNCHANGED btVars
  PROVE  IInv'
<1>1. Submits(s)
  BY DEF Discard, Submits
<1>2. QueuesOK'
  BY <1>1, SubmitKeepsQueues DEF Discard, IInv
<1>3. TypeOK'
  BY <1>2 DEF Discard, IInv, TypeOK, BlackboardTypeOK, GoToTypeOK, SkillTypeOK, QueuesOK,
              bbVars, navVars, btVars
<1> QED BY <1>3, CoreUnchangedKeepsIInv DEF Discard, coreVars, bbVars

\* A timer fires.
LEMMA TimeoutKeepsIInv ==
  ASSUME IInv, NEW s \in Skills, Timeout(s)
  PROVE  IInv'
<1>1. PICK e \in Timed : Fire(s, e)
  BY DEF Timeout
<1>2. UNCHANGED btVars
  BY DEF Timeout
<1>3. QueuesOK'
  <2>1. /\ timers[s] \in [Timed -> Nat]
        /\ internalQueue[s] \in Seq(Events)
        /\ externalQueue[s] \in Seq(Events)
        /\ e \in Events
    BY DEF IInv, TypeOK, SkillTypeOK, Events
  <2>2. [timers[s] EXCEPT ![e] = @ - 1] \in [Timed -> Nat]
    BY <1>1, <2>1 DEF Fire
  <2>3. timers' \in [Skills -> [Timed -> Nat]]
    BY <1>1, <2>2 DEF Fire, IInv, TypeOK, SkillTypeOK
  <2>4. Append(internalQueue[s], e) \in Seq(Events) /\ Append(externalQueue[s], e) \in Seq(Events)
    BY <2>1
  <2>5. internalQueue' \in [Skills -> Seq(Events)]
    BY <1>1, <2>4 DEF Fire, IInv, TypeOK, SkillTypeOK
  <2>6. externalQueue' \in [Skills -> Seq(Events)]
    BY <1>1, <2>4 DEF Fire, IInv, TypeOK, SkillTypeOK
  <2> QED BY <2>3, <2>5, <2>6 DEF QueuesOK
<1>4. TypeOK'
  BY <1>1, <1>2, <1>3 DEF Fire, IInv, TypeOK, BlackboardTypeOK, GoToTypeOK, SkillTypeOK,
                          QueuesOK, bbVars, navVars, btVars
<1> QED BY <1>1, <1>4, CoreUnchangedKeepsIInv DEF Fire, coreVars, bbVars

\* The tree ticks a node, polls it or halts it.
LEMMA TreeKeepsIInv ==
  ASSUME IInv, NEW s \in Skills, Tree(s)
  PROVE  IInv'
<1>1. UNCHANGED <<bbVars, navVars, state, internalQueue, timers, currVal, resourceCount, reply>>
  BY DEF Tree, Tick, Return, Poll, Halt, Command, vars, skillVars
<1>2. externalQueue' \in [Skills -> Seq(Events)]
  <2>1. ASSUME NEW e \in {"CMD_START", "CMD_STOP"}, Command(s, e)
        PROVE  externalQueue' \in [Skills -> Seq(Events)]
    <3>1. externalQueue[s] \in Seq(Events) /\ e \in Events
      BY DEF IInv, TypeOK, SkillTypeOK, Events
    <3>2. Append(externalQueue[s], e) \in Seq(Events)
      BY <3>1
    <3> QED BY <2>1, <3>2 DEF Command, IInv, TypeOK, SkillTypeOK
  <2>2. \/ \E e \in {"CMD_START", "CMD_STOP"} : Command(s, e)
        \/ UNCHANGED externalQueue
    BY DEF Tree, Tick, Return, Poll, Halt, vars, skillVars
  <2> QED BY <2>1, <2>2 DEF IInv, TypeOK, SkillTypeOK
<1>3. running_nodes' \subseteq Skills /\ ticking' \in Skills \cup {NoSkill}
  BY DEF Tree, Tick, Return, Poll, Halt, vars, btVars, IInv, TypeOK
<1>4. TypeOK'
  BY <1>1, <1>2, <1>3 DEF IInv, TypeOK, BlackboardTypeOK, GoToTypeOK, SkillTypeOK, bbVars, navVars
<1> QED BY <1>1, <1>4, CoreUnchangedKeepsIInv DEF coreVars, bbVars

\* The robot moves.
LEMMA MoveKeepsIInv ==
  ASSUME IInv, Move
  PROVE  IInv'
<1>1. GoToTypeOK'
  BY DEF Move, Navigate, Leave, Arrive, Abort, Settle, IInv, TypeOK, GoToTypeOK, NavigationStatus
<1>2. TypeOK'
  BY <1>1 DEF Move, IInv, TypeOK, BlackboardTypeOK, SkillTypeOK, bbVars, skillVars, btVars
<1> QED BY <1>2, CoreUnchangedKeepsIInv DEF Move, coreVars, bbVars, skillVars

\* The store is filled while nobody has taken the unit, since nobody can have.
LEMMA StartBlackboardKeepsIInv ==
  ASSUME IInv, StartBlackboard
  PROVE  IInv'
<1> USE BlackboardAssumption, NavigationAssumption, EntriesAssumption
<1>1. UNCHANGED <<navVars, skillVars, btVars>>
  BY DEF StartBlackboard
<1>2. Entries \in [Keys -> Entry]
  BY DEF Entry
<1>3. CASE \E k \in Keys : parseEntry(k)
  <2>1. PICK k \in Keys : parseEntry(k)
    BY <1>3
  <2>2. BlackboardTypeOK'
    BY <1>2, <2>1 DEF parseEntry, IInv, TypeOK, BlackboardTypeOK
  <2>3. TypeOK'
    BY <1>1, <2>2 DEF IInv, TypeOK, GoToTypeOK, SkillTypeOK, navVars, skillVars, btVars
  <2>4. StoreFilled'
    BY <1>1, <2>1 DEF parseEntry, IInv, TypeOK, BlackboardTypeOK, StoreFilled, Stored, skillVars
  <2> QED BY <1>1, <2>1, <2>3, <2>4
          DEF parseEntry, skillVars, IInv, Counted, LockKnown, Granted, Current,
              UnitConserved, Units, Owns, Stored
<1>4. CASE /\ \A k \in Keys : m_initialization_values[k] # NoEntry
           /\ \A k \in Keys : ~Stored(k)
           /\ resetData
  <2>1. /\ m_storage' = m_initialization_values
        /\ UNCHANGED <<m_initialization_values, up>>
        /\ ~Stored(Navigation)
        /\ m_storage'[Navigation] = Entries[Navigation]
    BY <1>4 DEF resetData, IInv, StoreFilled
  <2>2. TypeOK'
    BY <1>1, <2>1 DEF IInv, TypeOK, BlackboardTypeOK, GoToTypeOK, SkillTypeOK,
                      navVars, skillVars, btVars
  <2>3. /\ Stored(Navigation)' /\ Units' = 1
        /\ m_storage'[Navigation].value.type = Int32
        /\ m_storage'[Navigation].owner = NoSkill
    BY <1>2, <2>1 DEF Stored, Units
  <2>4. \A s \in Skills : resourceCount'[s] = 0
    BY <1>1, <2>1 DEF IInv, StoreFilled, skillVars
  <2>5. StoreFilled' /\ UnitConserved'
    BY <2>1, <2>3, <2>4 DEF IInv, StoreFilled, UnitConserved
  <2>6. \A s \in Skills : ~Owns(s, Navigation) /\ ~Owns(s, Navigation)'
    BY <2>1, <2>3 DEF Owns
  <2>7. \A s \in Skills : state[s] \notin Editing
    BY <2>6 DEF IInv, LockKnown
  <2>8. Counted' /\ LockKnown' /\ Granted'
    BY <1>1, <2>6 DEF IInv, Counted, LockKnown, Granted, skillVars
  <2>9. Current'
    BY <1>1, <2>7 DEF Current, Editing, skillVars
  <2> QED BY <2>2, <2>5, <2>8, <2>9 DEF IInv
<1> QED BY <1>3, <1>4 DEF StartBlackboard

\* At the start nobody has the lock or the unit and the store is empty.
LEMMA InitIInv == Init => IInv
<1> SUFFICES ASSUME Init PROVE IInv
  OBVIOUS
<1> USE BlackboardAssumption, NavigationAssumption
        DEF Init, BlackboardInit, GoToInit, SkillInit
<1>1. ~Stored(Navigation)
  BY DEF Stored
<1>2. TypeOK
  <2>1. BlackboardTypeOK
    BY DEF BlackboardTypeOK
  <2>2. GoToTypeOK
    BY DEF GoToTypeOK, NavigationStatus
  <2>3. SkillTypeOK
    BY DEF SkillTypeOK, States, Resting, Reply
  <2> QED BY <2>1, <2>2, <2>3 DEF TypeOK
<1>3. StoreFilled
  BY <1>1 DEF StoreFilled
<1>4. Counted /\ Granted /\ Current
  BY DEF Counted, Granted, Current, Taken, Driving, Editing, Unlocking,
         Reading, Taking, Releasing, RollingBack
<1>5. LockKnown
  BY <1>1 DEF LockKnown, Owns, Editing, Locking, Reading, Taking, Releasing, RollingBack
<1>6. UnitConserved
  BY <1>1 DEF UnitConserved
<1> QED BY <1>2, <1>3, <1>4, <1>5, <1>6 DEF IInv

\* The inductive step, by the actions of Next.
LEMMA NextIInv == IInv /\ [Next]_vars => IInv'
<1> SUFFICES ASSUME IInv, [Next]_vars PROVE IInv'
  OBVIOUS
<1>1. CASE StartBlackboard
  BY <1>1, StartBlackboardKeepsIInv
<1>2. CASE Move
  BY <1>2, MoveKeepsIInv
<1>3. ASSUME NEW s \in Skills, React(s) PROVE IInv'
  BY <1>3, FollowKeepsIInv, DiscardKeepsIInv DEF React
<1>4. ASSUME NEW s \in Skills, Timeout(s) PROVE IInv'
  BY <1>4, TimeoutKeepsIInv
<1>5. ASSUME NEW s \in Skills, Tree(s) PROVE IInv'
  BY <1>5, TreeKeepsIInv
<1>6. CASE UNCHANGED vars
  <2>1. TypeOK'
    BY <1>6 DEF vars, bbVars, navVars, skillVars, btVars,
                IInv, TypeOK, BlackboardTypeOK, GoToTypeOK, SkillTypeOK
  <2> QED BY <1>6, <2>1, CoreUnchangedKeepsIInv DEF vars, coreVars, bbVars, skillVars
<1> QED BY <1>1, <1>2, <1>3, <1>4, <1>5, <1>6 DEF Next, Skill

\* The inductive invariant is an invariant.
LEMMA IInvAlways == Spec => []IInv
BY InitIInv, NextIInv, PTL DEF Spec

-----------------------------------------------------------------------------
(* The theorems.                                                           *)

\* A skill that has the unit is the only one.
LEMMA OneHolder ==
  ASSUME IInv, NEW s \in Skills, resourceCount[s] = 1, NEW c \in Skills \ {s}
  PROVE  resourceCount[c] = 0
BY DEF IInv, StoreFilled, UnitConserved

\* A skill that commands the robot has the unit.
LEMMA DriverHolds ==
  ASSUME IInv, NEW s \in Skills, state[s] \in Driving
  PROVE  resourceCount[s] = 1
BY DEF IInv, Counted, Taken

\* Every state component keeps its range: in particular the datum of the
\* resource stays a datum of entries.ini, whatever the skills write.
THEOREM TypeCorrect == Spec => []TypeOK
<1>1. IInv => TypeOK
  BY DEF IInv
<1> QED BY <1>1, IInvAlways, PTL

\* The four requests of a skill, interleaved with those of any number of
\* others and cut short by CMD_STOP anywhere, neither lose nor double the unit.
THEOREM UnitNeverLost == Spec => []UnitConserved
<1>1. IInv => UnitConserved
  BY DEF IInv
<1> QED BY <1>1, IInvAlways, PTL

\* No two statecharts are in the states that command the robot.
THEOREM MutualExclusion == Spec => []OneSkillDrives
<1>1. IInv => OneSkillDrives
  BY OneHolder, DriverHolds DEF OneSkillDrives
<1> QED BY <1>1, IInvAlways, PTL

\* A statechart at rest left neither the lock nor the unit behind.
THEOREM RestLeavesNothing == Spec => []RestingHoldsNothing
<1>1. ASSUME IInv, NEW s \in Skills, state[s] \in Resting
      PROVE  ~Owns(s, Navigation) /\ ~Holds(s)
  <2>1. state[s] \notin Editing \cup Locking \cup Taken \cup {"halted", "checkResource"}
    BY <1>1 DEF Editing, Locking, Reading, Taking, Releasing, RollingBack,
                Taken, Driving, Resting
  <2>2. ~Owns(s, Navigation)
    BY <1>1, <2>1 DEF IInv, LockKnown
  <2>3. resourceCount[s] = 0
    BY <1>1, <2>1 DEF IInv, Counted
  <2> QED BY <2>2, <2>3 DEF Holds
<1>2. IInv => RestingHoldsNothing
  BY <1>1 DEF RestingHoldsNothing
<1> QED BY <1>2, IInvAlways, PTL

\* The steps of an onentry that writes are those that take or give the unit.
LEMMA EntryWritesOrNot ==
  ASSUME NEW s \in Skills, NEW st \in States, Entering(s, st), Enter(s, st)
  PROVE  \/ UNCHANGED resourceCount
         \/ /\ st \in Taking
            /\ resourceCount' = [resourceCount EXCEPT ![s] = @ + 1]
         \/ /\ st \in Releasing \cup RollingBack
            /\ resourceCount' = [resourceCount EXCEPT ![s] = @ - 1]
<1>1. resourceCount[s] \in Int
  BY DEF Entering, IInv, TypeOK, SkillTypeOK
<1>2. CASE EnterTaking(s, st) \/ EnterReleasing(s, st) \/ EnterRollingBack(s, st)
  BY <1>1, <1>2 DEF EnterTaking, EnterReleasing, EnterRollingBack, Write
<1>3. CASE \/ EnterLocking(s, st) \/ EnterReading(s, st) \/ EnterUnlocking(s, st)
           \/ EnterStopping(s, st) \/ EnterSendrequest(s, st) \/ EnterGetstatus(s, st)
           \/ EnterCheckResource(s, st) \/ EnterResting(s, st)
  BY <1>3 DEF EnterLocking, EnterReading, EnterUnlocking, EnterStopping, EnterSendrequest,
              EnterGetstatus, EnterCheckResource, EnterResting
<1> QED BY <1>2, <1>3 DEF Enter

\* A step of a statechart is a step of the arbiter, or none.
LEMMA FollowImplements ==
  ASSUME IInv, NEW s \in Skills, Follow(s), UNCHANGED btVars
  PROVE  Unit!Next \/ UNCHANGED Unit!vars
<1>1. PICK st \in States : Entering(s, st) /\ Enter(s, st)
  BY FollowEnters
<1>2. /\ state \in [Skills -> States]
      /\ state' = [state EXCEPT ![s] = st]
      /\ resourceCount \in [Skills -> {0, 1}]
      /\ Arrival(s, st)
  BY <1>1 DEF Entering, IInv, TypeOK, SkillTypeOK, Counted
<1> USE DEF Holds
<1>3. CASE UNCHANGED resourceCount
  <2>1. CASE state[s] \in Driving <=> st \in Driving
    BY <1>2, <1>3, <2>1 DEF Unit!vars
  <2>2. CASE state[s] \in Driving /\ st \notin Driving
    <3>1. \A c \in Skills : state[c] \in Driving <=> c = s
      BY <2>2, OneHolder, DriverHolds
    <3>2. Unit!Stop(s)
      BY <1>2, <1>3, <2>2, <3>1 DEF Unit!Stop
    <3> QED BY <3>2 DEF Unit!Next
  <2>3. CASE state[s] \notin Driving /\ st \in Driving
    <3>1. resourceCount[s] = 1
      BY <1>2, <2>3 DEF Arrival
    <3>2. \A c \in Skills : resourceCount[c] > 0 <=> c = s
      BY <3>1, OneHolder
    <3>3. \A c \in Skills : state[c] \notin Driving
      BY <2>3, <3>2, DriverHolds
    <3>4. Unit!Drive(s)
      BY <1>2, <1>3, <2>3, <3>2, <3>3 DEF Unit!Drive
    <3> QED BY <3>4 DEF Unit!Next
  <2> QED BY <2>1, <2>2, <2>3
<1>4. CASE /\ st \in Taking
           /\ resourceCount' = [resourceCount EXCEPT ![s] = @ + 1]
  <2>1. /\ resourceCount[s] = 0 /\ Units > 0 /\ Stored(Navigation)
        /\ state[s] \notin Driving /\ st \notin Driving
    BY <1>2, <1>4, DriverHolds DEF Arrival, Owns, Taking, Driving
  <2>2. \A c \in Skills : resourceCount[c] = 0
    BY <2>1 DEF IInv, UnitConserved
  <2>3. Unit!Take(s)
    BY <1>2, <1>4, <2>1, <2>2 DEF Unit!Take
  <2> QED BY <2>3 DEF Unit!Next
<1>5. CASE /\ st \in Releasing \cup RollingBack
           /\ resourceCount' = [resourceCount EXCEPT ![s] = @ - 1]
  <2>1. resourceCount[s] = 1 /\ Owns(s, Navigation)
    BY <1>2, <1>5 DEF Arrival
  <2>2. state[s] \notin Driving /\ st \notin Driving
    BY <1>5, <2>1 DEF IInv, LockKnown, Editing, Locking, Reading, Taking,
                      Releasing, RollingBack, Driving
  <2>3. \A c \in Skills : resourceCount[c] > 0 <=> c = s
    BY <2>1, OneHolder
  <2>4. Unit!Give(s)
    BY <1>2, <1>5, <2>1, <2>2, <2>3 DEF Unit!Give
  <2> QED BY <2>4 DEF Unit!Next
<1> QED BY <1>1, <1>3, <1>4, <1>5, EntryWritesOrNot

\* The statecharts, the blackboard and its locks implement the arbiter of one
\* unit: it is taken when free, the robot is commanded by its holder alone,
\* and it is given back by a holder that no longer commands the robot.
THEOREM Implementation == Spec => ImplementsNavigationUnit
<1>1. Init => Unit!Init
  BY DEF Init, SkillInit, Holds, Driving, Unit!Init
<1>2. IInv /\ [Next]_vars => [Unit!Next]_Unit!vars
  <2> SUFFICES ASSUME IInv, [Next]_vars PROVE Unit!Next \/ UNCHANGED Unit!vars
    OBVIOUS
  <2>1. CASE UNCHANGED <<state, resourceCount>>
    BY <2>1 DEF Unit!vars, Holds
  <2>2. ASSUME NEW s \in Skills, React(s)
        PROVE  Unit!Next \/ UNCHANGED Unit!vars
    BY <2>1, <2>2, FollowImplements DEF React, Discard
  <2>3. CASE \/ StartBlackboard
             \/ Move
             \/ \E s \in Skills : Timeout(s) \/ Tree(s)
             \/ UNCHANGED vars
    BY <2>1, <2>3 DEF StartBlackboard, Move, Timeout, Fire, vars, skillVars,
                      Tree, Tick, Return, Poll, Halt, Command
  <2> QED BY <2>2, <2>3 DEF Next, Skill
<1> QED BY <1>1, <1>2, IInvAlways, PTL DEF Spec, ImplementsNavigationUnit, Unit!Spec

-----------------------------------------------------------------------------
(* The robot.                                                              *)

\* At the start the robot stands.
LEMMA InitMoveFollowed == Init => MoveFollowed
BY DEF Init, GoToInit, SkillInit, MoveFollowed

\* A skill leaves the movement it follows only to stop it, or once it was
\* told that the movement is over.
LEMMA FollowKeepsMoveFollowed ==
  ASSUME ~QueriesMayFail, IInv, MoveFollowed,
         NEW s \in Skills, Follow(s), UNCHANGED btVars
  PROVE  MoveFollowed'
<1>1. PICK st \in States, e \in Events :
        /\ <<state[s], e, st>> \in Transitions
        /\ Confirmed(s, e)
        /\ Entering(s, st)
        /\ Enter(s, st)
  BY FollowEnters
<1>2. /\ state \in [Skills -> States]
      /\ state' = [state EXCEPT ![s] = st]
      /\ reply \in [Skills -> Reply]
      /\ target \in Locations \cup {Nowhere}
      /\ Arrival(s, st)
  BY <1>1 DEF Entering, IInv, TypeOK, SkillTypeOK, GoToTypeOK
<1>3. \E r \in Reply : reply' = [reply EXCEPT ![s] = r]
  BY <1>1 DEF Enter, EnterLocking, EnterReading, EnterTaking, EnterReleasing, EnterRollingBack,
              Write, EnterUnlocking, EnterStopping, EnterSendrequest, EnterGetstatus,
              EnterCheckResource, EnterResting, Reply
<1>4. ASSUME st \in Driving, NEW c \in Skills \ {s}
      PROVE  state[c] \notin Driving
  BY <1>2, <1>4, OneHolder, DriverHolds DEF Arrival
<1>5. CASE EnterStopping(s, st)
  BY <1>5 DEF EnterStopping, halt, MoveFollowed
<1>6. CASE EnterSendrequest(s, st)
  <2>1. st = "sendrequest" /\ goTo(s)
    BY <1>6 DEF EnterSendrequest
  <2>2. navStatus' = "moving" => running' /\ target' = s
    BY <1>2, <1>4, <2>1 DEF goTo, MoveFollowed, Driving
  <2>3. \A c \in Skills : state'[c] # "getstatus"
    BY <1>2, <1>4, <2>1 DEF Driving
  <2> QED BY <1>2, <2>1, <2>2, <2>3 DEF MoveFollowed, Driving
<1>7. CASE EnterGetstatus(s, st)
  <2>1. PICK r \in GoToStatus : /\ getStatus(s, r)
                                /\ reply' = [reply EXCEPT ![s] = r]
    BY <1>7 DEF EnterGetstatus
  <2>2. st = "getstatus" /\ UNCHANGED navVars
    BY <1>7, <2>1 DEF EnterGetstatus, getStatus
  <2>3. navStatus = "moving" => target = s
    BY <1>4, <2>2 DEF MoveFollowed, Driving
  <2>4. navStatus = "moving" => r = "RUNNING"
    BY <2>1, <2>3 DEF getStatus, Progress
  <2>5. \A c \in Skills \ {s} : state'[c] # "getstatus"
    BY <1>2, <1>4, <2>2 DEF Driving
  <2> QED BY <1>2, <2>1, <2>2, <2>3, <2>4, <2>5 DEF MoveFollowed, navVars, Driving
<1>8. CASE \/ EnterLocking(s, st) \/ EnterReading(s, st) \/ EnterTaking(s, st)
           \/ EnterReleasing(s, st) \/ EnterRollingBack(s, st) \/ EnterUnlocking(s, st)
           \/ EnterCheckResource(s, st) \/ EnterResting(s, st)
  <2>1. UNCHANGED navVars /\ st \notin Driving \cup Stopping
    BY <1>8 DEF EnterLocking, EnterReading, EnterTaking, EnterReleasing, EnterRollingBack,
                Write, EnterUnlocking, EnterCheckResource, EnterResting,
                Locking, Reading, Taking, Releasing, RollingBack, Unlocking, Resting,
                Driving, Stopping
  <2>2. state[s] \in Driving => state[s] = "getstatus" /\ reply[s] # "RUNNING"
    BY <1>1, <2>1 DEF Transitions, Confirmed, Driving, Stopping
  <2>3. navStatus = "moving" => target # s
    BY <2>2 DEF MoveFollowed
  <2> QED BY <1>2, <1>3, <2>1, <2>3 DEF MoveFollowed, navVars, Driving
<1> QED BY <1>1, <1>5, <1>6, <1>7, <1>8 DEF Enter

\* The inductive step for the robot.
LEMMA NextMoveFollowed ==
  ASSUME ~QueriesMayFail, IInv, MoveFollowed, [Next]_vars
  PROVE  MoveFollowed'
<1>1. CASE Move
  BY <1>1 DEF Move, Navigate, Leave, Arrive, Abort, Settle, skillVars, MoveFollowed
<1>2. CASE UNCHANGED <<navVars, state, reply>>
  BY <1>2 DEF navVars, MoveFollowed
<1>3. ASSUME NEW s \in Skills, React(s)
      PROVE  MoveFollowed'
  BY <1>2, <1>3, FollowKeepsMoveFollowed DEF React, Discard
<1>4. CASE \/ StartBlackboard
           \/ \E s \in Skills : Timeout(s) \/ Tree(s)
           \/ UNCHANGED vars
  BY <1>2, <1>4 DEF StartBlackboard, Timeout, Fire, vars, skillVars,
                    Tree, Tick, Return, Poll, Halt, Command
<1> QED BY <1>1, <1>3, <1>4 DEF Next, Skill

\* As long as the navigation server answers queries, the robot moves only to
\* the location of the skill that has the unit: a skill gives the unit back
\* after it has stopped the movement or seen it end.
THEOREM RobotServesHolder ==
  ASSUME ~QueriesMayFail
  PROVE  Spec => []RobotMovesForHolder
<1>1. ASSUME IInv, MoveFollowed PROVE RobotMovesForHolder
  BY <1>1, DriverHolds DEF MoveFollowed, RobotMovesForHolder, Holds
<1>2. IInv /\ MoveFollowed /\ [Next]_vars => MoveFollowed'
  BY NextMoveFollowed
<1>3. IInv /\ MoveFollowed => RobotMovesForHolder
  BY <1>1
<1> QED BY InitMoveFollowed, <1>2, <1>3, IInvAlways, PTL DEF Spec

-----------------------------------------------------------------------------
(* What a skill waits for.  Nothing wakes a statechart but its events, and *)
(* an event that comes in another state is lost.                           *)

Waits(q, e) == \E i \in DOMAIN q : q[i] = e

Pending(s, e) ==
  \/ Waits(internalQueue[s], e) \/ Waits(externalQueue[s], e)
  \/ e \in Timed /\ timers[s][e] > 0

\* An event that moves the skill on from the state it is in.
Awaited(s, e) == Confirmed(s, e) /\ \E st \in States : <<state[s], e, st>> \in Transitions

NeverStuck ==
  \A s \in Skills : state[s] \notin Resting => \E e \in Events : Awaited(s, e) /\ Pending(s, e)

\* An event stays in a queue that others join, and that others leave.
LEMMA WaitsBehind ==
  ASSUME NEW q \in Seq(Events), NEW r \in Seq(Events), NEW e \in Events
  PROVE  /\ Waits(q, e) \/ Waits(r, e) => Waits(q \o r, e)
         /\ q # <<>> /\ Waits(q, e) /\ e # Head(q) => Waits(Tail(q), e)
<1>1. ASSUME NEW i \in DOMAIN q, q[i] = e PROVE Waits(q \o r, e)
  <2>1. i \in DOMAIN (q \o r) /\ (q \o r)[i] = e
    BY <1>1, ConcatProperties
  <2> QED BY <2>1 DEF Waits
<1>2. ASSUME NEW i \in DOMAIN r, r[i] = e PROVE Waits(q \o r, e)
  <2>1. Len(q) + i \in DOMAIN (q \o r) /\ (q \o r)[Len(q) + i] = e
    BY <1>2, ConcatProperties
  <2> QED BY <2>1 DEF Waits
<1>3. ASSUME q # <<>>, NEW i \in DOMAIN q, q[i] = e, e # Head(q) PROVE Waits(Tail(q), e)
  <2>1. i # 1 /\ i \in 1..Len(q)
    BY <1>3
  <2>2. i - 1 \in DOMAIN Tail(q) /\ Tail(q)[i - 1] = e
    BY <1>3, <2>1
  <2> QED BY <2>2 DEF Waits
<1> QED BY <1>1, <1>2, <1>3 DEF Waits

\* What the interpreter does to the queues when it takes an event: what is
\* submitted is pending, and so is what was, but for the event taken.
LEMMA ConsumeLeaves ==
  ASSUME QueuesOK, NEW s \in Skills, HasEvent(s),
         NEW int \in Seq(Events), NEW ext \in Seq(Events), NEW late \in SUBSET Timed,
         Consume(s, int, ext, late), NEW e \in Events
  PROVE  /\ Waits(int, e) \/ Waits(ext, e) \/ e \in late => Pending(s, e)'
         /\ Pending(s, e) /\ e # Event(s) => Pending(s, e)'
<1> DEFINE served == IF internalQueue[s] # <<>> THEN Tail(internalQueue[s]) ELSE internalQueue[s]
           posted == IF internalQueue[s] # <<>> THEN externalQueue[s] ELSE Tail(externalQueue[s])
<1>1. internalQueue[s] \in Seq(Events) /\ externalQueue[s] \in Seq(Events) /\ timers[s] \in [Timed -> Nat]
  BY DEF QueuesOK
<1>2. served \in Seq(Events) /\ posted \in Seq(Events)
  BY <1>1, HeadTailProperties DEF HasEvent
<1>3. /\ internalQueue'[s] = served \o int /\ externalQueue'[s] = posted \o ext
      /\ timers'[s] = [f \in Timed |-> IF f \in late THEN timers[s][f] + 1 ELSE timers[s][f]]
  BY DEF Consume, QueuesOK
<1>4. /\ Waits(internalQueue[s], e) /\ e # Event(s) => Waits(served, e)
      /\ Waits(externalQueue[s], e) /\ e # Event(s) => Waits(posted, e)
  BY <1>1, WaitsBehind DEF Event, HasEvent
<1> HIDE DEF served, posted
<1>5. /\ Waits(served, e) \/ Waits(int, e) => Waits(internalQueue'[s], e)
      /\ Waits(posted, e) \/ Waits(ext, e) => Waits(externalQueue'[s], e)
  <2>1. /\ Waits(served, e) \/ Waits(int, e) => Waits(served \o int, e)
        /\ Waits(posted, e) \/ Waits(ext, e) => Waits(posted \o ext, e)
    BY <1>2, WaitsBehind
  <2> QED BY <1>3, <2>1
<1>6. e \in Timed /\ (e \in late \/ timers[s][e] > 0) => timers'[s][e] > 0
  BY <1>1, <1>3
<1> QED BY <1>4, <1>5, <1>6 DEF Pending

\* What an onentry submits is pending when it ends.
LEMMA SubmittedIsPending ==
  ASSUME QueuesOK, NEW s \in Skills, HasEvent(s), NEW e \in Events,
         Raise(s, e) \/ Send(s, e) \/ (e \in Timed /\ Delay(s, e))
  PROVE  Pending(s, e)'
<1>1. <<>> \in Seq(Events) /\ <<e>> \in Seq(Events) /\ Waits(<<e>>, e) /\ {} \in SUBSET Timed
  BY DEF Waits
<1>2. CASE Raise(s, e)
  BY <1>1, <1>2, ConsumeLeaves DEF Raise
<1>3. CASE Send(s, e)
  BY <1>1, <1>3, ConsumeLeaves DEF Send
<1>4. CASE e \in Timed /\ Delay(s, e)
  BY <1>1, <1>4, ConsumeLeaves DEF Delay
<1> QED BY <1>2, <1>3, <1>4

\* The transitions out of the states that wait.
LEMMA WaysOut ==
  /\ \A st \in Locking : \E to \in States : <<st, "LOCK_TRUE", to>> \in Transitions
  /\ \A st \in Locking : \E to \in States : <<st, "LOCK_FALSE", to>> \in Transitions
  /\ \E to \in States : <<"lockKey", "INVALID_KEY", to>> \in Transitions
  /\ \A st \in Reading \ {"readData"} : \E to \in States : <<st, "DATA_READ", to>> \in Transitions
  /\ \A e \in {"DATA_EQUAL_ZERO", "DATA_GREATER_THAN_ZERO"} :
       \E to \in States : <<"readData", e, to>> \in Transitions
  /\ \A st \in Taking \cup Releasing \cup RollingBack :
       \E to \in States : <<st, "WRITE_DATA_TRUE", to>> \in Transitions
  /\ \A st \in Unlocking \ {"unlockBusy"} : \E to \in States : <<st, "UNLOCK_TRUE", to>> \in Transitions
  /\ \E to \in States : <<"unlockBusy", "UNLOCK_BUSY_TRUE", to>> \in Transitions
  /\ \E to \in States : <<"internal_unlockKey", "UNLOCK_FALSE", to>> \in Transitions
  /\ \A st \in Stopping : \E to \in States : <<st, "RESET", to>> \in Transitions
  /\ \E to \in States : <<"sendrequest", "REQUEST_SENT", to>> \in Transitions
  /\ \A e \in {"STATUS_RUNNING", "STATUS_SUCCESS", "STATUS_FAILED"} :
       \E to \in States : <<"getstatus", e, to>> \in Transitions
  /\ \A e \in {"TO_IDLE", "FREE_UP"} : \E to \in States : <<"checkResource", e, to>> \in Transitions
<1> USE DEF States, Locking, Reading, Taking, Releasing, RollingBack, Unlocking, Stopping, Driving, Resting
<1>1. \A st \in Locking : \E to \in States : <<st, "LOCK_TRUE", to>> \in Transitions
  BY DEF Transitions
<1>2. \A st \in Locking : \E to \in States : <<st, "LOCK_FALSE", to>> \in Transitions
  BY DEF Transitions
<1>3. \E to \in States : <<"lockKey", "INVALID_KEY", to>> \in Transitions
  BY DEF Transitions
<1>4. \A st \in Reading \ {"readData"} : \E to \in States : <<st, "DATA_READ", to>> \in Transitions
  BY DEF Transitions
<1>5. \A e \in {"DATA_EQUAL_ZERO", "DATA_GREATER_THAN_ZERO"} :
        \E to \in States : <<"readData", e, to>> \in Transitions
  BY DEF Transitions
<1>6. \A st \in Taking \cup Releasing \cup RollingBack :
        \E to \in States : <<st, "WRITE_DATA_TRUE", to>> \in Transitions
  BY DEF Transitions
<1>7. \A st \in Unlocking \ {"unlockBusy"} : \E to \in States : <<st, "UNLOCK_TRUE", to>> \in Transitions
  BY DEF Transitions
<1>8. /\ \E to \in States : <<"unlockBusy", "UNLOCK_BUSY_TRUE", to>> \in Transitions
      /\ \E to \in States : <<"internal_unlockKey", "UNLOCK_FALSE", to>> \in Transitions
  BY DEF Transitions
<1>9. /\ \A st \in Stopping : \E to \in States : <<st, "RESET", to>> \in Transitions
      /\ \E to \in States : <<"sendrequest", "REQUEST_SENT", to>> \in Transitions
  BY DEF Transitions
<1>10. \A e \in {"STATUS_RUNNING", "STATUS_SUCCESS", "STATUS_FAILED"} :
         \E to \in States : <<"getstatus", e, to>> \in Transitions
  BY DEF Transitions
<1>11. \A e \in {"TO_IDLE", "FREE_UP"} : \E to \in States : <<"checkResource", e, to>> \in Transitions
  BY DEF Transitions
<1> QED BY <1>1, <1>2, <1>3, <1>4, <1>5, <1>6, <1>7, <1>8, <1>9, <1>10, <1>11

\* A skill that enters a state and submits an event that the state takes.
LEMMA EntryAwaits ==
  ASSUME NEW s \in Skills, NEW st \in States, Entering(s, st), NEW e \in Events,
         Raise(s, e) \/ Send(s, e) \/ (e \in Timed /\ Delay(s, e)),
         Confirmed(s, e)', \E to \in States : <<st, e, to>> \in Transitions
  PROVE  Awaited(s, e)' /\ Pending(s, e)'
<1>1. Pending(s, e)'
  BY SubmittedIsPending DEF Entering, IInv, TypeOK, SkillTypeOK, QueuesOK
<1>2. state'[s] = st
  BY DEF Entering, IInv, TypeOK, SkillTypeOK
<1> QED BY <1>1, <1>2 DEF Awaited

\* By kind of onentry: a state that is not at rest submits what it waits for.
\* That none is without an answer rests on the invariant: the requests of the
\* owner of the lock are granted, and what it reads is no negative number.
LEMMA EntrySubmits ==
  ASSUME NEW s \in Skills, NEW st \in States, Entering(s, st), Enter(s, st), IInv', st \notin Resting
  PROVE  \E e \in Events : Awaited(s, e)' /\ Pending(s, e)'
<1> USE NavigationAssumption
<1>1. /\ state'[s] = st /\ \A r : reply' = [reply EXCEPT ![s] = r] => reply'[s] = r
      /\ \A v : currVal' = [currVal EXCEPT ![s] = v] => currVal'[s] = v
      /\ resourceCount[s] \in {0, 1} /\ Arrival(s, st)
  BY DEF Entering, IInv, TypeOK, SkillTypeOK, Counted
<1>2. st \in Editing \cup (Unlocking \ {"internal_unlockKey"}) => reply'[s] = "VALID"
  BY <1>1 DEF IInv, Granted
<1>3. CASE EnterLocking(s, st)
  <2>1. PICK r \in requestEvaluation :
          /\ lock(s, Navigation, r)
          /\ reply' = [reply EXCEPT ![s] = r]
          /\ \/ r = "VALID" /\ Send(s, "LOCK_TRUE")
             \/ r # "VALID" /\ st \in Locking \ {"lockKey", "lockKey_3"} /\ Send(s, "LOCK_FALSE")
             \/ r # "VALID" /\ st = "lockKey_3" /\ Delay(s, "LOCK_FALSE")
             \/ r = "UNAUTHORIZED_CLIENT" /\ st = "lockKey" /\ Delay(s, "LOCK_FALSE")
             \/ r \notin {"VALID", "UNAUTHORIZED_CLIENT"} /\ st = "lockKey" /\ Send(s, "INVALID_KEY")
    BY <1>3 DEF EnterLocking
  <2>2. st \in Locking /\ r # "UNKNOWN" /\ reply'[s] = r
    BY <1>1, <1>3, <2>1 DEF EnterLocking, lock, Evaluate, Entering, IInv, StoreFilled
  <2>3. CASE r = "VALID"
    <3>1. Send(s, "LOCK_TRUE") /\ "LOCK_TRUE" \in Events
      BY <2>1, <2>3 DEF Events
    <3>2. Confirmed(s, "LOCK_TRUE")'
      BY <1>1, <2>2, <2>3 DEF Confirmed, Locking
    <3> QED BY <2>2, <3>1, <3>2, WaysOut, EntryAwaits
  <2>4. CASE r # "VALID" /\ (st # "lockKey" \/ r = "UNAUTHORIZED_CLIENT")
    <3>1. (Send(s, "LOCK_FALSE") \/ Delay(s, "LOCK_FALSE")) /\ "LOCK_FALSE" \in Events \cap Timed
      BY <2>1, <2>4 DEF Events, Timed
    <3>2. Confirmed(s, "LOCK_FALSE")'
      BY <1>1, <2>2, <2>4 DEF Confirmed, Locking
    <3> QED BY <2>2, <3>1, <3>2, WaysOut, EntryAwaits
  <2>5. CASE r = "INVALID_KEY" /\ st = "lockKey"
    <3>1. Send(s, "INVALID_KEY") /\ "INVALID_KEY" \in Events
      BY <2>1, <2>5 DEF Events
    <3>2. Confirmed(s, "INVALID_KEY")'
      BY <1>1, <2>2, <2>5 DEF Confirmed
    <3> QED BY <2>5, <3>1, <3>2, WaysOut, EntryAwaits
  <2> QED BY <2>2, <2>3, <2>4, <2>5 DEF requestEvaluation
<1>4. CASE EnterReading(s, st)
  <2>1. PICK r \in requestEvaluation, v \in Numbers :
          /\ reply' = [reply EXCEPT ![s] = r]
          /\ currVal' = [currVal EXCEPT ![s] = IF r = "VALID" THEN v
                                               ELSE IF st = "readData" THEN -1 ELSE @]
          /\ \/ r = "VALID" /\ st # "readData" /\ Send(s, "DATA_READ")
             \/ r = "VALID" /\ st = "readData" /\ v = 0 /\ Send(s, "DATA_EQUAL_ZERO")
             \/ r = "VALID" /\ st = "readData" /\ v > 0 /\ Send(s, "DATA_GREATER_THAN_ZERO")
             \/ r = "VALID" /\ st = "readData" /\ v < 0 /\ Quiet(s)
             \/ r # "VALID" /\ Quiet(s)
    BY <1>4 DEF EnterReading
  <2>2. st \in Reading /\ r = "VALID" /\ reply'[s] = "VALID" /\ currVal'[s] = v
    BY <1>1, <1>2, <1>4, <2>1 DEF EnterReading, Editing
  <2>3. v \in {0, 1}
    <3>1. v = Units' /\ Owns(s, Navigation)'
      BY <1>1, <2>2 DEF IInv, Current, LockKnown, Editing
    <3> QED BY <3>1 DEF IInv, UnitConserved, Owns, Units
  <2>4. CASE st # "readData"
    <3>1. Send(s, "DATA_READ") /\ "DATA_READ" \in Events
      BY <2>1, <2>2, <2>4 DEF Events
    <3>2. Confirmed(s, "DATA_READ")'
      BY <1>1, <2>2 DEF Confirmed, Reading
    <3> QED BY <2>2, <2>4, <3>1, <3>2, WaysOut, EntryAwaits
  <2>5. CASE st = "readData" /\ v = 0
    <3>1. Send(s, "DATA_EQUAL_ZERO") /\ "DATA_EQUAL_ZERO" \in Events
      BY <2>1, <2>2, <2>5 DEF Events
    <3>2. Confirmed(s, "DATA_EQUAL_ZERO")'
      BY <1>1, <2>2, <2>5 DEF Confirmed
    <3> QED BY <2>5, <3>1, <3>2, WaysOut, EntryAwaits
  <2>6. CASE st = "readData" /\ v = 1
    <3>1. Send(s, "DATA_GREATER_THAN_ZERO") /\ "DATA_GREATER_THAN_ZERO" \in Events
      BY <2>1, <2>2, <2>6 DEF Events
    <3>2. Confirmed(s, "DATA_GREATER_THAN_ZERO")'
      BY <1>1, <2>2, <2>6 DEF Confirmed
    <3> QED BY <2>6, <3>1, <3>2, WaysOut, EntryAwaits
  <2> QED BY <2>3, <2>4, <2>5, <2>6
<1>5. CASE EnterTaking(s, st) \/ EnterReleasing(s, st) \/ EnterRollingBack(s, st)
  <2>1. st \in Taking \cup Releasing \cup RollingBack /\ reply'[s] = "VALID"
    BY <1>2, <1>5 DEF EnterTaking, EnterReleasing, EnterRollingBack, Editing
  <2>2. Send(s, "WRITE_DATA_TRUE") /\ "WRITE_DATA_TRUE" \in Events
    BY <1>1, <1>5, <2>1 DEF EnterTaking, EnterReleasing, EnterRollingBack, Write, Events
  <2>3. Confirmed(s, "WRITE_DATA_TRUE")'
    BY <1>1, <2>1 DEF Confirmed, Taking, Releasing, RollingBack
  <2> QED BY <2>1, <2>2, <2>3, WaysOut, EntryAwaits
<1>6. CASE EnterUnlocking(s, st)
  <2>1. PICK r \in requestEvaluation :
          /\ reply' = [reply EXCEPT ![s] = r]
          /\ \/ st = "internal_unlockKey" /\ r = "VALID" /\ Delay(s, "UNLOCK_TRUE")
             \/ st = "internal_unlockKey" /\ r # "VALID" /\ Raise(s, "UNLOCK_FALSE")
             \/ st # "internal_unlockKey" /\ Send(s, Unlocked(s, st, r))
    BY <1>6 DEF EnterUnlocking
  <2>2. st \in Unlocking /\ reply'[s] = r /\ resourceCount' = resourceCount
    BY <1>1, <1>6, <2>1 DEF EnterUnlocking
  <2>3. CASE st = "internal_unlockKey"
    <3>1. /\ {"UNLOCK_TRUE", "UNLOCK_FALSE"} \subseteq Events /\ "UNLOCK_TRUE" \in Timed
          /\ Confirmed(s, "UNLOCK_TRUE")' /\ Confirmed(s, "UNLOCK_FALSE")'
      BY <1>1, <2>3 DEF Events, Timed, Confirmed
    <3>2. Delay(s, "UNLOCK_TRUE") \/ Raise(s, "UNLOCK_FALSE")
      BY <2>1, <2>3
    <3>3. \A e \in {"UNLOCK_TRUE", "UNLOCK_FALSE"} : \E to \in States : <<st, e, to>> \in Transitions
      BY <2>3, WaysOut DEF Unlocking
    <3>4. CASE Delay(s, "UNLOCK_TRUE")
      BY <3>1, <3>3, <3>4, EntryAwaits
    <3>5. CASE Raise(s, "UNLOCK_FALSE")
      BY <3>1, <3>3, <3>5, EntryAwaits
    <3> QED BY <3>2, <3>4, <3>5
  <2>4. CASE st = "unlockBusy"
    <3>1. reply'[s] = "VALID" /\ r = "VALID"
      BY <1>2, <2>2, <2>4
    <3>2. Send(s, "UNLOCK_BUSY_TRUE") /\ "UNLOCK_BUSY_TRUE" \in Events
      BY <2>1, <2>4, <3>1 DEF Unlocked, Events
    <3>3. Confirmed(s, "UNLOCK_BUSY_TRUE")'
      BY <1>1, <2>4, <3>1 DEF Confirmed
    <3> QED BY <2>4, <3>2, <3>3, WaysOut, EntryAwaits
  <2>5. CASE st \notin {"internal_unlockKey", "unlockBusy"}
    <3>1. reply'[s] = "VALID" /\ r = "VALID"
      BY <1>2, <2>2, <2>5
    <3>2. st = "unlockKey_3" => resourceCount[s] = 0
      BY <1>1, <2>2, <2>5 DEF Arrival
    <3>3. Send(s, "UNLOCK_TRUE") /\ "UNLOCK_TRUE" \in Events
      BY <2>1, <2>5, <3>1, <3>2 DEF Unlocked, Events, Timed
    <3>4. Confirmed(s, "UNLOCK_TRUE")'
      BY <1>1, <2>2, <2>5, <3>1, <3>2 DEF Confirmed
    <3> QED BY <2>2, <2>5, <3>3, <3>4, WaysOut, EntryAwaits
  <2> QED BY <2>3, <2>4, <2>5
<1>7. CASE EnterStopping(s, st)
  <2>1. (Raise(s, "RESET") \/ Delay(s, "RESET")) /\ "RESET" \in Events \cap Timed
    BY <1>7 DEF EnterStopping, Events, Timed
  <2>2. Confirmed(s, "RESET")'
    BY <1>1, <1>7 DEF EnterStopping, Stopping, Confirmed
  <2>3. st \in Stopping
    BY <1>7 DEF EnterStopping
  <2> QED BY <2>1, <2>2, <2>3, WaysOut, EntryAwaits
<1>8. CASE EnterSendrequest(s, st)
  <2>1. st = "sendrequest" /\ Delay(s, "REQUEST_SENT") /\ "REQUEST_SENT" \in Events \cap Timed
    BY <1>8 DEF EnterSendrequest, Events, Timed
  <2>2. Confirmed(s, "REQUEST_SENT")'
    BY <1>1, <2>1 DEF Confirmed
  <2> QED BY <2>1, <2>2, WaysOut, EntryAwaits
<1>9. CASE EnterGetstatus(s, st)
  <2>1. PICK r \in GoToStatus :
          /\ reply' = [reply EXCEPT ![s] = r]
          /\ \/ r = "RUNNING" /\ Delay(s, "STATUS_RUNNING")
             \/ r = "SUCCESS" /\ Send(s, "STATUS_SUCCESS")
             \/ r \in {"ABORT", "NOT_STARTED"} /\ Send(s, "STATUS_FAILED")
    BY <1>9 DEF EnterGetstatus
  <2>2. /\ st = "getstatus" /\ reply'[s] = r
        /\ {"STATUS_RUNNING", "STATUS_SUCCESS", "STATUS_FAILED"} \subseteq Events
        /\ "STATUS_RUNNING" \in Timed
    BY <1>1, <1>9, <2>1 DEF EnterGetstatus, Events, Timed
  <2>3. CASE r = "RUNNING"
    <3>1. Delay(s, "STATUS_RUNNING") /\ Confirmed(s, "STATUS_RUNNING")'
      BY <1>1, <2>1, <2>2, <2>3 DEF Confirmed
    <3> QED BY <2>2, <3>1, WaysOut, EntryAwaits
  <2>4. CASE r = "SUCCESS"
    <3>1. Send(s, "STATUS_SUCCESS") /\ Confirmed(s, "STATUS_SUCCESS")'
      BY <1>1, <2>1, <2>2, <2>4 DEF Confirmed
    <3> QED BY <2>2, <3>1, WaysOut, EntryAwaits
  <2>5. CASE r \in {"ABORT", "NOT_STARTED"}
    <3>1. Send(s, "STATUS_FAILED") /\ Confirmed(s, "STATUS_FAILED")'
      BY <1>1, <2>1, <2>2, <2>5 DEF Confirmed
    <3> QED BY <2>2, <3>1, WaysOut, EntryAwaits
  <2> QED BY <2>3, <2>4, <2>5 DEF GoToStatus
<1>10. CASE EnterCheckResource(s, st)
  <2>1. /\ st = "checkResource" /\ {"TO_IDLE", "FREE_UP"} \subseteq Events
        /\ Send(s, IF resourceCount[s] = 0 THEN "TO_IDLE" ELSE "FREE_UP")
        /\ resourceCount'[s] = resourceCount[s]
    BY <1>10 DEF EnterCheckResource, Events
  <2>2. CASE resourceCount[s] = 0
    <3>1. Send(s, "TO_IDLE") /\ Confirmed(s, "TO_IDLE")'
      BY <1>1, <2>1, <2>2 DEF Confirmed
    <3> QED BY <2>1, <3>1, WaysOut, EntryAwaits
  <2>3. CASE resourceCount[s] = 1
    <3>1. Send(s, "FREE_UP") /\ Confirmed(s, "FREE_UP")'
      BY <1>1, <2>1, <2>3 DEF Confirmed
    <3> QED BY <2>1, <3>1, WaysOut, EntryAwaits
  <2> QED BY <1>1, <2>2, <2>3
<1>11. CASE EnterResting(s, st)
  BY <1>11 DEF EnterResting
<1> QED BY <1>3, <1>4, <1>5, <1>6, <1>7, <1>8, <1>9, <1>10, <1>11 DEF Enter

\* A skill that no step concerns keeps what it waits for.
LEMMA OthersKeepWaiting ==
  ASSUME IInv, NeverStuck, NEW c \in Skills,
         /\ state'[c] = state[c] /\ reply'[c] = reply[c]
         /\ currVal'[c] = currVal[c] /\ resourceCount'[c] = resourceCount[c],
         \A e \in Events : Awaited(c, e) /\ Pending(c, e) => Pending(c, e)'
  PROVE  state'[c] \notin Resting => \E e \in Events : Awaited(c, e)' /\ Pending(c, e)'
<1>1. ASSUME NEW e \in Events, Awaited(c, e) PROVE Awaited(c, e)'
  BY <1>1 DEF Awaited, Confirmed
<1> QED BY <1>1 DEF NeverStuck

\* Taking an event that nothing waits for.
LEMMA DiscardKeepsWaiting ==
  ASSUME IInv, NEW s \in Skills, Discard(s), NEW e \in Events, Awaited(s, e), Pending(s, e)
  PROVE  Pending(s, e)'
<1>1. QueuesOK /\ state[s] \in States
  BY DEF IInv, TypeOK, SkillTypeOK, QueuesOK
<1>2. HasEvent(s) /\ Targets(s) = {} /\ Quiet(s)
  BY DEF Discard
<1>3. e # Event(s)
  BY <1>1, <1>2 DEF Awaited, Targets, Successors
<1>4. <<>> \in Seq(Events) /\ {} \in SUBSET Timed
  OBVIOUS
<1> QED BY <1>1, <1>2, <1>3, <1>4, ConsumeLeaves DEF Quiet

\* A timer that fires becomes an event in a queue.
LEMMA FireKeepsWaiting ==
  ASSUME IInv, NEW s \in Skills, NEW f \in Timed, Fire(s, f), NEW e \in Events, Pending(s, e)
  PROVE  Pending(s, e)'
<1>1. /\ internalQueue \in [Skills -> Seq(Events)] /\ externalQueue \in [Skills -> Seq(Events)]
      /\ timers \in [Skills -> [Timed -> Nat]] /\ f \in Events
  BY DEF IInv, TypeOK, SkillTypeOK, Events
<1>2. \A q \in Seq(Events) : /\ Waits(q, e) => Waits(Append(q, f), e)
                             /\ Waits(Append(q, f), f)
  <2> SUFFICES ASSUME NEW q \in Seq(Events)
               PROVE  (Waits(q, e) => Waits(Append(q, f), e)) /\ Waits(Append(q, f), f)
    OBVIOUS
  <2>1. <<f>> \in Seq(Events) /\ Waits(<<f>>, f) /\ Append(q, f) = q \o <<f>>
    BY <1>1 DEF Waits
  <2> QED BY <1>1, <2>1, WaitsBehind
<1>3. /\ internalQueue'[s] \in {internalQueue[s], Append(internalQueue[s], f)}
      /\ externalQueue'[s] \in {externalQueue[s], Append(externalQueue[s], f)}
      /\ internalQueue'[s] = Append(internalQueue[s], f) \/ externalQueue'[s] = Append(externalQueue[s], f)
      /\ e # f /\ e \in Timed => timers'[s][e] = timers[s][e]
  BY <1>1 DEF Fire
<1> QED BY <1>1, <1>2, <1>3 DEF Pending

\* A command queues up behind.
LEMMA CommandKeepsWaiting ==
  ASSUME IInv, NEW s \in Skills, NEW f \in Events, Command(s, f), NEW e \in Events, Pending(s, e)
  PROVE  Pending(s, e)'
<1>1. externalQueue \in [Skills -> Seq(Events)]
  BY DEF IInv, TypeOK, SkillTypeOK
<1>2. externalQueue'[s] = externalQueue[s] \o <<f>> /\ <<f>> \in Seq(Events)
  BY <1>1 DEF Command
<1>3. Waits(externalQueue[s], e) => Waits(externalQueue'[s], e)
  BY <1>1, <1>2, WaitsBehind
<1> QED BY <1>3 DEF Command, Pending

\* What a skill knows of itself and waits for: no other skill's step changes it.
Own(c) == <<state[c], reply[c], currVal[c], resourceCount[c], internalQueue[c], externalQueue[c], timers[c]>>

LEMMA OwnUnchanged ==
  ASSUME NeverStuck, IInv, NEW c \in Skills, UNCHANGED Own(c)
  PROVE  state'[c] \notin Resting => \E e \in Events : Awaited(c, e)' /\ Pending(c, e)'
<1>1. \A e \in Events : Pending(c, e) => Pending(c, e)'
  BY DEF Own, Pending
<1> QED BY <1>1, OthersKeepWaiting DEF Own

\* A step of one skill.
LEMMA StepOfOne ==
  ASSUME IInv, NEW s \in Skills,
         \/ React(s) \/ Timeout(s) \/ \E e \in {"CMD_START", "CMD_STOP"} : Command(s, e),
         NEW c \in Skills \ {s}
  PROVE  UNCHANGED Own(c)
<1> USE DEF IInv, TypeOK, SkillTypeOK
<1>1. ASSUME NEW int, NEW ext, NEW late, Consume(s, int, ext, late)
      PROVE  UNCHANGED <<internalQueue[c], externalQueue[c], timers[c]>>
  BY <1>1 DEF Consume
<1>2. CASE Discard(s)
  BY <1>1, <1>2 DEF Discard, Quiet, Own
<1>3. CASE Timeout(s)
  BY <1>3 DEF Timeout, Fire, Own
<1>4. CASE \E e \in {"CMD_START", "CMD_STOP"} : Command(s, e)
  BY <1>4 DEF Command, Own
<1>5. CASE Follow(s)
  <2>1. PICK st \in Targets(s) : state' = [state EXCEPT ![s] = st] /\ Enter(s, st)
    BY <1>5 DEF Follow
  <2>2. UNCHANGED <<internalQueue[c], externalQueue[c], timers[c]>>
    <3>1. \/ \E e : Raise(s, e) \/ Send(s, e) \/ Delay(s, e)
          \/ Quiet(s)
      BY <2>1 DEF Enter, EnterLocking, EnterReading, EnterTaking, EnterReleasing, EnterRollingBack,
                  Write, EnterUnlocking, EnterStopping, EnterSendrequest, EnterGetstatus,
                  EnterCheckResource, EnterResting
    <3> QED BY <1>1, <3>1 DEF Raise, Send, Delay, Quiet
  <2>3. UNCHANGED <<reply[c], currVal[c], resourceCount[c]>>
    BY <2>1 DEF Enter, EnterLocking, EnterReading, EnterTaking, EnterReleasing, EnterRollingBack,
                Write, EnterUnlocking, EnterStopping, EnterSendrequest, EnterGetstatus,
                EnterCheckResource, EnterResting
  <2> QED BY <2>1, <2>2, <2>3 DEF Own
<1> QED BY <1>2, <1>3, <1>4, <1>5 DEF React

\* The inductive step.
LEMMA NextNeverStuck ==
  ASSUME IInv, NeverStuck, [Next]_vars, IInv'
  PROVE  NeverStuck'
<1>1. CASE UNCHANGED skillVars
  BY <1>1, OwnUnchanged DEF skillVars, Own, NeverStuck
<1>2. ASSUME NEW s \in Skills,
             \/ React(s) \/ Timeout(s) \/ \E e \in {"CMD_START", "CMD_STOP"} : Command(s, e),
             state'[s] \notin Resting => \E e \in Events : Awaited(s, e)' /\ Pending(s, e)'
      PROVE  NeverStuck'
  BY <1>2, StepOfOne, OwnUnchanged DEF NeverStuck
<1>3. ASSUME NEW s \in Skills, Follow(s), UNCHANGED btVars PROVE NeverStuck'
  <2>1. PICK st \in States : Entering(s, st) /\ Enter(s, st)
    BY <1>3, FollowEnters
  <2>2. state'[s] = st
    BY <2>1 DEF Entering, IInv, TypeOK, SkillTypeOK
  <2> QED BY <1>2, <1>3, <2>1, <2>2, EntrySubmits DEF React
<1>4. ASSUME NEW s \in Skills, Discard(s), UNCHANGED btVars PROVE NeverStuck'
  <2>1. /\ state'[s] = state[s] /\ reply'[s] = reply[s]
        /\ currVal'[s] = currVal[s] /\ resourceCount'[s] = resourceCount[s]
    BY <1>4 DEF Discard
  <2> QED BY <1>2, <1>4, <2>1, DiscardKeepsWaiting, OthersKeepWaiting DEF React
<1>5. ASSUME NEW s \in Skills, Timeout(s) PROVE NeverStuck'
  <2>1. PICK f \in Timed : Fire(s, f)
    BY <1>5 DEF Timeout
  <2>2. /\ state'[s] = state[s] /\ reply'[s] = reply[s]
        /\ currVal'[s] = currVal[s] /\ resourceCount'[s] = resourceCount[s]
    BY <2>1 DEF Fire
  <2> QED BY <1>2, <1>5, <2>1, <2>2, FireKeepsWaiting, OthersKeepWaiting
<1>6. ASSUME NEW s \in Skills, NEW f \in {"CMD_START", "CMD_STOP"}, Command(s, f) PROVE NeverStuck'
  <2>1. /\ state'[s] = state[s] /\ reply'[s] = reply[s] /\ f \in Events
        /\ currVal'[s] = currVal[s] /\ resourceCount'[s] = resourceCount[s]
    BY <1>6 DEF Command, Events
  <2> QED BY <1>2, <1>6, <2>1, CommandKeepsWaiting, OthersKeepWaiting
<1>7. CASE StartBlackboard \/ Move \/ UNCHANGED vars
  BY <1>1, <1>7 DEF StartBlackboard, Move, vars
<1>8. ASSUME NEW s \in Skills, Tree(s) PROVE NeverStuck'
  <2>1. UNCHANGED skillVars \/ \E f \in {"CMD_START", "CMD_STOP"} : Command(s, f)
    BY <1>8 DEF Tree, Tick, Return, Poll, Halt, vars
  <2> QED BY <1>1, <1>6, <2>1
<1> QED BY <1>3, <1>4, <1>5, <1>7, <1>8 DEF Next, Skill, React

\* A skill that is not at rest always has an event on its way that the state it
\* is in takes, whichever events of states it has left come before it: no
\* request it makes is refused in a way that it does not handle, and no event it
\* counts on is lost.  A skill that keeps the lock or the unit is never at rest
\* (RestLeavesNothing), and so goes on until it has given both back, or tries.
THEOREM NoSkillIsStuck == Spec => []NeverStuck
<1>1. Init => NeverStuck
  BY DEF Init, SkillInit, NeverStuck, Resting
<1>2. IInv /\ NeverStuck /\ [Next]_vars /\ IInv' => NeverStuck'
  BY NextNeverStuck
<1> QED BY <1>1, <1>2, IInvAlways, PTL DEF Spec

=============================================================================
