------------------------ MODULE ChargingMissionProofs ------------------------
(***************************************************************************)
(* The robot under the behaviour tree, for any levels of the battery, any  *)
(* currents and every combination of faults.                               *)
(***************************************************************************)
EXTENDS ChargingMission, FiniteSetTheorems, TLAPS

Station == "GoToChargingStation"
Mission == "GoToDestination"

AtWork(a) == skill[a] \in {"waiting", "driving"}

\* The command that waits in the queue of a: there is never more than one.
Called(a)  == commands[a] = <<"CMD_START">>
Halting(a) == commands[a] = <<"CMD_STOP">>

\* The leaves of a tick after a may have been halted in it.
Past(a) == IF a = Station THEN {"IsAtDestination", Mission, "Wait", "rest"} ELSE {"Wait", "rest"}

\* What the library remembers as RUNNING is enough to stop the skills: one that
\* is at work and has not missed a CMD_STOP is remembered, or about to stop, or
\* its tick has not returned yet; and never are both remembered.
Remembered ==
  /\ \A a \in Actions :
       /\ commands[a] = <<>> \/ Called(a) \/ Halting(a)
       /\ Called(a) => leaf = a /\ asked /\ skill[a] = "idle"
       /\ Halting(a) => a \notin running_ /\ leaf \in Past(a)
       /\ AtWork(a) /\ a \notin missed => a \in running_ \/ Halting(a) \/ (leaf = a /\ asked)
  /\ asked => leaf \in Actions
  /\ ~(Actions \subseteq running_)
  /\ leaf \in {"Wait", "IsAtDestination", Mission} => Station \notin running_

TInv == TypeOK /\ Remembered

-----------------------------------------------------------------------------
LEMMA Currents ==
  /\ 0 \in Magnitudes
  /\ \A c \in Magnitudes : c \in Nat /\ -c \in Magnitudes \cup {-m : m \in Magnitudes}
  /\ \A c \in Magnitudes \cup {-m : m \in Magnitudes} : c \in Int /\ Magnitude(c) \in Magnitudes
BY BatteryAssumption DEF Magnitudes, Magnitude

\* What the station takes for the load is one.
LEMMA LoadIsSaved ==
  ASSUME BatteryTypeOK
  PROVE  SavedCurrent \in Magnitudes /\ SavedCurrent > 0
BY Currents, BatteryAssumption DEF BatteryTypeOK, SavedCurrent, Magnitudes

LEMMA StationKeepsTypes ==
  ASSUME BatteryTypeOK, NEW docked \in BOOLEAN, updateModule(docked)
  PROVE  BatteryTypeOK'
<1>1. CASE docked
  <2>1. discharge_current' \in Magnitudes
    BY <1>1, LoadIsSaved DEF updateModule, Docks, BatteryTypeOK
  <2>2. current' \in Magnitudes \cup {-m : m \in Magnitudes}
    BY <1>1, <2>1, Currents DEF updateModule
  <2> QED BY <1>1, <2>1, <2>2 DEF updateModule, BatteryTypeOK
<1>2. CASE ~docked
  BY <1>2 DEF updateModule, BatteryTypeOK
<1> QED BY <1>1, <1>2

LEMMA BatteryKeepsTypes ==
  ASSUME BatteryTypeOK, Integrate \/ StationCrash \/ StationRestart
  PROVE  BatteryTypeOK'
<1>1. CASE Integrate
  <2>1. charge' \in 0..Full
    BY <1>1, BatteryAssumption DEF Integrate, BatteryTypeOK
  <2> QED BY <1>1, <2>1 DEF Integrate, BatteryTypeOK
<1>2. CASE StationCrash \/ StationRestart
  BY <1>2, Currents DEF StationCrash, StationRestart, BatteryTypeOK
<1> QED BY <1>1, <1>2

LEMMA NextLeafType ==
  ASSUME NEW l \in Leaves, NEW r
  PROVE  NextLeaf(l, r) \in Leaves \cup {"rest"}
BY DEF NextLeaf, Leaves, ConditionLeaves, Actions

-----------------------------------------------------------------------------
(* The queues.                                                             *)
LEMMA Queues ==
  /\ Append(<<>>, "CMD_STOP") = <<"CMD_STOP">> /\ Append(<<>>, "CMD_START") = <<"CMD_START">>
  /\ Head(<<"CMD_STOP">>) = "CMD_STOP" /\ Head(<<"CMD_START">>) = "CMD_START"
  /\ Tail(<<"CMD_STOP">>) = <<>> /\ Tail(<<"CMD_START">>) = <<>>
  /\ <<>> # <<"CMD_STOP">> /\ <<>> # <<"CMD_START">> /\ <<"CMD_START">> # <<"CMD_STOP">>
  /\ {<<>>, <<"CMD_STOP">>, <<"CMD_START">>} \subseteq Seq(Commands)
<1>1. <<>> \in Seq(Commands) /\ <<"CMD_STOP">> \in Seq(Commands) /\ <<"CMD_START">> \in Seq(Commands)
  BY DEF Commands
<1>2. Len(<<"CMD_STOP">>) = 1 /\ Len(<<"CMD_START">>) = 1 /\ Len(<<>>) = 0
  OBVIOUS
<1>3. <<"CMD_STOP">>[1] = "CMD_STOP" /\ <<"CMD_START">>[1] = "CMD_START"
  OBVIOUS
<1>4. Head(<<"CMD_STOP">>) = "CMD_STOP" /\ Head(<<"CMD_START">>) = "CMD_START"
  OBVIOUS
<1>5. Append(<<>>, "CMD_STOP") = <<"CMD_STOP">> /\ Append(<<>>, "CMD_START") = <<"CMD_START">>
  OBVIOUS
<1>6. Tail(<<"CMD_STOP">>) = <<>> /\ Tail(<<"CMD_START">>) = <<>>
  OBVIOUS
<1>7. <<>> # <<"CMD_STOP">> /\ <<>> # <<"CMD_START">> /\ <<"CMD_START">> # <<"CMD_STOP">>
  BY <1>2, <1>3
<1> QED BY <1>1, <1>4, <1>5, <1>6, <1>7

LEMMA Two == Actions = {Station, Mission} /\ Station # Mission /\ Station \in Actions /\ Mission \in Actions
BY DEF Actions, Station, Mission

\* The skill a takes a command.
LEMMA Taken ==
  ASSUME TInv, NEW a \in Actions, NEW c \in Commands, Takes(a, c)
  PROVE  /\ commands[a] = <<c>> /\ commands' \in [Actions -> Seq(Commands)]
         /\ commands'[a] = <<>>
         /\ \A b \in Actions : b # a => commands'[b] = commands[b]
         /\ UNCHANGED <<leaf, asked, running_, charge, current, prev_docked, discharge_current, running, place>>
<1>1. /\ commands \in [Actions -> Seq(Commands)]
      /\ commands[a] = <<>> \/ commands[a] = <<"CMD_START">> \/ commands[a] = <<"CMD_STOP">>
  BY DEF TInv, TypeOK, Remembered, Called, Halting
<1>2. /\ commands[a] # <<>> /\ Head(commands[a]) = c
      /\ commands' = [commands EXCEPT ![a] = Tail(@)]
      /\ UNCHANGED <<leaf, asked, running_, charge, current, prev_docked, discharge_current, running, place>>
  BY DEF Takes, treeVars, batteryVars
<1>3. commands[a] = <<c>> /\ Tail(commands[a]) = <<>>
  BY <1>1, <1>2, Queues
<1>4. <<>> \in Seq(Commands)
  BY Queues
<1> QED BY <1>1, <1>2, <1>3, <1>4

-----------------------------------------------------------------------------
(* The tree visits a leaf.                                                 *)

\* What the visit of a leaf does.
LEMMA VisitWhat ==
  ASSUME TInv, NEW l \in Leaves, NEW r, LeafReturns(l, r)
  PROVE  /\ leaf = l /\ leaf' = NextLeaf(l, r) /\ asked' = FALSE
         /\ UNCHANGED <<charge, current, prev_docked, discharge_current, running, place, skill, came>>
         /\ missed' = missed \ {l}
         /\ commands' \in [Actions -> Seq(Commands)]
         /\ running_' \subseteq Actions \cup {"Wait", l}
         /\ \A a \in Actions :
              IF a \in Halted(l, r) /\ a \in running_
              THEN a \notin running_' /\ commands'[a] = <<"CMD_STOP">>
              ELSE /\ commands'[a] = commands[a]
                   /\ a \in running_' <=> (IF a = l THEN r = "RUNNING" ELSE a \in running_)
<1>1. PICK stopped \in SUBSET (Actions \cup {"Wait"}) :
        /\ Visit(l, r, stopped)
        /\ commands' = [a \in Actions |-> IF a \in stopped THEN Append(commands[a], "CMD_STOP")
                                                          ELSE commands[a]]
  BY DEF LeafReturns
<1>2. /\ leaf = l /\ leaf' = NextLeaf(l, r) /\ asked' = FALSE
      /\ stopped = Halted(l, r) \cap running_
      /\ running_' = ((IF r = "RUNNING" THEN running_ \cup {l} ELSE running_ \ {l}) \ stopped)
      /\ missed' = missed \ {l}
      /\ UNCHANGED <<charge, current, prev_docked, discharge_current, running, place, skill, came>>
  BY <1>1 DEF LeafReturns, Visit, batteryVars
<1>3. ASSUME NEW a \in Actions, a \in stopped PROVE Append(commands[a], "CMD_STOP") = <<"CMD_STOP">>
  <2>1. a # l
    BY <1>2, <1>3 DEF Halted, ChargingBranch, MissionBranch
  <2>2. commands[a] = <<>>
    BY <1>2, <1>3, <2>1 DEF TInv, Remembered
  <2> QED BY <2>2, Queues
<1>4. /\ commands' \in [Actions -> Seq(Commands)]
      /\ \A a \in Actions : commands'[a] = IF a \in stopped THEN <<"CMD_STOP">> ELSE commands[a]
  <2>1. commands \in [Actions -> Seq(Commands)] /\ <<"CMD_STOP">> \in Seq(Commands)
    BY Queues DEF TInv, TypeOK
  <2> QED BY <1>1, <1>3, <2>1
<1>5. running_' \subseteq Actions \cup {"Wait", l}
  BY <1>2 DEF TInv, TypeOK, TreeTypeOK
<1>6. ASSUME NEW a \in Actions
      PROVE  IF a \in Halted(l, r) /\ a \in running_
             THEN a \notin running_' /\ commands'[a] = <<"CMD_STOP">>
             ELSE /\ commands'[a] = commands[a]
                  /\ a \in running_' <=> (IF a = l THEN r = "RUNNING" ELSE a \in running_)
  <2>1. CASE a \in Halted(l, r) /\ a \in running_
    BY <1>2, <1>4, <2>1
  <2>2. CASE ~(a \in Halted(l, r) /\ a \in running_)
    BY <1>2, <1>4, <2>2
  <2> QED BY <2>1, <2>2
<1> QED BY <1>2, <1>4, <1>5, <1>6

\* The next leaf is past every action that has been halted by then.
LEMMA HaltedIsPast ==
  ASSUME NEW l \in Leaves, NEW r, NEW a \in Actions
  PROVE  /\ a \in Halted(l, r) => NextLeaf(l, r) \in Past(a)
         /\ l \in Past(a) => NextLeaf(l, r) \in Past(a)
         /\ l \in Past(a) => l # a
         /\ l \in {"Wait", "IsAtDestination", Mission} => Station \notin Halted(l, r)
BY DEF NextLeaf, Halted, Past, ChargingBranch, MissionBranch, Leaves, Actions, ConditionLeaves, Station, Mission

\* Visiting leaf l with the status r.
LEMMA LeafKeeps ==
  ASSUME TInv, NEW l \in Leaves, NEW r, LeafReturns(l, r),
         l \in Actions => asked /\ skill[l] # "idle" /\ (AtWork(l) => r = "RUNNING"),
         l \in ConditionLeaves => r # "RUNNING"
  PROVE  TInv'
<1>1. /\ leaf = l /\ leaf' = NextLeaf(l, r) /\ asked' = FALSE
      /\ UNCHANGED <<charge, current, prev_docked, discharge_current, running, place, skill, came>>
      /\ missed' = missed \ {l}
      /\ commands' \in [Actions -> Seq(Commands)]
      /\ running_' \subseteq Actions \cup {"Wait", l}
      /\ \A a \in Actions :
           IF a \in Halted(l, r) /\ a \in running_
           THEN a \notin running_' /\ commands'[a] = <<"CMD_STOP">>
           ELSE /\ commands'[a] = commands[a]
                /\ a \in running_' <=> (IF a = l THEN r = "RUNNING" ELSE a \in running_)
  BY VisitWhat
<1>2. TypeOK'
  <2>1. TreeTypeOK'
    <3>1. CASE l \in Actions \cup {"Wait"}
      BY <1>1, <3>1, NextLeafType DEF TreeTypeOK
    <3>2. CASE l \in ConditionLeaves
      <4>1. running_' \subseteq Actions \cup {"Wait"}
        <5>1. r # "RUNNING"
          BY <3>2
        <5>2. l \notin running_'
          BY <5>1 DEF LeafReturns, Visit
        <5> QED BY <1>1, <5>2
      <4> QED BY <1>1, <4>1, NextLeafType DEF TreeTypeOK
    <3> QED BY <3>1, <3>2 DEF Leaves
  <2>2. BatteryTypeOK'
    BY <1>1 DEF TInv, TypeOK, BatteryTypeOK
  <2> QED BY <1>1, <2>1, <2>2 DEF TInv, TypeOK
<1>3. ASSUME NEW a \in Actions
      PROVE  /\ commands'[a] = <<>> \/ Called(a)' \/ Halting(a)'
             /\ ~Called(a)'
             /\ Halting(a)' => a \notin running_' /\ leaf' \in Past(a)
             /\ AtWork(a)' /\ a \notin missed' => a \in running_' \/ Halting(a)'
  <2>1. CASE a \in Halted(l, r) /\ a \in running_
    BY <1>1, <2>1, Queues, HaltedIsPast DEF Called, Halting
  <2>2. CASE ~(a \in Halted(l, r) /\ a \in running_)
    <3>1. commands'[a] = commands[a] /\ (a \in running_' <=> (IF a = l THEN r = "RUNNING" ELSE a \in running_))
      BY <1>1, <2>2
    <3>2. ~Called(a)
      BY <1>1 DEF TInv, Remembered
    <3>3. Halting(a) => a \notin running_' /\ leaf' \in Past(a)
      BY <1>1, <3>1, HaltedIsPast DEF TInv, Remembered
    <3>4. AtWork(a)' /\ a \notin missed' => a \in running_' \/ Halting(a)
      BY <1>1, <3>1 DEF TInv, Remembered, AtWork
    <3> QED BY <3>1, <3>2, <3>3, <3>4 DEF TInv, Remembered, Called, Halting
  <2> QED BY <2>1, <2>2
<1>4. ~(Actions \subseteq running_') /\ (leaf' \in {"Wait", "IsAtDestination", Mission} => Station \notin running_')
  BY <1>1 DEF TInv, Remembered, NextLeaf, Halted, ChargingBranch, MissionBranch, Leaves, Actions,
              ConditionLeaves, Station, Mission
<1> QED BY <1>1, <1>2, <1>3, <1>4 DEF TInv, Remembered

LEMMA Acknowledged ==
  ASSUME TypeOK, NEW a \in Actions, request_ack(a) # "IDLE"
  PROVE  /\ skill[a] # "idle" /\ (AtWork(a) => request_ack(a) = "RUNNING")
         /\ request_ack(a) = "SUCCESS" <=> skill[a] = "success"
         /\ request_ack(a) = "RUNNING" <=> skill[a] \in {"waiting", "driving", "arrived", "failed", "stopping"}
BY DEF request_ack, AtWork, TypeOK, SkillPhases

\* The first request of a tick.
LEMMA AskWhat ==
  ASSUME TInv, NEW a \in Actions, AskAction(a)
  PROVE  /\ leaf = a /\ leaf' = leaf /\ asked' /\ commands[a] = <<>>
         /\ UNCHANGED <<running_, charge, current, prev_docked, discharge_current, running>>
         /\ UNCHANGED <<skill, place, missed, came>>
         /\ commands' \in [Actions -> Seq(Commands)]
         /\ commands'[a] = <<>> \/ (commands'[a] = <<"CMD_START">> /\ skill[a] = "idle")
         /\ \A b \in Actions : b # a => commands'[b] = commands[b]
<1>1. /\ leaf = a /\ leaf' = leaf /\ ~asked /\ asked'
      /\ UNCHANGED <<running_, charge, current, prev_docked, discharge_current, running>>
      /\ UNCHANGED <<skill, place, missed, came>>
  BY DEF AskAction, Ask, batteryVars
<1>2. commands[a] = <<>>
  BY <1>1 DEF TInv, Remembered, Past, Station, Mission, Actions
<1>3. commands \in [Actions -> Seq(Commands)]
  BY DEF TInv, TypeOK
<1>4. commands' = commands \/ (skill[a] = "idle" /\ commands' = [commands EXCEPT ![a] = <<"CMD_START">>])
  <2>1. Append(commands[a], "CMD_START") = <<"CMD_START">>
    BY <1>2, Queues
  <2>2. commands' = commands
          \/ (request_ack(a) = "IDLE" /\ commands' = [commands EXCEPT ![a] = Append(commands[a], "CMD_START")])
    BY DEF AskAction
  <2>3. request_ack(a) = "IDLE" => skill[a] = "idle"
    BY DEF request_ack
  <2> QED BY <2>1, <2>2, <2>3
<1>5. <<"CMD_START">> \in Seq(Commands)
  BY Queues
<1> QED BY <1>1, <1>2, <1>3, <1>4, <1>5

LEMMA TreeKeeps ==
  ASSUME TInv, Tree
  PROVE  TInv'
<1>1. CASE BeginTick /\ KeepsUp /\ UNCHANGED <<batteryVars, worldVars>>
  <2>1. /\ leaf = "rest" /\ leaf' = "BatteryLevel" /\ UNCHANGED <<asked, running_>> /\ UNCHANGED batteryVars
        /\ UNCHANGED <<skill, commands, place, missed, came>>
        /\ \A a \in Actions : commands[a] = <<>>
    BY <1>1 DEF BeginTick, worldVars, KeepsUp
  <2>2. TypeOK'
    BY <2>1 DEF TInv, TypeOK, TreeTypeOK, BatteryTypeOK, batteryVars, Leaves, ConditionLeaves
  <2>3. ~asked
    BY <2>1 DEF TInv, Remembered, Actions
  <2> QED BY <2>1, <2>2, <2>3, Queues DEF TInv, Remembered, AtWork, Called, Halting, Mission, Station, Actions
<1>2. ASSUME NEW c \in ConditionLeaves, VisitCondition(c) PROVE TInv'
  <2> DEFINE r == IF Holds(c) THEN "SUCCESS" ELSE "FAILURE"
  <2>1. LeafReturns(c, r) /\ r # "RUNNING"
    BY <1>2 DEF VisitCondition
  <2>2. c \in Leaves /\ c \notin Actions
    BY DEF Leaves, ConditionLeaves, Actions
  <2> HIDE DEF r
  <2> QED BY <2>1, <2>2, LeafKeeps
<1>3. ASSUME NEW a \in Actions, AskAction(a) PROVE TInv'
  <2>1. /\ leaf = a /\ leaf' = leaf /\ asked' /\ commands[a] = <<>>
        /\ UNCHANGED <<running_, charge, current, prev_docked, discharge_current, running>>
        /\ UNCHANGED <<skill, place, missed, came>>
        /\ commands' \in [Actions -> Seq(Commands)]
        /\ commands'[a] = <<>> \/ (commands'[a] = <<"CMD_START">> /\ skill[a] = "idle")
        /\ \A b \in Actions : b # a => commands'[b] = commands[b]
    BY <1>3, AskWhat
  <2>2. TypeOK'
    BY <2>1 DEF TInv, TypeOK, TreeTypeOK, BatteryTypeOK
  <2>3. ASSUME NEW b \in Actions
        PROVE  /\ commands'[b] = <<>> \/ Called(b)' \/ Halting(b)'
               /\ Called(b)' => leaf' = b /\ skill'[b] = "idle"
               /\ Halting(b)' => b \notin running_' /\ leaf' \in Past(b)
               /\ AtWork(b)' /\ b \notin missed' => b \in running_' \/ Halting(b)' \/ leaf' = b
    <3>1. CASE b = a
      BY <2>1, <3>1, Queues DEF Called, Halting
    <3>2. CASE b # a
      BY <2>1, <3>2, Queues DEF TInv, Remembered, Called, Halting, AtWork
    <3> QED BY <3>1, <3>2
  <2> QED BY <2>1, <2>2, <2>3 DEF TInv, Remembered
<1>4. ASSUME NEW a \in Actions, VisitAction(a) PROVE TInv'
  <2>1. LeafReturns(a, request_ack(a)) /\ asked /\ request_ack(a) # "IDLE"
    BY <1>4 DEF VisitAction
  <2>2. skill[a] # "idle" /\ (AtWork(a) => request_ack(a) = "RUNNING")
    BY <2>1, Acknowledged DEF TInv
  <2>3. a \in Leaves /\ a \notin ConditionLeaves
    BY DEF Leaves, ConditionLeaves, Actions
  <2> QED BY <2>1, <2>2, <2>3, LeafKeeps
<1>5. CASE VisitWait
  <2>1. "Wait" \in Leaves /\ "Wait" \notin Actions /\ "Wait" \notin ConditionLeaves
    BY DEF Leaves, ConditionLeaves, Actions
  <2> QED BY <1>5, <2>1, LeafKeeps DEF VisitWait
<1> QED BY <1>1, <1>2, <1>3, <1>4, <1>5 DEF Tree

\* A skill takes a command from its queue.
LEMMA CommandKeeps ==
  ASSUME TInv, NEW a \in Actions, Starts(a) \/ Stops(a) \/ Misses(a)
  PROVE  TInv'
<1>1. PICK c \in Commands : /\ Takes(a, c)
                            /\ skill' \in [Actions -> SkillPhases]
                            /\ \A b \in Actions : b # a => skill'[b] = skill[b]
                            /\ missed' \subseteq Actions /\ came' \in BOOLEAN
                            /\ \A b \in Actions : b # a => (b \in missed' <=> b \in missed)
                            /\ IF c = "CMD_START" THEN skill[a] = "idle" ELSE AtWork(a)' => a \in missed'
  BY DEF Starts, Stops, Misses, Becomes, Commands, TInv, TypeOK, SkillPhases, AtWork
<1>2. /\ commands[a] = <<c>> /\ commands' \in [Actions -> Seq(Commands)]
      /\ commands'[a] = <<>>
      /\ \A b \in Actions : b # a => commands'[b] = commands[b]
      /\ UNCHANGED <<leaf, asked, running_, charge, current, prev_docked, discharge_current, running, place>>
  BY <1>1, Taken
<1>3. TypeOK'
  BY <1>1, <1>2 DEF TInv, TypeOK, TreeTypeOK, BatteryTypeOK
<1>4. AtWork(a)' /\ a \notin missed' => leaf = a /\ asked
  <2>1. c = "CMD_START" => Called(a)
    BY <1>2 DEF Called
  <2> QED BY <1>1, <2>1 DEF TInv, Remembered
<1>5. ASSUME NEW b \in Actions
      PROVE  /\ commands'[b] = <<>> \/ Called(b)' \/ Halting(b)'
             /\ Called(b)' => leaf' = b /\ asked' /\ skill'[b] = "idle"
             /\ Halting(b)' => b \notin running_' /\ leaf' \in Past(b)
             /\ AtWork(b)' /\ b \notin missed' => b \in running_' \/ Halting(b)' \/ (leaf' = b /\ asked')
  <2>1. CASE b = a
    BY <1>2, <1>4, <2>1, Queues DEF Called, Halting
  <2>2. CASE b # a
    BY <1>1, <1>2, <2>2 DEF TInv, Remembered, Called, Halting, AtWork
  <2> QED BY <2>1, <2>2
<1> QED BY <1>2, <1>3, <1>5 DEF TInv, Remembered

LEMMA RobotKeeps ==
  ASSUME TInv, NEW a \in Actions, Robot(a)
  PROVE  TInv'
<1>1. CASE Starts(a) \/ Stops(a) \/ Misses(a)
  BY <1>1, CommandKeeps
<1>2. CASE TakesUnit(a) \/ Departs(a) \/ Reaches(a) \/ Ends(a) \/ GivesBack(a)
  <2>1. UNCHANGED <<leaf, asked, running_, missed, commands>> /\ UNCHANGED batteryVars
    BY <1>2 DEF TakesUnit, Departs, Reaches, Ends, GivesBack, treeVars
  <2>2. /\ skill' \in [Actions -> SkillPhases]
        /\ \A b \in Actions : (AtWork(b)' => AtWork(b)) /\ (skill[b] = "idle" => skill'[b] = "idle")
    BY <1>2 DEF TakesUnit, Departs, Reaches, Ends, GivesBack, Becomes, TInv, TypeOK, SkillPhases, AtWork
  <2>3. place' \in {"station", "road", "destination"} /\ came' \in BOOLEAN
    BY <1>2 DEF TakesUnit, Departs, Reaches, Ends, GivesBack, TInv, TypeOK, Goal
  <2>4. TypeOK'
    BY <2>1, <2>2, <2>3 DEF TInv, TypeOK, TreeTypeOK, BatteryTypeOK, batteryVars
  <2> QED BY <2>1, <2>2, <2>4 DEF TInv, Remembered, Called, Halting
<1> QED BY <1>1, <1>2 DEF Robot

LEMMA InitKeeps == Init => TInv
<1> SUFFICES ASSUME Init PROVE TInv
  OBVIOUS
<1>1. BatteryTypeOK
  <2>1. Full \in 0..Full /\ Load \in Magnitudes
    BY BatteryAssumption DEF Magnitudes
  <2> QED BY <2>1, Currents DEF Init, BatteryInit, BatteryTypeOK
<1>2. TypeOK
  BY <1>1, Queues DEF Init, TreeInit, TreeTypeOK, TypeOK, SkillPhases
<1> QED BY <1>2, Queues DEF Init, TreeInit, TInv, Remembered, AtWork, Called, Halting, Actions, Mission

LEMMA NextKeeps == TInv /\ [Next]_vars => TInv'
<1> SUFFICES ASSUME TInv, [Next]_vars PROVE TInv'
  OBVIOUS
<1>1. CASE Tree
  BY <1>1, TreeKeeps
<1>2. ASSUME NEW a \in Actions, Robot(a) PROVE TInv'
  BY <1>2, RobotKeeps
<1>3. ASSUME BatteryTypeOK', UNCHANGED <<leaf, asked, running_, skill, commands, place, missed>>, came' \in BOOLEAN
      PROVE  TInv'
  <2>1. TypeOK'
    BY <1>3 DEF TInv, TypeOK, TreeTypeOK
  <2> QED BY <1>3, <2>1 DEF TInv, Remembered, AtWork, Called, Halting
<1>4. CASE Power
  <2>1. BatteryTypeOK'
    BY <1>4, StationKeepsTypes, BatteryKeepsTypes DEF Power, TInv, TypeOK
  <2> QED BY <1>3, <1>4, <2>1 DEF Power, treeVars, worldVars, TInv, TypeOK
<1>5. CASE StationDies
  <2>1. BatteryTypeOK'
    BY <1>5, BatteryKeepsTypes DEF StationDies, TInv, TypeOK
  <2> QED BY <1>3, <1>5, <2>1 DEF StationDies, treeVars
<1>6. CASE UNCHANGED vars
  <2>1. BatteryTypeOK'
    BY <1>6 DEF vars, batteryVars, TInv, TypeOK, BatteryTypeOK
  <2> QED BY <1>3, <1>6, <2>1 DEF vars, treeVars, worldVars, TInv, TypeOK
<1> QED BY <1>1, <1>2, <1>4, <1>5, <1>6 DEF Next

LEMMA Invariance == Spec => []TInv
<1> QED BY InitKeeps, NextKeeps, PTL DEF Spec

-----------------------------------------------------------------------------
(* The theorems.                                                           *)

\* The variables stay in their types: no sequence of docks, crashes and
\* restarts makes the station save anything but the load or its default.
THEOREM TypeCorrect == Spec => []TypeOK
<1>1. TInv => TypeOK
  BY DEF TInv
<1> QED BY <1>1, Invariance, PTL

\* Between two ticks at most one of the GoTo skills is at work and has not been
\* sent CMD_STOP, but for one that has missed it, although the tree starts the
\* new one before it halts the other.
THEOREM OneActionAtWorkHolds == Spec => []OneActionAtWork
<1>1. TInv => OneActionAtWork
  <2> DEFINE W == {a \in Actions \ missed : skill[a] \in {"waiting", "driving"} /\ ~Stopped(a)}
  <2> SUFFICES ASSUME TInv, leaf = "rest" PROVE Cardinality(W) <= 1
    BY DEF OneActionAtWork
  <2>1. ASSUME NEW a \in Actions, Halting(a) PROVE Stopped(a)
    BY <2>1 DEF Halting, Stopped, ToSet
  <2>2. \A a \in W : a \in running_
    BY <2>1 DEF TInv, Remembered, AtWork, Actions
  <2>3. PICK b \in Actions : W \subseteq {b}
    BY <2>2, Two DEF TInv, Remembered
  <2>4. IsFiniteSet({b}) /\ Cardinality({b}) = 1
    BY FS_Singleton
  <2>5. Cardinality(W) <= Cardinality({b})
    BY <2>3, <2>4, FS_Subset
  <2> QED BY <2>4, <2>5
<1> QED BY <1>1, Invariance, PTL

\* A station that never dies leaves the robot drawing current wherever it has
\* seen it away: what it saves when the robot docks is a load, and it restores
\* that when the robot has gone.
Loaded ==
  /\ prev_docked => discharge_current > 0
  /\ ~prev_docked => current > 0

THEOREM DischargesAwayHolds == Spec => DischargesAway
<1>1. Init => Loaded
  BY BatteryAssumption DEF Init, BatteryInit, Loaded
<1>2. TInv /\ running /\ Loaded /\ [Next]_vars => Loaded'
  <2> SUFFICES ASSUME TInv, running, Loaded, [Next]_vars PROVE Loaded'
    OBVIOUS
  <2>1. CASE UNCHANGED <<current, prev_docked, discharge_current>>
    BY <2>1 DEF Loaded
  <2>2. ASSUME NEW docked \in BOOLEAN, updateModule(docked) PROVE Loaded'
    BY <2>2, LoadIsSaved DEF updateModule, Docks, Loaded, TInv, TypeOK
  <2>3. CASE Power
    BY <2>1, <2>2, <2>3 DEF Power, Integrate, StationRestart
  <2>4. CASE Tree \/ (\E a \in Actions : Robot(a)) \/ StationDies \/ UNCHANGED vars
    BY <2>1, <2>4
    DEF Tree, VisitCondition, AskAction, VisitAction, VisitWait, LeafReturns, Robot, Takes, Starts, Stops,
        Misses, TakesUnit, Departs, Reaches, Ends, GivesBack, StationDies, StationCrash, vars, batteryVars
  <2> QED BY <2>3, <2>4 DEF Next
<1>3. Loaded => (~prev_docked /\ place # "station" => current > 0)
  BY DEF Loaded
<1> QED BY <1>1, <1>2, <1>3, Invariance, PTL DEF Spec, DischargesAway

-----------------------------------------------------------------------------
(* A robot that came with a low battery leaves full.  The tree asks for the *)
(* level and then for the status, and both may change in between: it could  *)
(* take the robot away if the level were still high and the station had not *)
(* yet turned the current round.  That GoToChargingStation is under way is  *)
(* what makes this impossible, as long as the tree had reason to start it;  *)
(* the rest of the invariant says when it had.                              *)

\* A skill has come to its end and is not about to stop.
Over(a) == skill[a] \in {"arrived", "failed", "success", "failure"} /\ ~Halting(a)

\* One that is not remembered is not stopped, and so not started.
Stuck(a) == Over(a) /\ a \notin running_

\* GoToDestination has missed its CMD_STOP and driven off.
Runaway == Mission \in missed /\ skill[Mission] # "waiting"

\* GoToChargingStation has come to the station without the tree.
Uncalled == Stuck(Station) \/ (Station \in missed /\ skill[Station] = "driving")

\* The tree has asked about the battery, and takes one way or the other.
Passed   == leaf \in {"IsAtDestination", Mission}
Choosing == leaf \in {"IsAtChargingStation", Station}

\* The tree is about to halt GoToDestination: GoToChargingStation was quicker
\* than the tick that started it.
Starting == (leaf = Station /\ asked) \/ (leaf = "Wait" /\ Over(Station))

Charged == charge = Full /\ current = 0

\* Whatever the tree has still to ask about the battery is answered so that it
\* goes to the station.
Needs == current < 0 \/ (charge <= Low /\ leaf # "BatteryNotCharging")

MissionRests == AtWork(Mission) => Mission \in missed \/ Halting(Mission)

SkillsFollow ==
  /\ missed \cap running_ = {}
  /\ \A a \in missed : commands[a] = <<>> /\ skill[a] \notin {"idle", "stopping"}
  /\ ~(skill[Station] = "driving" /\ skill[Mission] = "driving")
  /\ prev_docked => discharge_current > 0
  /\ place = "station" => skill[Station] # "waiting"
  /\ place = "station" /\ leaf = Station => skill[Station] = "driving" \/ Over(Station)
  /\ place # "station" /\ leaf = "Wait" => ~AtWork(Station)

\* On the road to the station the tree needs it, unless GoToDestination has run
\* away: only then is the robot taken off while it charges.
RoadFollows == place # "station" =>
  /\ Station \notin missed /\ AtWork(Station) /\ ~Halting(Station) /\ ~Runaway => Needs
  /\ Choosing /\ ~Runaway => Needs \/ Over(Station)
  /\ current < 0 /\ prev_docked => (Runaway /\ ~Passed) \/ Over(Station)

DockFollows == place = "station" =>
  /\ Choosing => MissionRests \/ Uncalled \/ (leaf = Station /\ asked)
  /\ ~Charged => (Needs /\ ~Passed /\ (MissionRests \/ Starting)) \/ Uncalled \/ Over(Mission)
  /\ ~Charged /\ (Choosing \/ leaf = "Wait") => Needs \/ Stuck(Mission)

CameFollows == came =>
  /\ missed = {} /\ running
  /\ place = "station" /\ ~Charged => Needs /\ ~Passed /\ MissionRests

LInv == TInv /\ SkillsFollow /\ RoadFollows /\ DockFollows /\ CameFollows

\* What the invariant says, put together for the provers.
LEMMA Facts ==
  ASSUME LInv
  PROVE  /\ TInv /\ TypeOK /\ BatteryTypeOK /\ missed \subseteq Actions /\ came \in BOOLEAN
         /\ charge \in 0..Full /\ \A a \in Actions : skill[a] \in SkillPhases
BY DEF LInv, TInv, TypeOK, BatteryTypeOK

LEMMA LevelSeen ==
  ASSUME LInv, VisitCondition("BatteryLevel")
  PROVE  LInv'
<1> DEFINE r == IF charge > Low THEN "SUCCESS" ELSE "FAILURE"
<1>1. LeafReturns("BatteryLevel", r)
  BY DEF VisitCondition, Holds, BatteryLevelHolds, level
<1>2. TInv'
  <2>1. Tree
    BY DEF Tree, ConditionLeaves
  <2> QED BY <2>1, TreeKeeps DEF LInv
<1>3. "BatteryLevel" \in Leaves /\ "BatteryLevel" \notin Actions /\ Halted("BatteryLevel", r) = {}
  BY DEF Leaves, ConditionLeaves, Actions, Halted
<1>4. leaf' = IF charge > Low THEN "BatteryNotCharging" ELSE "IsAtChargingStation"
  <2>1. leaf' = NextLeaf("BatteryLevel", r)
    BY <1>1, <1>3, Facts, VisitWhat
  <2> QED BY <2>1 DEF NextLeaf, Station, Mission
<1>5. /\ leaf = "BatteryLevel" /\ ~asked'
      /\ UNCHANGED <<charge, current, prev_docked, discharge_current, running, place, skill, came>>
      /\ missed' = missed
      /\ \A a \in Actions : commands'[a] = commands[a] /\ (a \in running_' <=> a \in running_)
  <2>1. missed \ {"BatteryLevel"} = missed
    BY <1>3, Facts
  <2> HIDE DEF r
  <2> QED BY <1>1, <1>3, <2>1, Facts, Two, VisitWhat
<1> QED
  <2>1. SkillsFollow'
    BY <1>2, <1>4, <1>5, Facts, Two DEF LInv, SkillsFollow, Over, AtWork, Halting, Station, Mission
  <2>2. RoadFollows'
    BY <1>2, <1>4, <1>5, Facts, Two, BatteryAssumption
    DEF LInv, TInv, Remembered, SkillsFollow, RoadFollows,
         Needs, Runaway, Over, Stuck, Passed, Choosing, Starting, AtWork, Halting, MissionRests,
         Uncalled, Charged, Past, Station, Mission
  <2>3. DockFollows'
    BY <1>2, <1>4, <1>5, Facts, Two, BatteryAssumption
    DEF LInv, TInv, Remembered, SkillsFollow, DockFollows,
         Needs, Runaway, Over, Stuck, Passed, Choosing, Starting, AtWork, Halting, MissionRests,
         Uncalled, Charged, Past, Station, Mission
  <2>4. CameFollows'
    BY <1>2, <1>4, <1>5, Facts, Two, BatteryAssumption
    DEF LInv, CameFollows, Needs, Passed, AtWork, Halting, MissionRests, Charged, Station, Mission
  <2> QED BY <1>2, <2>1, <2>2, <2>3, <2>4 DEF LInv

LEMMA StatusSeen ==
  ASSUME LInv, VisitCondition("BatteryNotCharging")
  PROVE  LInv'
<1> DEFINE r == IF current < 0 THEN "FAILURE" ELSE "SUCCESS"
<1>1. LeafReturns("BatteryNotCharging", r)
  <2>1. BatteryNotChargingHolds <=> ~(current < 0)
    BY DEF BatteryNotChargingHolds, charging_status
  <2> QED BY <2>1 DEF VisitCondition, Holds
<1>2. TInv'
  <2>1. Tree
    BY DEF Tree, ConditionLeaves
  <2> QED BY <2>1, TreeKeeps DEF LInv
<1>3. /\ "BatteryNotCharging" \in Leaves /\ "BatteryNotCharging" \notin Actions
      /\ Mission \notin Halted("BatteryNotCharging", r)
      /\ Station \in Halted("BatteryNotCharging", r) <=> ~(current < 0)
  BY DEF Leaves, ConditionLeaves, Halted, Actions, ChargingBranch, MissionBranch, Station, Mission
<1>4. leaf' = IF current < 0 THEN "IsAtChargingStation" ELSE "IsAtDestination"
  <2>1. leaf' = NextLeaf("BatteryNotCharging", r)
    BY <1>1, <1>3, Facts, VisitWhat
  <2> QED BY <2>1 DEF NextLeaf, Station, Mission
<1>5. /\ leaf = "BatteryNotCharging" /\ ~asked'
      /\ UNCHANGED <<charge, current, prev_docked, discharge_current, running, place, skill, came>>
      /\ missed' = missed
      /\ commands'[Mission] = commands[Mission] /\ (Mission \in running_' <=> Mission \in running_)
      /\ IF ~(current < 0) /\ Station \in running_
         THEN Station \notin running_' /\ commands'[Station] = <<"CMD_STOP">>
         ELSE commands'[Station] = commands[Station] /\ (Station \in running_' <=> Station \in running_)
  <2>1. missed \ {"BatteryNotCharging"} = missed
    BY <1>3, Facts
  <2> HIDE DEF r
  <2> QED BY <1>1, <1>3, <2>1, Facts, Two, VisitWhat
<1> QED
  <2>1. SkillsFollow'
    BY <1>2, <1>4, <1>5, Facts, Two DEF LInv, SkillsFollow, Over, AtWork, Halting, Station, Mission
  <2>2. RoadFollows'
    BY <1>2, <1>4, <1>5, Facts, Two, BatteryAssumption
    DEF LInv, TInv, Remembered, SkillsFollow, RoadFollows,
         Needs, Runaway, Over, Stuck, Passed, Choosing, Starting, AtWork, Halting, MissionRests,
         Uncalled, Charged, Past, Station, Mission
  <2>3. DockFollows'
    BY <1>2, <1>4, <1>5, Facts, Two, BatteryAssumption
    DEF LInv, TInv, Remembered, SkillsFollow, DockFollows,
         Needs, Runaway, Over, Stuck, Passed, Choosing, Starting, AtWork, Halting, MissionRests,
         Uncalled, Charged, Past, Station, Mission
  <2>4. CameFollows'
    BY <1>2, <1>4, <1>5, Facts, Two, BatteryAssumption
    DEF LInv, CameFollows, Needs, Passed, AtWork, Halting, MissionRests, Charged, Station, Mission
  <2> QED BY <1>2, <2>1, <2>2, <2>3, <2>4 DEF LInv

LEMMA PlaceSeen ==
  ASSUME LInv, VisitCondition("IsAtChargingStation")
  PROVE  LInv'
<1> DEFINE r == IF place = "station" THEN "SUCCESS" ELSE "FAILURE"
<1>1. LeafReturns("IsAtChargingStation", r)
  BY DEF VisitCondition, Holds
<1>2. TInv'
  <2>1. Tree
    BY DEF Tree, ConditionLeaves
  <2> QED BY <2>1, TreeKeeps DEF LInv
<1>3. /\ "IsAtChargingStation" \in Leaves /\ "IsAtChargingStation" \notin Actions
      /\ Mission \notin Halted("IsAtChargingStation", r)
      /\ Station \in Halted("IsAtChargingStation", r) <=> place = "station"
  BY DEF Leaves, ConditionLeaves, Halted, Actions, ChargingBranch, MissionBranch, Station, Mission
<1>4. leaf' = IF place = "station" THEN "Wait" ELSE Station
  <2>1. leaf' = NextLeaf("IsAtChargingStation", r)
    BY <1>1, <1>3, Facts, VisitWhat
  <2> QED BY <2>1 DEF NextLeaf, Station, Mission
<1>5. /\ leaf = "IsAtChargingStation" /\ ~asked'
      /\ UNCHANGED <<charge, current, prev_docked, discharge_current, running, place, skill, came>>
      /\ missed' = missed
      /\ commands'[Mission] = commands[Mission] /\ (Mission \in running_' <=> Mission \in running_)
      /\ IF place = "station" /\ Station \in running_
         THEN Station \notin running_' /\ commands'[Station] = <<"CMD_STOP">>
         ELSE commands'[Station] = commands[Station] /\ (Station \in running_' <=> Station \in running_)
  <2>1. missed \ {"IsAtChargingStation"} = missed
    BY <1>3, Facts
  <2> HIDE DEF r
  <2> QED BY <1>1, <1>3, <2>1, Facts, Two, VisitWhat
<1> QED
  <2>1. SkillsFollow'
    BY <1>2, <1>4, <1>5, Facts, Two DEF LInv, SkillsFollow, Over, AtWork, Halting, Station, Mission
  <2>2. RoadFollows'
    BY <1>2, <1>4, <1>5, Facts, Two, BatteryAssumption
    DEF LInv, TInv, Remembered, SkillsFollow, RoadFollows,
         Needs, Runaway, Over, Stuck, Passed, Choosing, Starting, AtWork, Halting, MissionRests,
         Uncalled, Charged, Past, Station, Mission
  <2>3. DockFollows'
    BY <1>2, <1>4, <1>5, Facts, Two, BatteryAssumption
    DEF LInv, TInv, Remembered, SkillsFollow, DockFollows,
         Needs, Runaway, Over, Stuck, Passed, Choosing, Starting, AtWork, Halting, MissionRests,
         Uncalled, Charged, Past, Station, Mission
  <2>4. CameFollows'
    BY <1>2, <1>4, <1>5, Facts, Two, BatteryAssumption
    DEF LInv, CameFollows, Needs, Passed, AtWork, Halting, MissionRests, Charged, Station, Mission
  <2> QED BY <1>2, <2>1, <2>2, <2>3, <2>4 DEF LInv

LEMMA GoalSeen ==
  ASSUME LInv, VisitCondition("IsAtDestination")
  PROVE  LInv'
<1> DEFINE r == IF place = "destination" THEN "SUCCESS" ELSE "FAILURE"
<1>1. LeafReturns("IsAtDestination", r)
  BY DEF VisitCondition, Holds
<1>2. TInv'
  <2>1. Tree
    BY DEF Tree, ConditionLeaves
  <2> QED BY <2>1, TreeKeeps DEF LInv
<1>3. /\ "IsAtDestination" \in Leaves /\ "IsAtDestination" \notin Actions
      /\ Station \notin Halted("IsAtDestination", r)
      /\ Mission \in Halted("IsAtDestination", r) <=> place = "destination"
  BY DEF Leaves, ConditionLeaves, Halted, Actions, ChargingBranch, MissionBranch, Station, Mission
<1>4. leaf' = IF place = "destination" THEN "rest" ELSE Mission
  <2>1. leaf' = NextLeaf("IsAtDestination", r)
    BY <1>1, <1>3, Facts, VisitWhat
  <2> QED BY <2>1 DEF NextLeaf, Station, Mission
<1>5. /\ leaf = "IsAtDestination" /\ ~asked'
      /\ UNCHANGED <<charge, current, prev_docked, discharge_current, running, place, skill, came>>
      /\ missed' = missed
      /\ commands'[Station] = commands[Station] /\ (Station \in running_' <=> Station \in running_)
      /\ IF place = "destination" /\ Mission \in running_
         THEN Mission \notin running_' /\ commands'[Mission] = <<"CMD_STOP">>
         ELSE commands'[Mission] = commands[Mission] /\ (Mission \in running_' <=> Mission \in running_)
  <2>1. missed \ {"IsAtDestination"} = missed
    BY <1>3, Facts
  <2> HIDE DEF r
  <2> QED BY <1>1, <1>3, <2>1, Facts, Two, VisitWhat
<1> QED
  <2>1. SkillsFollow'
    BY <1>2, <1>4, <1>5, Facts, Two DEF LInv, SkillsFollow, Over, AtWork, Halting, Station, Mission
  <2>2. RoadFollows'
    BY <1>2, <1>4, <1>5, Facts, Two, BatteryAssumption
    DEF LInv, TInv, Remembered, SkillsFollow, RoadFollows,
         Needs, Runaway, Over, Stuck, Passed, Choosing, Starting, AtWork, Halting, MissionRests,
         Uncalled, Charged, Past, Station, Mission
  <2>3. DockFollows'
    BY <1>2, <1>4, <1>5, Facts, Two, BatteryAssumption
    DEF LInv, TInv, Remembered, SkillsFollow, DockFollows,
         Needs, Runaway, Over, Stuck, Passed, Choosing, Starting, AtWork, Halting, MissionRests,
         Uncalled, Charged, Past, Station, Mission
  <2>4. CameFollows'
    BY <1>2, <1>4, <1>5, Facts, Two, BatteryAssumption
    DEF LInv, CameFollows, Needs, Passed, AtWork, Halting, MissionRests, Charged, Station, Mission
  <2> QED BY <1>2, <2>1, <2>2, <2>3, <2>4 DEF LInv

\* The first request changes nothing but that it was made.
LEMMA AskFollows ==
  ASSUME LInv, NEW a \in Actions, AskAction(a)
  PROVE  LInv'
<1>1. /\ leaf = a /\ leaf' = leaf /\ asked' /\ commands[a] = <<>>
      /\ UNCHANGED <<running_, charge, current, prev_docked, discharge_current, running>>
      /\ UNCHANGED <<skill, place, missed, came>>
      /\ commands'[a] = <<>> \/ (commands'[a] = <<"CMD_START">> /\ skill[a] = "idle")
      /\ \A b \in Actions : b # a => commands'[b] = commands[b]
  BY Facts, AskWhat
<1>2. TInv'
  <2>1. Tree
    BY DEF Tree
  <2> QED BY <2>1, TreeKeeps DEF LInv
<1>3. \A b \in Actions : (Halting(b)' <=> Halting(b)) /\ (skill[b] # "idle" => commands'[b] = commands[b])
  BY <1>1, Queues DEF Halting
<1>4. \A b \in Actions : AtWork(b)' = AtWork(b) /\ Over(b)' = Over(b) /\ Stuck(b)' = Stuck(b)
  BY <1>1, <1>3 DEF AtWork, Over, Stuck
<1>5. SkillsFollow'
  BY <1>1, <1>3, <1>4, Facts, Two DEF LInv, SkillsFollow
<1>6. /\ UNCHANGED <<Runaway, Uncalled, Passed, Choosing, Charged, Needs, MissionRests>>
      /\ Starting => Starting'
  BY <1>1, <1>3, <1>4, Two DEF Runaway, Uncalled, Passed, Choosing, Charged, Needs, MissionRests, Starting
<1>7. RoadFollows' /\ DockFollows' /\ CameFollows'
  BY <1>1, <1>3, <1>4, <1>6, Two DEF LInv, RoadFollows, DockFollows, CameFollows
<1> QED BY <1>2, <1>5, <1>7 DEF LInv

\* The leaf of GoToChargingStation returns: either the tree has reason to go to
\* the station, or nothing will stop GoToDestination at its end.
LEMMA StationVisited ==
  ASSUME LInv, VisitAction(Station)
  PROVE  LInv'
<1> DEFINE r == request_ack(Station)
<1>1. LeafReturns(Station, r) /\ asked /\ r # "IDLE"
  BY DEF VisitAction
<1>2. TInv'
  <2>1. Tree
    BY Two DEF Tree
  <2> QED BY <2>1, TreeKeeps DEF LInv
<1>3. /\ skill[Station] # "idle"
      /\ r = "SUCCESS" <=> skill[Station] = "success"
      /\ r = "RUNNING" <=> skill[Station] \in {"waiting", "driving", "arrived", "failed", "stopping"}
  BY <1>1, Facts, Two, Acknowledged
<1> HIDE DEF r
<1>4. /\ Station \in Leaves /\ Station \notin Halted(Station, r)
      /\ Mission \in Halted(Station, r) <=> r # "SUCCESS"
  BY DEF Leaves, Actions, Halted, Station, Mission, MissionBranch
<1>5. leaf' = IF skill[Station] = "success" THEN "Wait" ELSE "rest"
  <2>1. leaf' = NextLeaf(Station, r)
    BY <1>1, <1>4, Facts, VisitWhat
  <2> QED BY <1>3, <2>1 DEF NextLeaf, Station
<1>6. /\ leaf = Station /\ ~asked'
      /\ UNCHANGED <<charge, current, prev_docked, discharge_current, running, place, skill, came>>
      /\ missed' = missed \ {Station}
      /\ commands'[Station] = commands[Station]
      /\ Station \in running_' <=> skill[Station] \in {"waiting", "driving", "arrived", "failed", "stopping"}
      /\ IF skill[Station] # "success" /\ Mission \in running_
         THEN Mission \notin running_' /\ commands'[Mission] = <<"CMD_STOP">>
         ELSE commands'[Mission] = commands[Mission] /\ (Mission \in running_' <=> Mission \in running_)
  BY <1>1, <1>3, <1>4, Facts, Two, VisitWhat
<1>7. ~Halting(Station)
  BY <1>6, Two DEF LInv, TInv, Remembered, Past, Station, Mission
<1> QED
  <2>1. SkillsFollow'
    BY <1>1, <1>2, <1>3, <1>5, <1>6, <1>7, Facts, Two DEF LInv, SkillsFollow, Over, AtWork, Halting, Station, Mission
  <2>2. RoadFollows'
    BY <1>1, <1>2, <1>3, <1>5, <1>6, <1>7, Facts, Two, BatteryAssumption
    DEF LInv, TInv, Remembered, SkillsFollow, RoadFollows,
         Needs, Runaway, Over, Stuck, Passed, Choosing, Starting, AtWork, Halting, MissionRests,
         Uncalled, Charged, Past, Station, Mission
  <2>3. DockFollows'
    BY <1>1, <1>2, <1>3, <1>5, <1>6, <1>7, Facts, Two, BatteryAssumption
    DEF LInv, TInv, Remembered, SkillsFollow, DockFollows,
         Needs, Runaway, Over, Stuck, Passed, Choosing, Starting, AtWork, Halting, MissionRests,
         Uncalled, Charged, Past, Station, Mission
  <2>4. CameFollows'
    BY <1>1, <1>2, <1>3, <1>5, <1>6, <1>7, Facts, Two, BatteryAssumption
    DEF LInv, CameFollows, Needs, Passed, AtWork, Halting, MissionRests, Charged, Station, Mission
  <2> QED BY <1>2, <2>1, <2>2, <2>3, <2>4 DEF LInv

LEMMA MissionVisited ==
  ASSUME LInv, VisitAction(Mission)
  PROVE  LInv'
<1> DEFINE r == request_ack(Mission)
<1>1. LeafReturns(Mission, r) /\ asked /\ r # "IDLE"
  BY DEF VisitAction
<1>2. TInv'
  <2>1. Tree
    BY Two DEF Tree
  <2> QED BY <2>1, TreeKeeps DEF LInv
<1>3. /\ skill[Mission] # "idle"
      /\ r = "RUNNING" <=> skill[Mission] \in {"waiting", "driving", "arrived", "failed", "stopping"}
  BY <1>1, Facts, Two, Acknowledged
<1> HIDE DEF r
<1>4. Mission \in Leaves /\ Halted(Mission, r) = {}
  BY DEF Leaves, Actions, Halted, Mission
<1>5. leaf' = "rest"
  <2>1. leaf' = NextLeaf(Mission, r)
    BY <1>1, <1>4, Facts, VisitWhat
  <2> QED BY <2>1 DEF NextLeaf, Mission
<1>6. /\ leaf = Mission /\ ~asked'
      /\ UNCHANGED <<charge, current, prev_docked, discharge_current, running, place, skill, came>>
      /\ missed' = missed \ {Mission}
      /\ commands'[Mission] = commands[Mission]
      /\ Mission \in running_' <=> skill[Mission] \in {"waiting", "driving", "arrived", "failed", "stopping"}
      /\ commands'[Station] = commands[Station] /\ (Station \in running_' <=> Station \in running_)
  BY <1>1, <1>3, <1>4, Facts, Two, VisitWhat
<1> QED
  <2>1. SkillsFollow'
    BY <1>1, <1>2, <1>3, <1>5, <1>6, Facts, Two DEF LInv, SkillsFollow, Over, AtWork, Halting, Station, Mission
  <2>2. RoadFollows'
    BY <1>1, <1>2, <1>3, <1>5, <1>6, Facts, Two, BatteryAssumption
    DEF LInv, TInv, Remembered, SkillsFollow, RoadFollows,
         Needs, Runaway, Over, Stuck, Passed, Choosing, Starting, AtWork, Halting, MissionRests,
         Uncalled, Charged, Past, Station, Mission
  <2>3. DockFollows'
    BY <1>1, <1>2, <1>3, <1>5, <1>6, Facts, Two, BatteryAssumption
    DEF LInv, TInv, Remembered, SkillsFollow, DockFollows,
         Needs, Runaway, Over, Stuck, Passed, Choosing, Starting, AtWork, Halting, MissionRests,
         Uncalled, Charged, Past, Station, Mission
  <2>4. CameFollows'
    BY <1>1, <1>2, <1>3, <1>5, <1>6, Facts, Two, BatteryAssumption
    DEF LInv, CameFollows, Needs, Passed, AtWork, Halting, MissionRests, Charged, Station, Mission
  <2> QED BY <1>2, <2>1, <2>2, <2>3, <2>4 DEF LInv

LEMMA WaitVisited ==
  ASSUME LInv, VisitWait
  PROVE  LInv'
<1>1. LeafReturns("Wait", "RUNNING")
  BY DEF VisitWait
<1>2. TInv'
  <2>1. Tree
    BY DEF Tree
  <2> QED BY <2>1, TreeKeeps DEF LInv
<1>3. /\ "Wait" \in Leaves /\ "Wait" \notin Actions
      /\ Station \notin Halted("Wait", "RUNNING") /\ Mission \in Halted("Wait", "RUNNING")
  BY DEF Leaves, Actions, Halted, Station, Mission, MissionBranch
<1>4. leaf' = "rest"
  <2>1. leaf' = NextLeaf("Wait", "RUNNING")
    BY <1>1, <1>3, Facts, VisitWhat
  <2> QED BY <2>1 DEF NextLeaf
<1>5. /\ leaf = "Wait" /\ ~asked'
      /\ UNCHANGED <<charge, current, prev_docked, discharge_current, running, place, skill, came>>
      /\ missed' = missed
      /\ commands'[Station] = commands[Station] /\ (Station \in running_' <=> Station \in running_)
      /\ IF Mission \in running_
         THEN Mission \notin running_' /\ commands'[Mission] = <<"CMD_STOP">>
         ELSE commands'[Mission] = commands[Mission] /\ (Mission \in running_' <=> Mission \in running_)
  <2>1. missed \ {"Wait"} = missed
    BY <1>3, Facts
  <2> QED BY <1>1, <1>3, <2>1, Facts, Two, VisitWhat
<1> QED
  <2>1. SkillsFollow'
    BY <1>2, <1>4, <1>5, Facts, Two DEF LInv, SkillsFollow, Over, AtWork, Halting, Station, Mission
  <2>2. RoadFollows'
    BY <1>2, <1>4, <1>5, Facts, Two, BatteryAssumption
    DEF LInv, TInv, Remembered, SkillsFollow, RoadFollows,
         Needs, Runaway, Over, Stuck, Passed, Choosing, Starting, AtWork, Halting, MissionRests,
         Uncalled, Charged, Past, Station, Mission
  <2>3. DockFollows'
    BY <1>2, <1>4, <1>5, Facts, Two, BatteryAssumption
    DEF LInv, TInv, Remembered, SkillsFollow, DockFollows,
         Needs, Runaway, Over, Stuck, Passed, Choosing, Starting, AtWork, Halting, MissionRests,
         Uncalled, Charged, Past, Station, Mission
  <2>4. CameFollows'
    BY <1>2, <1>4, <1>5, Facts, Two, BatteryAssumption
    DEF LInv, CameFollows, Needs, Passed, AtWork, Halting, MissionRests, Charged, Station, Mission
  <2> QED BY <1>2, <2>1, <2>2, <2>3, <2>4 DEF LInv

LEMMA TreeFollows ==
  ASSUME LInv, Tree
  PROVE  LInv'
<1>1. CASE BeginTick /\ KeepsUp /\ UNCHANGED <<batteryVars, worldVars>>
  <2>1. TInv'
    BY <1>1, TreeKeeps DEF LInv, Tree
  <2>2. /\ leaf = "rest" /\ leaf' = "BatteryLevel"
        /\ UNCHANGED <<asked, running_, charge, current, prev_docked, discharge_current, running>>
        /\ UNCHANGED <<skill, commands, place, missed, came>>
    BY <1>1 DEF BeginTick, batteryVars, worldVars
  <2>3. SkillsFollow'
    BY <2>2 DEF LInv, SkillsFollow, Station
  <2>4. RoadFollows' /\ DockFollows' /\ CameFollows'
    BY <2>2 DEF LInv, RoadFollows, DockFollows, CameFollows, Needs, Runaway, Over, Stuck, Passed, Choosing,
       Starting, AtWork, Halting, MissionRests, Uncalled, Charged, Station, Mission
  <2> QED BY <2>1, <2>3, <2>4 DEF LInv
<1>2. ASSUME NEW c \in ConditionLeaves, VisitCondition(c) PROVE LInv'
  BY <1>2, LevelSeen, StatusSeen, PlaceSeen, GoalSeen DEF ConditionLeaves
<1>3. ASSUME NEW a \in Actions, AskAction(a) \/ VisitAction(a) PROVE LInv'
  BY <1>3, Two, AskFollows, StationVisited, MissionVisited
<1> QED BY <1>1, <1>2, <1>3, WaitVisited DEF Tree

\* A skill takes a command: a stop changes nothing for the tree that did not
\* hold when it was sent.
LEMMA CommandFollows ==
  ASSUME LInv, NEW a \in Actions, Starts(a) \/ Stops(a) \/ Misses(a)
  PROVE  LInv'
<1>1. TInv'
  BY Facts, CommandKeeps
<1>2. CASE Starts(a)
  <2>1. /\ commands[a] = <<"CMD_START">> /\ commands'[a] = <<>>
        /\ \A b \in Actions : b # a => commands'[b] = commands[b]
        /\ UNCHANGED <<leaf, asked, running_, charge, current, prev_docked, discharge_current, running, place>>
    BY <1>2, Facts, Taken DEF Starts, Commands
  <2>2. /\ skill[a] = "idle" /\ skill'[a] = "waiting" /\ \A b \in Actions : b # a => skill'[b] = skill[b]
        /\ missed' = missed /\ came' = came
    BY <1>2, Facts DEF Starts, Becomes, TypeOK
  <2>3. leaf = a /\ asked
    BY <2>1 DEF LInv, TInv, Remembered, Called
  <2>4. \A b \in Actions : Halting(b)' <=> Halting(b)
    BY <2>1, Queues DEF Halting
  <2>5. SkillsFollow'
    BY <2>1, <2>2, <2>3, <2>4, Facts, Two, Queues DEF LInv, TInv, Remembered, SkillsFollow, Over, AtWork, Called, Halting, Past, SkillPhases, Station, Mission
  <2>6. RoadFollows'
    BY <2>1, <2>2, <2>3, <2>4, Facts, Two, Queues
    DEF LInv, TInv, Remembered, SkillsFollow, RoadFollows,
            Needs, Runaway, Over, Stuck, Passed, Choosing, Starting, AtWork, Called, Halting, MissionRests,
            Uncalled, Charged, Past, Station, Mission
  <2>7. DockFollows'
    BY <2>1, <2>2, <2>3, <2>4, Facts, Two, Queues
    DEF LInv, TInv, Remembered, SkillsFollow, DockFollows,
            Needs, Runaway, Over, Stuck, Passed, Choosing, Starting, AtWork, Called, Halting, MissionRests,
            Uncalled, Charged, Past, Station, Mission
  <2>8. CameFollows'
    BY <2>1, <2>2, <2>3, <2>4, Facts, Two, Queues
    DEF LInv, TInv, Remembered, SkillsFollow, CameFollows,
            Needs, Runaway, Over, Stuck, Passed, Choosing, Starting, AtWork, Called, Halting, MissionRests,
            Uncalled, Charged, Past, Station, Mission
  <2> QED BY <1>1, <2>5, <2>6, <2>7, <2>8 DEF LInv
<1>3. CASE Stops(a)
  <2>1. /\ commands[a] = <<"CMD_STOP">> /\ commands'[a] = <<>>
        /\ \A b \in Actions : b # a => commands'[b] = commands[b]
        /\ UNCHANGED <<leaf, asked, running_, charge, current, prev_docked, discharge_current, running, place>>
    BY <1>3, Facts, Taken DEF Stops, Commands
  <2>2. /\ skill'[a] \in {"idle", "stopping"} /\ \A b \in Actions : b # a => skill'[b] = skill[b]
        /\ missed' = missed \ {a} /\ came' = came
    BY <1>3, Facts DEF Stops, Becomes, TypeOK
  <2>3. a \notin running_ /\ leaf \in Past(a) /\ a \notin missed
    BY <2>1, Queues DEF LInv, TInv, Remembered, SkillsFollow, Halting
  <2>4. missed' = missed /\ Halting(a) /\ ~Halting(a)'
    BY <2>1, <2>2, <2>3, Queues DEF Halting
  <2>5. SkillsFollow'
    BY <2>1, <2>2, <2>3, <2>4, Facts, Two, Queues DEF LInv, TInv, Remembered, SkillsFollow, Over, AtWork, Called, Halting, Past, SkillPhases, Station, Mission
  <2>6. RoadFollows'
    BY <2>1, <2>2, <2>3, <2>4, Facts, Two, Queues
    DEF LInv, TInv, Remembered, SkillsFollow, RoadFollows,
            Needs, Runaway, Over, Stuck, Passed, Choosing, Starting, AtWork, Called, Halting, MissionRests,
            Uncalled, Charged, Past, Station, Mission
  <2>7. DockFollows'
    BY <2>1, <2>2, <2>3, <2>4, Facts, Two, Queues
    DEF LInv, TInv, Remembered, SkillsFollow, DockFollows,
            Needs, Runaway, Over, Stuck, Passed, Choosing, Starting, AtWork, Called, Halting, MissionRests,
            Uncalled, Charged, Past, Station, Mission
  <2>8. CameFollows'
    BY <2>1, <2>2, <2>3, <2>4, Facts, Two, Queues
    DEF LInv, TInv, Remembered, SkillsFollow, CameFollows,
            Needs, Runaway, Over, Stuck, Passed, Choosing, Starting, AtWork, Called, Halting, MissionRests,
            Uncalled, Charged, Past, Station, Mission
  <2> QED BY <1>1, <2>5, <2>6, <2>7, <2>8 DEF LInv
<1>4. CASE Misses(a)
  <2>1. /\ commands[a] = <<"CMD_STOP">> /\ commands'[a] = <<>>
        /\ \A b \in Actions : b # a => commands'[b] = commands[b]
        /\ UNCHANGED <<leaf, asked, running_, charge, current, prev_docked, discharge_current, running, place>>
    BY <1>4, Facts, Taken DEF Misses, Commands
  <2>2. /\ skill[a] \in {"waiting", "arrived", "failed"} /\ skill' = skill
        /\ missed' = missed \cup {a} /\ came' = FALSE
    BY <1>4 DEF Misses
  <2>3. a \notin running_ /\ leaf \in Past(a)
    BY <2>1 DEF LInv, TInv, Remembered, Halting
  <2>4. Halting(a) /\ ~Halting(a)'
    BY <2>1, Queues DEF Halting
  <2>5. SkillsFollow'
    BY <2>1, <2>2, <2>3, <2>4, Facts, Two, Queues DEF LInv, TInv, Remembered, SkillsFollow, Over, AtWork, Called, Halting, Past, SkillPhases, Station, Mission
  <2>6. RoadFollows'
    BY <2>1, <2>2, <2>3, <2>4, Facts, Two, Queues
    DEF LInv, TInv, Remembered, SkillsFollow, RoadFollows,
            Needs, Runaway, Over, Stuck, Passed, Choosing, Starting, AtWork, Called, Halting, MissionRests,
            Uncalled, Charged, Past, Station, Mission
  <2>7. DockFollows'
    BY <2>1, <2>2, <2>3, <2>4, Facts, Two, Queues
    DEF LInv, TInv, Remembered, SkillsFollow, DockFollows,
            Needs, Runaway, Over, Stuck, Passed, Choosing, Starting, AtWork, Called, Halting, MissionRests,
            Uncalled, Charged, Past, Station, Mission
  <2>8. CameFollows'
    BY <2>1, <2>2, <2>3, <2>4, Facts, Two, Queues
    DEF LInv, TInv, Remembered, SkillsFollow, CameFollows,
            Needs, Runaway, Over, Stuck, Passed, Choosing, Starting, AtWork, Called, Halting, MissionRests,
            Uncalled, Charged, Past, Station, Mission
  <2> QED BY <1>1, <2>5, <2>6, <2>7, <2>8 DEF LInv
<1> QED BY <1>2, <1>3, <1>4

\* The robot comes to the station, with or without the tree, and leaves it only
\* with GoToDestination.
LEMMA RobotFollows ==
  ASSUME LInv, NEW a \in Actions, Robot(a)
  PROVE  LInv' /\ (came /\ place = "station" /\ place' # "station" => charge = Full)
<1>1. CASE Starts(a) \/ Stops(a) \/ Misses(a)
  <2>1. place' = place
    BY <1>1 DEF Starts, Stops, Misses, Takes
  <2> QED BY <1>1, <2>1, CommandFollows
<1>2. TInv'
  BY Facts, RobotKeeps
<1>3. ASSUME TakesUnit(a) \/ Departs(a) \/ Reaches(a) \/ Ends(a) \/ GivesBack(a)
      PROVE  UNCHANGED <<leaf, asked, running_, missed, commands, charge, current, prev_docked, discharge_current, running>>
  BY <1>3 DEF TakesUnit, Departs, Reaches, Ends, GivesBack, treeVars, batteryVars
<1>4. CASE TakesUnit(a)
  <2>1. /\ place' = place /\ came' = came /\ skill[a] = "waiting" /\ skill'[a] = "driving"
        /\ \A b \in Actions : skill[b] # "driving" /\ (b # a => skill'[b] = skill[b])
    BY <1>4, Facts DEF TakesUnit, Becomes, TypeOK
  <2>5. SkillsFollow'
    BY <1>3, <1>4, <2>1, Facts, Two, Queues DEF LInv, TInv, Remembered, SkillsFollow, Over, AtWork, Called, Halting, Past, SkillPhases, Station, Mission
  <2>6. RoadFollows'
    BY <1>3, <1>4, <2>1, Facts, Two, Queues
    DEF LInv, TInv, Remembered, SkillsFollow, RoadFollows,
            Needs, Runaway, Over, Stuck, Passed, Choosing, Starting, AtWork, Called, Halting, MissionRests,
            Uncalled, Charged, Past, Station, Mission
  <2>7. DockFollows'
    BY <1>3, <1>4, <2>1, Facts, Two, Queues
    DEF LInv, TInv, Remembered, SkillsFollow, DockFollows,
            Needs, Runaway, Over, Stuck, Passed, Choosing, Starting, AtWork, Called, Halting, MissionRests,
            Uncalled, Charged, Past, Station, Mission
  <2>8. CameFollows'
    BY <1>3, <1>4, <2>1, Facts, Two, Queues
    DEF LInv, TInv, Remembered, SkillsFollow, CameFollows,
            Needs, Runaway, Over, Stuck, Passed, Choosing, Starting, AtWork, Called, Halting, MissionRests,
            Uncalled, Charged, Past, Station, Mission
  <2> QED BY <1>2, <2>1, <2>5, <2>6, <2>7, <2>8 DEF LInv
<1>5. CASE Ends(a)
  <2>1. /\ place' = place /\ came' = came /\ skill[a] = "driving" /\ skill'[a] \in {"arrived", "failed"}
        /\ \A b \in Actions : b # a => skill'[b] = skill[b]
    BY <1>5, Facts DEF Ends, Becomes, TypeOK
  <2>5. SkillsFollow'
    BY <1>3, <1>5, <2>1, Facts, Two, Queues DEF LInv, TInv, Remembered, SkillsFollow, Over, AtWork, Called, Halting, Past, SkillPhases, Station, Mission
  <2>6. RoadFollows'
    BY <1>3, <1>5, <2>1, Facts, Two, Queues
    DEF LInv, TInv, Remembered, SkillsFollow, RoadFollows,
            Needs, Runaway, Over, Stuck, Passed, Choosing, Starting, AtWork, Called, Halting, MissionRests,
            Uncalled, Charged, Past, Station, Mission
  <2>7. DockFollows'
    BY <1>3, <1>5, <2>1, Facts, Two, Queues
    DEF LInv, TInv, Remembered, SkillsFollow, DockFollows,
            Needs, Runaway, Over, Stuck, Passed, Choosing, Starting, AtWork, Called, Halting, MissionRests,
            Uncalled, Charged, Past, Station, Mission
  <2>8. CameFollows'
    BY <1>3, <1>5, <2>1, Facts, Two, Queues
    DEF LInv, TInv, Remembered, SkillsFollow, CameFollows,
            Needs, Runaway, Over, Stuck, Passed, Choosing, Starting, AtWork, Called, Halting, MissionRests,
            Uncalled, Charged, Past, Station, Mission
  <2> QED BY <1>2, <2>1, <2>5, <2>6, <2>7, <2>8 DEF LInv
<1>6. CASE GivesBack(a)
  <2>1. /\ place' = place /\ came' = came
        /\ \/ skill[a] \in {"arrived", "failed"} /\ skill'[a] \in {"success", "failure"}
           \/ skill[a] = "stopping" /\ skill'[a] = "idle"
        /\ \A b \in Actions : b # a => skill'[b] = skill[b]
    BY <1>6, Facts DEF GivesBack, Becomes, TypeOK
  <2>5. SkillsFollow'
    BY <1>3, <1>6, <2>1, Facts, Two, Queues DEF LInv, TInv, Remembered, SkillsFollow, Over, AtWork, Called, Halting, Past, SkillPhases, Station, Mission
  <2>6. RoadFollows'
    BY <1>3, <1>6, <2>1, Facts, Two, Queues
    DEF LInv, TInv, Remembered, SkillsFollow, RoadFollows,
            Needs, Runaway, Over, Stuck, Passed, Choosing, Starting, AtWork, Called, Halting, MissionRests,
            Uncalled, Charged, Past, Station, Mission
  <2>7. DockFollows'
    BY <1>3, <1>6, <2>1, Facts, Two, Queues
    DEF LInv, TInv, Remembered, SkillsFollow, DockFollows,
            Needs, Runaway, Over, Stuck, Passed, Choosing, Starting, AtWork, Called, Halting, MissionRests,
            Uncalled, Charged, Past, Station, Mission
  <2>8. CameFollows'
    BY <1>3, <1>6, <2>1, Facts, Two, Queues
    DEF LInv, TInv, Remembered, SkillsFollow, CameFollows,
            Needs, Runaway, Over, Stuck, Passed, Choosing, Starting, AtWork, Called, Halting, MissionRests,
            Uncalled, Charged, Past, Station, Mission
  <2> QED BY <1>2, <2>1, <2>5, <2>6, <2>7, <2>8 DEF LInv
<1>7. CASE a = Station /\ (Departs(a) \/ Reaches(a))
  <2>1. /\ skill' = skill /\ skill[Station] = "driving" /\ place # "station" /\ \A b \in Actions : commands[b] = <<>>
        /\ \/ place' # "station" /\ came' = came
           \/ place' = "station" /\ came' = (charge <= Low /\ running /\ Station \in running_ /\ missed = {})
    BY <1>7 DEF Departs, Reaches, KeepsUp, Goal, Station
  <2>2. \A b \in Actions : ~Halting(b)
    BY <2>1, Queues DEF Halting
  <2>5. SkillsFollow'
    BY <1>3, <1>7, <2>1, <2>2, Facts, Two, Queues DEF LInv, TInv, Remembered, SkillsFollow, Over, AtWork, Called, Halting, Past, SkillPhases, Station, Mission
  <2>6. RoadFollows'
    BY <1>3, <1>7, <2>1, <2>2, Facts, Two, Queues
    DEF LInv, TInv, Remembered, SkillsFollow, RoadFollows,
            Needs, Runaway, Over, Stuck, Passed, Choosing, Starting, AtWork, Called, Halting, MissionRests,
            Uncalled, Charged, Past, Station, Mission
  <2>3. UNCHANGED <<Passed, Choosing, Starting, Charged, Needs, Runaway, MissionRests, Uncalled>> /\ UNCHANGED <<Stuck(Mission), Over(Mission)>>
    BY <1>3, <1>7, <2>1, Two
    DEF Passed, Choosing, Starting, Charged, Needs, Runaway, MissionRests, Uncalled, Stuck, Over, AtWork, Halting
  <2>4. Runaway => Stuck(Mission)
    BY <2>1, <2>2, Facts, Two DEF LInv, SkillsFollow, Runaway, Stuck, Over, SkillPhases
  <2>9. UNCHANGED <<leaf, asked, charge, current>>
    BY <1>3, <1>7
  <2>7. DockFollows'
    <3>1. SUFFICES ASSUME place' = "station" PROVE DockFollows'
      BY DEF DockFollows
    <3>2. leaf # "Wait"
      BY <2>1 DEF LInv, SkillsFollow, AtWork
    <3>3. Choosing /\ ~Runaway => Needs
      BY <2>1 DEF LInv, RoadFollows, Over
    <3>4. Choosing => MissionRests \/ Uncalled \/ (leaf = Station /\ asked)
      <4>1. CASE Station \in missed
        BY <2>1, <4>1 DEF Uncalled
      <4>2. CASE Station \notin missed
        <5>1. Station \in running_ \/ (leaf = Station /\ asked)
          BY <2>1, <2>2, <4>2, Two DEF LInv, TInv, Remembered, AtWork
        <5>2. Station \in running_ /\ Choosing => MissionRests
          BY <2>2, Two DEF LInv, TInv, Remembered, MissionRests, Choosing, Mission, Station
        <5> QED BY <5>1, <5>2
      <4> QED BY <4>1, <4>2
    <3>5. (Needs /\ ~Passed /\ (MissionRests \/ Starting)) \/ Uncalled \/ Over(Mission)
      <4>1. CASE Station \in missed \/ Runaway
        BY <2>1, <2>4, <4>1 DEF Uncalled, Stuck
      <4>2. CASE Station \notin missed /\ ~Runaway
        <5>1. Needs
          BY <2>1, <2>2, <4>2, Two DEF LInv, RoadFollows, AtWork
        <5>2. Station \in running_ \/ (leaf = Station /\ asked)
          BY <2>1, <2>2, <4>2, Two DEF LInv, TInv, Remembered, AtWork
        <5>3. ~Passed
          BY <5>2 DEF LInv, TInv, Remembered, Passed, Mission, Station
        <5>4. Station \in running_ /\ ~(leaf = Station /\ asked) => MissionRests
          BY <2>2, <5>3, Two DEF LInv, TInv, Remembered, MissionRests, Passed
        <5> QED BY <5>1, <5>2, <5>3, <5>4 DEF Starting
      <4> QED BY <4>1, <4>2
    <3>6. (Choosing => MissionRests \/ Uncalled \/ (leaf = Station /\ asked))'
      BY <2>3, <2>9, <3>4
    <3>7. (~Charged => (Needs /\ ~Passed /\ (MissionRests \/ Starting)) \/ Uncalled \/ Over(Mission))'
      BY <2>3, <2>9, <3>5
    <3>8. (~Charged /\ (Choosing \/ leaf = "Wait") => Needs \/ Stuck(Mission))'
      BY <2>3, <2>4, <2>9, <3>2, <3>3
    <3> QED BY <3>6, <3>7, <3>8 DEF DockFollows
  <2>8. CameFollows'
    <3>1. CASE place' # "station"
      <4>1. missed' = missed /\ running' = running
        BY <1>3, <1>7 DEF Departs, Reaches, batteryVars
      <4>2. came' = came
        BY <2>1, <3>1
      <4>3. came => missed = {} /\ running
        BY DEF LInv, CameFollows
      <4> QED BY <3>1, <4>1, <4>2, <4>3 DEF CameFollows
    <3>2. ASSUME place' = "station", came'
          PROVE  missed' = {} /\ running' /\ Needs' /\ ~Passed' /\ MissionRests'
      <4>1. charge <= Low /\ running /\ missed = {} /\ Station \in running_
        BY <2>1, <3>2
      <4>2. Needs
        BY <2>1, <2>2, <4>1, Two DEF LInv, RoadFollows, AtWork, Runaway
      <4>3. MissionRests /\ ~Passed
        BY <2>1, <2>2, <4>1, Two DEF LInv, TInv, Remembered, AtWork, MissionRests, Passed, Mission
      <4> QED BY <1>3, <1>7, <2>3, <4>1, <4>2, <4>3
    <3> QED BY <3>1, <3>2 DEF CameFollows
  <2> QED BY <1>2, <2>1, <2>5, <2>6, <2>7, <2>8 DEF LInv
<1>8. CASE a = Mission /\ (Departs(a) \/ Reaches(a))
  <2>1. /\ skill' = skill /\ skill[Mission] = "driving" /\ place' # "station" /\ \A b \in Actions : commands[b] = <<>>
        /\ came' = came \/ came' = FALSE
    BY <1>8 DEF Departs, Reaches, KeepsUp, Goal, Mission
  <2>2. \A b \in Actions : ~Halting(b)
    BY <2>1, Queues DEF Halting
  <2>5. SkillsFollow'
    BY <1>3, <1>8, <2>1, <2>2, Facts, Two, Queues DEF LInv, TInv, Remembered, SkillsFollow, Over, AtWork, Called, Halting, Past, SkillPhases, Station, Mission
  <2>6. RoadFollows'
    <3>1. CASE place # "station"
      BY <1>3, <1>8, <2>1, <3>1 DEF LInv, RoadFollows, Needs, Runaway, Over, Passed, Choosing, AtWork, Halting
    <3>2. CASE place = "station"
      <4>1. ~Over(Mission) /\ ~AtWork(Station) /\ (Uncalled \/ Starting => Over(Station))
        BY <2>1, <3>2, Two DEF LInv, SkillsFollow, Uncalled, Starting, Stuck, Over, AtWork
      <4>2. Choosing => Runaway \/ Over(Station)
        BY <2>1, <2>2, <3>2, <4>1, Two DEF LInv, DockFollows, MissionRests, AtWork, Runaway, Starting
      <4>3. current < 0 => (Runaway /\ ~Passed) \/ Over(Station)
        <5>1. current < 0 => ~Charged
          BY DEF Charged
        <5> QED BY <2>1, <2>2, <3>2, <4>1, <5>1, Two DEF LInv, DockFollows, MissionRests, AtWork, Runaway
      <4> QED BY <1>3, <1>8, <2>1, <4>1, <4>2, <4>3 DEF RoadFollows, AtWork, Choosing, Runaway, Passed, Over, Halting
    <3> QED BY <3>1, <3>2
  <2>7. DockFollows'
    BY <1>3, <1>8, <2>1, <2>2, Facts, Two, Queues
    DEF LInv, TInv, Remembered, SkillsFollow, DockFollows,
            Needs, Runaway, Over, Stuck, Passed, Choosing, Starting, AtWork, Called, Halting, MissionRests,
            Uncalled, Charged, Past, Station, Mission
  <2>8. CameFollows'
    BY <1>3, <1>8, <2>1, <2>2, Facts, Two, Queues
    DEF LInv, TInv, Remembered, SkillsFollow, CameFollows,
            Needs, Runaway, Over, Stuck, Passed, Choosing, Starting, AtWork, Called, Halting, MissionRests,
            Uncalled, Charged, Past, Station, Mission
  <2>9. came /\ place = "station" => charge = Full
    BY <2>1, <2>2, Two DEF LInv, CameFollows, MissionRests, AtWork, Charged
  <2> QED BY <1>2, <2>5, <2>6, <2>7, <2>8, <2>9 DEF LInv
<1> QED BY <1>1, <1>4, <1>5, <1>6, <1>7, <1>8, Two DEF Robot

LEMMA BatteryNumbers ==
  ASSUME TypeOK
  PROVE  /\ charge \in Int /\ charge <= Full /\ current \in Int /\ discharge_current \in Int
         /\ Full \in Int /\ Low \in Int /\ Low < Full
BY Currents, BatteryAssumption DEF TypeOK, BatteryTypeOK

\* Off the station, the station turns the current back only if the robot has
\* been taken off while it was charged.
LEMMA PowerFollows ==
  ASSUME LInv, Power
  PROVE  LInv'
<1>1. /\ TInv' /\ TypeOK
      /\ UNCHANGED <<leaf, asked, running_, missed, skill, commands, place, came>>
  <2>1. TInv'
    BY NextKeeps DEF LInv, Next
  <2> QED BY <2>1 DEF Power, treeVars, worldVars, LInv, TInv
<1>2. /\ charge \in Int /\ charge <= Full /\ current \in Int /\ discharge_current \in Int
      /\ Full \in Int /\ Low \in Int /\ Low < Full
  BY <1>1, BatteryNumbers
<1>3. ASSUME prev_docked' => discharge_current' > 0 PROVE SkillsFollow'
  BY <1>1, <1>3 DEF LInv, SkillsFollow, Over, Halting, AtWork
<1>4. CASE Integrate
  <2>1. /\ UNCHANGED <<current, prev_docked, discharge_current, running>>
        /\ Needs => Needs'
        /\ ~Charged /\ ~Charged'
    BY <1>1, <1>2, <1>4 DEF Integrate, Needs, Charged
  <2>2. SkillsFollow'
    BY <1>3, <2>1 DEF LInv, SkillsFollow
  <2>3. RoadFollows' /\ DockFollows' /\ CameFollows'
    BY <1>1, <2>1 DEF LInv, RoadFollows, DockFollows, CameFollows, Runaway, Over, Stuck, Passed, Choosing, Starting, AtWork, Halting, MissionRests, Uncalled
  <2> QED BY <1>1, <2>2, <2>3 DEF LInv
<1>5. CASE place = "station" /\ updateModule(TRUE)
  <2>1. /\ prev_docked' /\ discharge_current' > 0 /\ running' = running /\ charge' = charge
        /\ current' = IF charge >= Full THEN 0 ELSE -discharge_current'
        /\ discharge_current' \in Int
    <3>1. SavedCurrent > 0 /\ SavedCurrent \in Int
      <4>1. BatteryTypeOK
        BY <1>1 DEF TypeOK
      <4> QED BY <4>1, LoadIsSaved, Currents
    <3> QED BY <1>2, <1>5, <3>1 DEF updateModule, Docks, LInv, SkillsFollow
  <2>2. ~Charged' => ~Charged /\ Needs'
    <3>1. charge = Full => current' = 0
      BY <1>2, <2>1
    <3>2. charge # Full => current' < 0
      <4>1. charge # Full => current' = -discharge_current'
        <5>1. charge # Full => ~(charge >= Full)
          BY <1>2
        <5> QED BY <2>1, <5>1, Zenon
      <4>2. \A d \in Int : d > 0 => -d < 0
        OBVIOUS
      <4> QED BY <2>1, <4>1, <4>2
    <3> QED BY <2>1, <3>1, <3>2 DEF Charged, Needs
  <2>3. SkillsFollow'
    BY <1>3, <2>1
  <2>4. RoadFollows' /\ DockFollows' /\ CameFollows'
    BY <1>1, <1>5, <2>1, <2>2 DEF LInv, RoadFollows, DockFollows, CameFollows, Runaway, Over, Stuck, Passed, Choosing, Starting, AtWork, Halting, MissionRests, Uncalled
  <2> QED BY <1>1, <2>3, <2>4 DEF LInv
<1>6. CASE place # "station" /\ updateModule(FALSE)
  <2>1. /\ running' = running /\ charge' = charge /\ discharge_current' = discharge_current
        /\ ~prev_docked' /\ (~prev_docked => current' = current)
    BY <1>6 DEF updateModule
  <2>2. Needs => Needs' \/ (current < 0 /\ prev_docked)
    BY <1>1, <2>1 DEF Needs
  <2>3. SkillsFollow'
    BY <1>3, <2>1
  <2>4. RoadFollows'
    BY <1>1, <1>6, <2>1, <2>2 DEF LInv, RoadFollows, Runaway, Over, Passed, Choosing, AtWork, Halting
  <2>5. DockFollows' /\ CameFollows'
    BY <1>1, <1>6, <2>1 DEF LInv, DockFollows, CameFollows
  <2> QED BY <1>1, <2>3, <2>4, <2>5 DEF LInv
<1>7. CASE StationRestart
  <2>1. /\ ~running /\ ~prev_docked' /\ UNCHANGED <<charge, current>>
    BY <1>7 DEF StationRestart
  <2>2. SkillsFollow' /\ ~came'
    BY <1>1, <1>3, <2>1 DEF LInv, CameFollows
  <2>3. RoadFollows' /\ DockFollows' /\ CameFollows'
    BY <1>1, <2>1, <2>2 DEF LInv, RoadFollows, DockFollows, CameFollows, Needs, Charged, Runaway, Over, Stuck, Passed, Choosing, Starting, AtWork, Halting, MissionRests, Uncalled
  <2> QED BY <1>1, <2>2, <2>3 DEF LInv
<1>8. updateModule(place = "station") =>
        (place = "station" /\ updateModule(TRUE)) \/ (place # "station" /\ updateModule(FALSE))
  BY DEF updateModule
<1> QED BY <1>4, <1>5, <1>6, <1>7, <1>8 DEF Power

LEMMA StationDiesFollows ==
  ASSUME LInv, StationDies
  PROVE  LInv'
<1>1. TInv'
  BY NextKeeps DEF LInv, Next
<1>2. /\ UNCHANGED <<leaf, asked, running_, missed, skill, commands, place, charge, current, prev_docked, discharge_current>>
      /\ ~came'
  BY DEF StationDies, StationCrash, treeVars
<1>3. SkillsFollow' /\ RoadFollows' /\ DockFollows' /\ CameFollows'
  BY <1>2 DEF LInv, SkillsFollow, RoadFollows, DockFollows, CameFollows,
     Needs, Charged, Runaway, Over, Stuck, Passed, Choosing, Starting, AtWork, Halting, MissionRests, Uncalled
<1> QED BY <1>1, <1>3 DEF LInv

LEMMA InitFollows == Init => LInv
<1> SUFFICES ASSUME Init PROVE LInv
  OBVIOUS
<1>1. TInv
  BY InitKeeps
<1>2. /\ leaf = "rest" /\ running_ = {} /\ skill = [a \in Actions |-> "idle"] /\ place = "road"
      /\ commands = [a \in Actions |-> <<>>] /\ missed = {} /\ came = FALSE /\ prev_docked = FALSE
  BY DEF Init, TreeInit, BatteryInit
<1>3. SkillsFollow
  BY <1>2, Two DEF SkillsFollow
<1>4. RoadFollows /\ DockFollows /\ CameFollows
  BY <1>2, Two DEF RoadFollows, DockFollows, CameFollows, AtWork, Choosing, Station
<1> QED BY <1>1, <1>3, <1>4 DEF LInv

LEMMA NextFollows ==
  ASSUME LInv, [Next]_vars
  PROVE  LInv' /\ (came /\ place = "station" /\ place' # "station" => charge = Full)
<1>1. CASE Tree
  <2>1. place' = place
    BY <1>1 DEF Tree, worldVars, VisitCondition, AskAction, VisitAction, VisitWait, LeafReturns
  <2> QED BY <1>1, <2>1, TreeFollows
<1>2. CASE Power
  BY <1>2, PowerFollows DEF Power, worldVars
<1>3. CASE StationDies
  BY <1>3, StationDiesFollows DEF StationDies
<1>4. CASE UNCHANGED vars
  <2>1. TInv'
    BY <1>4, NextKeeps DEF LInv
  <2>2. /\ UNCHANGED <<leaf, asked, running_, missed, skill, commands, place, came>>
        /\ UNCHANGED <<charge, current, prev_docked, discharge_current, running>>
    BY <1>4 DEF vars, treeVars, batteryVars, worldVars
  <2>3. SkillsFollow' /\ RoadFollows' /\ DockFollows' /\ CameFollows'
    BY <2>2 DEF LInv, SkillsFollow, RoadFollows, DockFollows, CameFollows,
       Needs, Charged, Runaway, Over, Stuck, Passed, Choosing, Starting, AtWork, Halting, MissionRests, Uncalled
  <2> QED BY <2>1, <2>2, <2>3 DEF LInv
<1> QED BY <1>1, <1>2, <1>3, <1>4, RobotFollows DEF Next

\* A robot that came to the station with a low battery leaves it full, unless
\* the station process dies or a skill misses its CMD_STOP meanwhile: between
\* the level and the status the tree always sees that it is being charged
\* (release3_BT.xml, updateModule of the charging station).
THEOREM LeavesFullHolds == Spec => LeavesFull
<1>1. ASSUME LInv, [Next]_vars
      PROVE  [came /\ place = "station" /\ place' # "station" => charge = Full]_vars
  BY <1>1, NextFollows
<1>2. Spec => []LInv
  BY InitFollows, NextFollows, PTL DEF Spec
<1> QED BY <1>1, <1>2, PTL DEF Spec, LeavesFull
=============================================================================
