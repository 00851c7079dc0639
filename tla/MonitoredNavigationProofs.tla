---------------------- MODULE MonitoredNavigationProofs ----------------------
(***************************************************************************)
(* The monitors of the battery and of the journeys, for any destinations,  *)
(* charges, levels and numbers of ticks.                                   *)
(***************************************************************************)
EXTENDS MonitoredNavigation, TLAPS

-----------------------------------------------------------------------------
(* The charts after the signals of a message, of which there are at most   *)
(* two here.                                                               *)

\* after, the function that Delegated defines, is the one that has these values.
After(c, signals, n, f) ==
  f = [i \in 0..n |-> IF i = 0 THEN c ELSE Delegate(f[i - 1], signals[i])]

LEMMA DelegatedIsAfter ==
  ASSUME NEW c, NEW signals, Len(signals) \in Nat, NEW g, After(c, signals, Len(signals), g)
  PROVE  \E f : After(c, signals, Len(signals), f) /\ Delegated(c, signals) = f[Len(signals)]
<1> DEFINE f == CHOOSE h : After(c, signals, Len(signals), h)
<1>1. After(c, signals, Len(signals), f)
  OBVIOUS
<1>2. Delegated(c, signals) = f[Len(signals)]
  BY DEF Delegated, After
<1> HIDE DEF f
<1> QED BY <1>1, <1>2

LEMMA DelegatedNone ==
  ASSUME NEW c
  PROVE  Delegated(c, <<>>) = c
<1>1. Len(<<>>) = 0
  OBVIOUS
<1>2. After(c, <<>>, 0, [i \in 0..0 |-> c])
  BY DEF After
<1>3. PICK f : After(c, <<>>, 0, f) /\ Delegated(c, <<>>) = f[0]
  BY <1>1, <1>2, DelegatedIsAfter
<1> QED BY <1>3 DEF After

LEMMA DelegatedOne ==
  ASSUME NEW c, NEW s
  PROVE  Delegated(c, <<s>>) = Delegate(c, s)
<1>1. Len(<<s>>) = 1 /\ <<s>>[1] = s
  OBVIOUS
<1> DEFINE g == [i \in 0..1 |-> IF i = 0 THEN c ELSE Delegate(c, s)]
<1>2. After(c, <<s>>, 1, g)
  <2>1. \A i \in 0..1 : g[i] = IF i = 0 THEN c ELSE Delegate(g[i - 1], <<s>>[i])
    BY <1>1
  <2>2. g = [i \in 0..1 |-> g[i]]
    OBVIOUS
  <2> HIDE DEF g
  <2> QED BY <2>1, <2>2 DEF After
<1>3. PICK f : After(c, <<s>>, 1, f) /\ Delegated(c, <<s>>) = f[1]
  BY <1>1, <1>2, DelegatedIsAfter
<1>4. f[0] = c /\ f[1] = Delegate(f[0], <<s>>[1])
  BY <1>3 DEF After
<1> QED BY <1>1, <1>3, <1>4

LEMMA DelegatedTwo ==
  ASSUME NEW c, NEW s, NEW t
  PROVE  Delegated(c, <<s, t>>) = Delegate(Delegate(c, s), t)
<1>1. Len(<<s, t>>) = 2 /\ <<s, t>>[1] = s /\ <<s, t>>[2] = t
  OBVIOUS
<1> DEFINE d == Delegate(c, s)
           g == [i \in 0..2 |-> IF i = 0 THEN c ELSE IF i = 1 THEN d ELSE Delegate(d, t)]
<1>2. After(c, <<s, t>>, 2, g)
  <2>1. \A i \in 0..2 : g[i] = IF i = 0 THEN c ELSE Delegate(g[i - 1], <<s, t>>[i])
    <3>1. g[0] = c /\ g[1] = Delegate(g[0], <<s, t>>[1]) /\ g[2] = Delegate(g[1], <<s, t>>[2])
      BY <1>1
    <3>2. \A i \in 0..2 : i \in {0, 1, 2} /\ 1 - 1 = 0 /\ 2 - 1 = 1
      OBVIOUS
    <3> HIDE DEF g
    <3> QED BY <3>1, <3>2
  <2>2. g = [i \in 0..2 |-> g[i]]
    OBVIOUS
  <2> HIDE DEF g
  <2> QED BY <2>1, <2>2 DEF After
<1>3. PICK f : After(c, <<s, t>>, 2, f) /\ Delegated(c, <<s, t>>) = f[2]
  BY <1>1, <1>2, DelegatedIsAfter
<1>4. f[0] = c /\ f[1] = Delegate(f[0], <<s, t>>[1]) /\ f[2] = Delegate(f[1], <<s, t>>[2])
  <2>1. /\ f[0] = IF 0 = 0 THEN c ELSE Delegate(f[0 - 1], <<s, t>>[0])
        /\ f[1] = IF 1 = 0 THEN c ELSE Delegate(f[1 - 1], <<s, t>>[1])
        /\ f[2] = IF 2 = 0 THEN c ELSE Delegate(f[2 - 1], <<s, t>>[2])
    BY <1>3 DEF After
  <2>2. 1 - 1 = 0 /\ 2 - 1 = 1
    OBVIOUS
  <2> QED BY <2>1, <2>2
<1> QED BY <1>1, <1>3, <1>4

-----------------------------------------------------------------------------
(* What a message does to the charts, by the signals it gives.             *)

Becomes(c) == battery' = c.battery /\ destination' = c.destination /\ grasp' = c.grasp /\ target' = c.target

LEMMA HearsNothing ==
  ASSUME NEW m, Hear(m), read(reader, m).signals = <<>>
  PROVE  reader' = read(reader, m).reader /\ UNCHANGED <<battery, destination, grasp, target>>
<1>1. Delegated(charts, read(reader, m).signals) = charts
  BY DelegatedNone
<1> QED BY <1>1 DEF Hear, charts

LEMMA HearsOne ==
  ASSUME NEW m, Hear(m), NEW name, NEW data, read(reader, m).signals = <<Signal(name, data)>>,
         name \notin {"destinationChanged", "destinationReached"}
  PROVE  /\ reader' = read(reader, m).reader
         /\ battery' = BatteryLevelMonitor(battery, <<name, data>>)
         /\ destination' = DestinationMonitor(destination, <<name, data>>)
         /\ target' = TargetMonitor(target, <<name, data>>)
<1>1. Delegated(charts, read(reader, m).signals) = Delegate(charts, Signal(name, data))
  BY DelegatedOne
<1>2. Delegate(charts, Signal(name, data)) = SubmitToAll(charts, <<name, data>>)
  BY DEF Delegate, Signal
<1> QED BY <1>1, <1>2 DEF Hear, charts, SubmitToAll

\* A change of the destination, whether the old one has been reached or not.
LEMMA HearsChange ==
  ASSUME NEW m, Hear(m), NEW old, NEW d,
         read(reader, m).signals \in
           {<<Signal("destinationChanged", d)>>,
            <<Signal("destinationReached", old), Signal("destinationChanged", d)>>}
  PROVE  /\ reader' = read(reader, m).reader
         /\ battery' = battery
         /\ destination' = DestinationMonitor(DestinationMonitor(destination, <<"destinationChanged", d>>),
                                              <<"destinationReached", d>>)
         /\ target' = TargetMonitor(TargetMonitor(target, <<"destinationChanged", d>>),
                                    <<"destinationReached", d>>)
<1> DEFINE changed == Signal("destinationChanged", d)
           reached == Signal("destinationReached", old)
<1>1. Delegate(charts, reached) = charts
  BY DEF Delegate, Signal
<1>2. Delegate(charts, changed) = SubmitToAll(SubmitToAll(charts, <<"destinationChanged", d>>), <<"destinationReached", d>>)
  BY DEF Delegate, Signal
<1>3. Delegated(charts, read(reader, m).signals) = Delegate(charts, changed)
  BY <1>1, DelegatedOne, DelegatedTwo
<1> HIDE DEF changed
<1> QED BY <1>2, <1>3 DEF Hear, charts, SubmitToAll, BatteryLevelMonitor

-----------------------------------------------------------------------------
(* What the reader makes of the messages of this composition.              *)

LEMMA ReadsTick ==
  /\ read(reader, TickMessage).reader = reader
  /\ read(reader, TickMessage).signals = <<Signal("tick", 0)>>
BY DEF read, ReadTick, TickMessage, Emits

LEMMA ReadsLevelReply ==
  ASSUME NEW level
  PROVE  LET heard == read(reader, BatteryUpdateReply(levelPort, [method |-> "level", ret |-> level]))
         IN  /\ reader.batteryLevel = level => heard.reader = reader /\ heard.signals = <<>>
             /\ reader.batteryLevel # level =>
                  /\ heard.reader = [reader EXCEPT !.batteryLevel = level]
                  /\ heard.signals = <<Signal("batteryLevelChanged", level)>>
<1> DEFINE m == BatteryUpdateReply(levelPort, [method |-> "level", ret |-> level])
<1>1. levelPort = [source |-> "/BatteryReaderBatteryLevelClient", destination |-> "/BatteryComponent"]
  BY DEF levelPort, Object, Create
<1>2. /\ m.type = "reply" /\ m.source = "/BatteryReaderBatteryLevelClient"
      /\ m.destination = "/BatteryComponent" /\ m.command = "level" /\ m.reply = <<level>>
  BY <1>1 DEF BatteryUpdateReply, BatteryMethods, Message
<1> HIDE DEF m
<1>3. read(reader, m) = ReadLevel(reader, m)
  BY <1>2 DEF read
<1>4. First(m.reply) = level
  BY <1>2 DEF First
<1> QED BY <1>3, <1>4 DEF ReadLevel, Ignores, Emits, m

LEMMA ReadsStart ==
  LET heard == read(reader, SkillUpdate(startPort, [method |-> "send_start"]))
  IN  heard.reader = reader /\ heard.signals = <<Signal("send_startCommandSent", 0)>>
<1> DEFINE m == SkillUpdate(startPort, [method |-> "send_start"])
<1>1. startPort = [source |-> "/GoToUser/BT_rpc/client", destination |-> "/GoToUser/BT_rpc/server"]
  BY DEF startPort, Object, Create
<1>2. /\ m.type = "command" /\ m.source = "/GoToUser/BT_rpc/client"
      /\ m.destination = "/GoToUser/BT_rpc/server" /\ m.command = "send_start" /\ m.args = <<>>
  BY <1>1 DEF SkillUpdate, SkillMethods, Message
<1> HIDE DEF m
<1>3. read(reader, m) = ReadStart(reader, m)
  BY <1>2 DEF read, StartedSkills
<1> QED BY <1>2, <1>3 DEF ReadStart, Emits, First, m

\* The replies of the GoTo component: only that to getStatus changes anything.
LEMMA ReadsStatusReply ==
  ASSUME NEW d, NEW status
  PROVE  LET heard == read(reader, GoToUpdateReply(goToPort, [method |-> "getStatus", dest |-> d, ret |-> status]))
         IN  /\ status = RUNNING /\ reader.destination # d =>
                  /\ heard.reader = [reader EXCEPT !.destination = d]
                  /\ heard.signals = <<Signal("destinationChanged", d)>>
             /\ status = SUCCESS /\ reader.destination = d =>
                  /\ heard.reader = [reader EXCEPT !.destination = NO_LOCATION]
                  /\ heard.signals = <<Signal("destinationReached", reader.destination),
                                       Signal("destinationChanged", NO_LOCATION)>>
             /\ status \notin {RUNNING, SUCCESS} /\ reader.destination # NO_LOCATION =>
                  /\ heard.reader = [reader EXCEPT !.destination = NO_LOCATION]
                  /\ heard.signals = <<Signal("destinationChanged", NO_LOCATION)>>
             /\ (\/ status = RUNNING /\ reader.destination = d
                 \/ status = SUCCESS /\ reader.destination # d
                 \/ status \notin {RUNNING, SUCCESS} /\ reader.destination = NO_LOCATION)
                => heard.reader = reader /\ heard.signals = <<>>
<1> DEFINE m == GoToUpdateReply(goToPort, [method |-> "getStatus", dest |-> d, ret |-> status])
<1>1. goToPort = [source |-> "/GoToClient", destination |-> "/GoToComponent"]
  BY DEF goToPort, Object, Create
<1>2. /\ m.type = "reply" /\ m.destination = "/GoToComponent" /\ m.command = "getStatus"
      /\ m.args = <<d>> /\ m.reply = <<status>>
  BY <1>1 DEF GoToUpdateReply, Message
<1> HIDE DEF m
<1>3. read(reader, m) = ReadStatus(reader, m)
  BY <1>2 DEF read
<1>4. First(m.args) = d /\ First(m.reply) = status
  BY <1>2 DEF First
<1> QED BY <1>3, <1>4 DEF ReadStatus, ChangeDestination, Arrives, Ignores, Emits, RUNNING, SUCCESS, m

LEMMA ReadsIsAtReply ==
  ASSUME NEW d, NEW is
  PROVE  LET heard == read(reader, GoToUpdateReply(goToPort, [method |-> "isAtLocation", dest |-> d, ret |-> is]))
         IN  heard.reader = reader /\ heard.signals = <<>>
<1> DEFINE m == GoToUpdateReply(goToPort, [method |-> "isAtLocation", dest |-> d, ret |-> is])
<1>1. goToPort = [source |-> "/GoToClient", destination |-> "/GoToComponent"]
  BY DEF goToPort, Object, Create
<1>2. /\ m.type = "reply" /\ m.destination = "/GoToComponent" /\ m.command = "isAtLocation"
      /\ m.reply = <<Number(is)>>
  BY <1>1 DEF GoToUpdateReply, Message
<1> HIDE DEF m
<1>3. read(reader, m) = ReadIsAt(reader, m)
  BY <1>2 DEF read
<1>4. First(m.reply) # VOCAB_OK
  BY <1>2 DEF First, Number, VOCAB_OK
<1> QED BY <1>3, <1>4 DEF ReadIsAt, Ignores, Emits, m

LEMMA ReadsHaltReply ==
  ASSUME NEW d
  PROVE  LET heard == read(reader, GoToUpdateReply(goToPort, [method |-> "halt", dest |-> d]))
         IN  heard.reader = reader /\ heard.signals = <<>>
<1> DEFINE m == GoToUpdateReply(goToPort, [method |-> "halt", dest |-> d])
<1>1. goToPort = [source |-> "/GoToClient", destination |-> "/GoToComponent"]
  BY DEF goToPort, Object, Create
<1>2. m.type = "reply" /\ m.destination = "/GoToComponent" /\ m.command = "halt"
  BY <1>1 DEF GoToUpdateReply, Message
<1> HIDE DEF m
<1>3. read(reader, m) = Ignores(reader)
  BY <1>2 DEF read
<1> QED BY <1>3 DEF Ignores, Emits, m

-----------------------------------------------------------------------------
(* The invariant.                                                          *)

DestinationStates == {"idleState-a", "waitForBatteryLevelState", "waitForTickState", "failure"}
TargetStates == {"idle", "waitForBatteryLevelState", "waitForTickState", "failure"}

Typed ==
  /\ reader \in [batteryLevel : Charges, destination : Destinations \cup {NO_LOCATION},
                 isArmExtracted : BOOLEAN, isHandOpen : BOOLEAN, isGrasping : BOOLEAN]
  /\ battery \in {"idle", "failure"}
  /\ destination \in [at : DestinationStates, batteryLevel : Charges,
                      destination : Destinations \cup {NO_LOCATION, ""}, tickCounter : 0..DestinationTheta]
  /\ target \in [at : TargetStates, tickCounter : 0..TargetTheta]
  /\ charge \in Charges
  /\ journey \in Destinations \cup {Nowhere} /\ at \in Destinations \cup {Nowhere}
  /\ progress \in {RUNNING, SUCCESS, ABORT}
  /\ ended \in Destinations \cup {Nowhere}
  /\ lowest \in Charges
  /\ late \in -1..DestinationTheta + 1
  /\ kept \in 0..TargetTheta + 1

\* The reader knows the last level, and the lowest was read before it or is it.
BatteryFollows ==
  /\ lowest <= reader.batteryLevel
  /\ battery = "failure" <=> lowest < Critical

\* The journey that has ended is not the one at work, nor shown.
JourneyFollows ==
  ended # Nowhere => reader.destination # ended /\ journey # ended

\* The chart has the values of the reader, but that it begins without a
\* destination.  While it counts, the level has been low and the station not
\* shown for the ticks that it has counted.
DestinationFollows ==
  /\ destination.batteryLevel = reader.batteryLevel
  /\ destination.destination = reader.destination
       \/ (destination.destination = "" /\ reader.destination = NO_LOCATION)
  /\ destination.at = "waitForTickState" =>
       lowest < LowLevel /\ late >= DestinationTheta - destination.tickCounter

\* While the chart counts, the destination has been kept for the ticks that it
\* has counted.
TargetFollows ==
  target.at = "waitForTickState" => kept >= TargetTheta - target.tickCounter

NInv == Typed /\ BatteryFollows /\ JourneyFollows /\ DestinationFollows /\ TargetFollows

-----------------------------------------------------------------------------
(* The four things that a step can show, and the history that follows.     *)

ShownNothing == UNCHANGED <<reader, battery, destination, target>>

ShownTick ==
  /\ UNCHANGED <<reader, battery>>
  /\ destination' = DestinationMonitor(destination, <<"tick", 0>>)
  /\ target' = TargetMonitor(target, <<"tick", 0>>)

ShownLevel(level) ==
  /\ reader' = [reader EXCEPT !.batteryLevel = level]
  /\ battery' = BatteryLevelMonitor(battery, <<"batteryLevelChanged", level>>)
  /\ destination' = DestinationMonitor(destination, <<"batteryLevelChanged", level>>)
  /\ target' = TargetMonitor(target, <<"batteryLevelChanged", level>>)

ShownChange(d) ==
  /\ reader.destination # d
  /\ reader' = [reader EXCEPT !.destination = d]
  /\ battery' = battery
  /\ destination' = DestinationMonitor(DestinationMonitor(destination, <<"destinationChanged", d>>),
                                       <<"destinationReached", d>>)
  /\ target' = TargetMonitor(TargetMonitor(target, <<"destinationChanged", d>>), <<"destinationReached", d>>)

LowShown == lowest' < LowLevel /\ reader'.destination # lowBatteryTarget

History(ticks) ==
  /\ lowest' = IF lowest <= reader'.batteryLevel THEN lowest ELSE reader'.batteryLevel
  /\ IF ~ticks /\ late # -1 THEN late' = late
     ELSE IF ~LowShown THEN late' = -1
     ELSE late' = IF late + 1 <= DestinationTheta + 1 THEN late + 1 ELSE DestinationTheta + 1
  /\ IF reader'.destination # reader.destination /\ reader'.destination # navigationTarget THEN kept' = 0
     ELSE IF ticks THEN kept' = IF kept + 1 <= TargetTheta + 1 THEN kept + 1 ELSE TargetTheta + 1
     ELSE kept' = kept

LEMMA MinOfTwo ==
  ASSUME NEW a \in Int, NEW b \in Int
  PROVE  Min({a, b}) = IF a <= b THEN a ELSE b
<1> DEFINE m == IF a <= b THEN a ELSE b
<1>1. m \in {a, b} /\ \A y \in {a, b} : m <= y
  OBVIOUS
<1>2. \A x \in {a, b} : (\A y \in {a, b} : x <= y) => x = m
  OBVIOUS
<1> HIDE DEF m
<1>3. Min({a, b}) = m
  BY <1>1, <1>2 DEF Min
<1> QED BY <1>3 DEF m

LEMMA HistoryFollows ==
  ASSUME Typed, NEW m, Shows(m), reader'.batteryLevel \in Charges
  PROVE  History(m.type = "tick")
<1>1. /\ lowest \in Int /\ reader'.batteryLevel \in Int
      /\ late \in -1..DestinationTheta + 1 /\ kept \in 0..TargetTheta + 1
      /\ DestinationTheta \in Nat /\ TargetTheta \in Nat
  <2>1. DestinationTheta \in Nat /\ TargetTheta \in Nat
    BY MonitorsAssumption
  <2>2. Charges \subseteq Int
    BY MonitoredNavigationAssumption
  <2> QED BY <2>1, <2>2 DEF Typed
<1>2. lowest' = IF lowest <= reader'.batteryLevel THEN lowest ELSE reader'.batteryLevel
  BY <1>1, MinOfTwo DEF Shows
<1>3. IF m.type # "tick" /\ late # -1 THEN late' = late
      ELSE IF ~LowShown THEN late' = -1
      ELSE late' = IF late + 1 <= DestinationTheta + 1 THEN late + 1 ELSE DestinationTheta + 1
  <2>1. late + 1 \in Int /\ DestinationTheta + 1 \in Int
    BY <1>1
  <2>2. Min({late + 1, DestinationTheta + 1}) = IF late + 1 <= DestinationTheta + 1 THEN late + 1 ELSE DestinationTheta + 1
    BY <2>1, MinOfTwo
  <2>3. late' = IF m.type # "tick" /\ late # -1 THEN late
                ELSE IF lowest' < LowLevel /\ reader'.destination # lowBatteryTarget
                     THEN Min({late + 1, DestinationTheta + 1})
                     ELSE -1
    BY DEF Shows
  <2> QED BY <2>2, <2>3 DEF LowShown
<1>4. IF reader'.destination # reader.destination /\ reader'.destination # navigationTarget THEN kept' = 0
      ELSE IF m.type = "tick" THEN kept' = IF kept + 1 <= TargetTheta + 1 THEN kept + 1 ELSE TargetTheta + 1
      ELSE kept' = kept
  <2> DEFINE tick == IF m.type = "tick" THEN 1 ELSE 0
  <2>1. tick \in 0..1 /\ kept + tick \in Int /\ TargetTheta + 1 \in Int
    BY <1>1
  <2>2. kept' = IF reader'.destination # reader.destination /\ reader'.destination # navigationTarget THEN 0
                ELSE Min({kept + tick, TargetTheta + 1})
    BY DEF Shows
  <2>3. Min({kept + tick, TargetTheta + 1}) = IF kept + tick <= TargetTheta + 1 THEN kept + tick ELSE TargetTheta + 1
    BY <2>1, MinOfTwo
  <2> QED BY <1>1, <2>2, <2>3
<1> QED BY <1>2, <1>3, <1>4 DEF History

\* Every step shows one of the four, or nothing at all.
Shown ==
  \/ UNCHANGED <<reader, battery, destination, target, lowest, late, kept>>
  \/ ShownNothing /\ History(FALSE)
  \/ ShownTick /\ History(TRUE)
  \/ \E level \in Charges : ShownLevel(level) /\ History(FALSE)
  \/ \E d \in Destinations \cup {NO_LOCATION} : ShownChange(d) /\ History(FALSE)

LEMMA TypeOfMessages ==
  /\ TickMessage.type = "tick"
  /\ \A ret : BatteryUpdateReply(levelPort, [method |-> "level", ret |-> ret]).type # "tick"
  /\ SkillUpdate(startPort, [method |-> "send_start"]).type # "tick"
  /\ \A call : GoToUpdateReply(goToPort, call).type # "tick"
BY DEF TickMessage, BatteryUpdateReply, BatteryMethods, SkillUpdate, SkillMethods, GoToUpdateReply,
       Unknown, Message

LEMMA TickShown ==
  ASSUME Typed, TreeTick
  PROVE  ShownTick /\ History(TRUE)
<1>1. Hear(TickMessage) /\ Shows(TickMessage)
  BY DEF TreeTick, Shows
<1>2. "tick" \notin {"destinationChanged", "destinationReached"}
  OBVIOUS
<1>3. ShownTick
  <2>1. BatteryLevelMonitor(battery, <<"tick", 0>>) = battery
    BY DEF BatteryLevelMonitor
  <2> QED BY <1>1, <1>2, <2>1, ReadsTick, HearsOne DEF ShownTick
<1>4. reader'.batteryLevel \in Charges
  BY <1>3 DEF ShownTick, Typed
<1> QED BY <1>1, <1>3, <1>4, HistoryFollows, TypeOfMessages

LEMMA LevelShown ==
  ASSUME Typed, ReadsLevel
  PROVE  /\ ShownNothing \/ ShownLevel(charge)
         /\ History(FALSE)
<1> DEFINE m == BatteryUpdateReply(levelPort, [method |-> "level", ret |-> charge])
<1>1. Hear(m) /\ Shows(m)
  BY DEF ReadsLevel, Shows
<1>2. "batteryLevelChanged" \notin {"destinationChanged", "destinationReached"}
  OBVIOUS
<1>3. /\ reader.batteryLevel = charge => read(reader, m).reader = reader /\ read(reader, m).signals = <<>>
      /\ reader.batteryLevel # charge =>
           /\ read(reader, m).reader = [reader EXCEPT !.batteryLevel = charge]
           /\ read(reader, m).signals = <<Signal("batteryLevelChanged", charge)>>
  BY ReadsLevelReply
<1>4. m.type # "tick"
  BY TypeOfMessages
<1> HIDE DEF m
<1>5. CASE reader.batteryLevel = charge
  <2>1. ShownNothing
    BY <1>1, <1>3, <1>5, HearsNothing DEF ShownNothing
  <2> QED BY <1>1, <1>4, <2>1, HistoryFollows DEF ShownNothing, Typed
<1>6. CASE reader.batteryLevel # charge
  <2>1. ShownLevel(charge)
    BY <1>1, <1>2, <1>3, <1>6, HearsOne DEF ShownLevel
  <2>2. reader'.batteryLevel \in Charges
    BY <2>1 DEF ShownLevel, Typed
  <2> QED BY <1>1, <1>4, <2>1, <2>2, HistoryFollows
<1> QED BY <1>5, <1>6

LEMMA StartShown ==
  ASSUME Typed, NEW d, Begins(d)
  PROVE  ShownNothing /\ History(FALSE)
<1> DEFINE m == SkillUpdate(startPort, [method |-> "send_start"])
<1>1. Hear(m) /\ Shows(m)
  BY DEF Begins, Shows
<1>2. "send_startCommandSent" \notin {"destinationChanged", "destinationReached"}
  OBVIOUS
<1>3. read(reader, m).reader = reader /\ read(reader, m).signals = <<Signal("send_startCommandSent", 0)>>
  BY ReadsStart
<1>4. m.type # "tick"
  BY TypeOfMessages
<1> HIDE DEF m
<1>5. /\ BatteryLevelMonitor(battery, <<"send_startCommandSent", 0>>) = battery
      /\ DestinationMonitor(destination, <<"send_startCommandSent", 0>>) = destination
      /\ TargetMonitor(target, <<"send_startCommandSent", 0>>) = target
  BY DEF BatteryLevelMonitor, DestinationMonitor, Update, TargetMonitor
<1>6. ShownNothing
  BY <1>1, <1>2, <1>3, <1>5, HearsOne DEF ShownNothing
<1> QED BY <1>1, <1>4, <1>6, HistoryFollows DEF ShownNothing, Typed

LEMMA ChangeShown ==
  ASSUME Typed, NEW m, Shows(m), m.type # "tick", NEW d \in Destinations \cup {NO_LOCATION}, NEW old,
         reader.destination # d, read(reader, m).reader = [reader EXCEPT !.destination = d],
         read(reader, m).signals \in
           {<<Signal("destinationChanged", d)>>,
            <<Signal("destinationReached", old), Signal("destinationChanged", d)>>}
  PROVE  ShownChange(d) /\ History(FALSE)
<1>1. Hear(m)
  BY DEF Shows
<1>2. ShownChange(d)
  BY <1>1, HearsChange DEF ShownChange
<1>3. reader'.batteryLevel \in Charges
  BY <1>2 DEF ShownChange, Typed
<1> QED BY <1>2, <1>3, HistoryFollows

LEMMA NothingShown ==
  ASSUME Typed, NEW m, Shows(m), m.type # "tick", read(reader, m).reader = reader, read(reader, m).signals = <<>>
  PROVE  ShownNothing /\ History(FALSE)
<1>1. Hear(m)
  BY DEF Shows
<1>2. ShownNothing
  BY <1>1, HearsNothing DEF ShownNothing
<1> QED BY <1>2, HistoryFollows DEF ShownNothing, Typed

LEMMA PollShown ==
  ASSUME Typed, Polls
  PROVE  /\ History(FALSE)
         /\ \/ progress = RUNNING /\ reader.destination # journey /\ ShownChange(journey)
            \/ progress = RUNNING /\ reader.destination = journey /\ ShownNothing
            \/ progress # RUNNING /\ ShownChange(NO_LOCATION)
            \/ progress = SUCCESS /\ reader.destination # journey /\ ShownNothing
            \/ progress = ABORT /\ reader.destination = NO_LOCATION /\ ShownNothing
<1> DEFINE m == GoToUpdateReply(goToPort, [method |-> "getStatus", dest |-> journey, ret |-> progress])
           heard == read(reader, m)
<1>1. Shows(m) /\ m.type # "tick" /\ journey \in Destinations
  BY TypeOfMessages DEF Polls, Typed
<1>3. /\ progress = RUNNING /\ reader.destination # journey =>
           /\ heard.reader = [reader EXCEPT !.destination = journey]
           /\ heard.signals = <<Signal("destinationChanged", journey)>>
      /\ progress = SUCCESS /\ reader.destination = journey =>
           /\ heard.reader = [reader EXCEPT !.destination = NO_LOCATION]
           /\ heard.signals = <<Signal("destinationReached", reader.destination),
                                Signal("destinationChanged", NO_LOCATION)>>
      /\ progress \notin {RUNNING, SUCCESS} /\ reader.destination # NO_LOCATION =>
           /\ heard.reader = [reader EXCEPT !.destination = NO_LOCATION]
           /\ heard.signals = <<Signal("destinationChanged", NO_LOCATION)>>
      /\ (\/ progress = RUNNING /\ reader.destination = journey
          \/ progress = SUCCESS /\ reader.destination # journey
          \/ progress \notin {RUNNING, SUCCESS} /\ reader.destination = NO_LOCATION)
         => heard.reader = reader /\ heard.signals = <<>>
  BY ReadsStatusReply
<1> HIDE DEF m
<1>4. RUNNING # SUCCESS /\ progress \in {RUNNING, SUCCESS, ABORT} /\ ABORT \notin {RUNNING, SUCCESS}
  <2>1. progress \in {RUNNING, SUCCESS, ABORT}
    BY DEF Typed
  <2> QED BY <2>1 DEF RUNNING, SUCCESS, ABORT
<1>5. journey # NO_LOCATION
  BY <1>1, MonitoredNavigationAssumption
<1>6. CASE progress = RUNNING /\ reader.destination # journey
  BY <1>1, <1>3, <1>6, ChangeShown
<1>7. CASE progress = SUCCESS /\ reader.destination = journey
  <2>1. /\ heard.reader = [reader EXCEPT !.destination = NO_LOCATION]
        /\ heard.signals = <<Signal("destinationReached", journey), Signal("destinationChanged", NO_LOCATION)>>
        /\ reader.destination # NO_LOCATION
    BY <1>3, <1>5, <1>7
  <2> HIDE DEF heard
  <2>2. ShownChange(NO_LOCATION) /\ History(FALSE)
    BY <1>1, <2>1, ChangeShown DEF heard
  <2> QED BY <1>4, <1>7, <2>2
<1>8. CASE progress = ABORT /\ reader.destination # NO_LOCATION
  BY <1>1, <1>3, <1>4, <1>8, ChangeShown
<1>9. CASE \/ progress = RUNNING /\ reader.destination = journey
           \/ progress = SUCCESS /\ reader.destination # journey
           \/ progress = ABORT /\ reader.destination = NO_LOCATION
  <2>1. heard.reader = reader /\ heard.signals = <<>>
    BY <1>3, <1>4, <1>9
  <2> QED BY <1>1, <1>9, <2>1, NothingShown
<1> QED BY <1>4, <1>6, <1>7, <1>8, <1>9

LEMMA StepShown ==
  ASSUME Typed, [Next]_vars
  PROVE  Shown
<1>1. CASE UNCHANGED vars
  BY <1>1 DEF vars, monitorVars, Shown
<1>2. CASE TreeTick
  BY <1>2, TickShown DEF Shown
<1>3. CASE ReadsLevel
  BY <1>3, LevelShown DEF Shown, Typed
<1>4. CASE Drives \/ \E c \in Charges : SetsCharge(c)
  BY <1>4 DEF Drives, SetsCharge, ShowsNothing, monitorVars, Shown
<1>5. CASE Polls
  <2>1. journey \in Destinations
    BY <1>5 DEF Polls, Typed
  <2> QED BY <1>5, <2>1, PollShown DEF Shown
<1>6. CASE Halts
  <2> DEFINE m == GoToUpdateReply(goToPort, [method |-> "halt", dest |-> journey])
  <2>1. Shows(m) /\ m.type # "tick" /\ read(reader, m).reader = reader /\ read(reader, m).signals = <<>>
    BY <1>6, ReadsHaltReply, TypeOfMessages DEF Halts
  <2> HIDE DEF m
  <2>2. ShownNothing /\ History(FALSE)
    BY <2>1, NothingShown
  <2> QED BY <2>2 DEF Shown
<1>7. CASE \E d \in Destinations : Begins(d)
  BY <1>7, StartShown DEF Shown
<1>8. CASE \E d \in Destinations : AsksWhere(d)
  <2>1. PICK d \in Destinations : AsksWhere(d)
    BY <1>8
  <2> DEFINE m == GoToUpdateReply(goToPort, [method |-> "isAtLocation", dest |-> d, ret |-> at = d])
  <2>2. Shows(m) /\ m.type # "tick" /\ read(reader, m).reader = reader /\ read(reader, m).signals = <<>>
    BY <2>1, ReadsIsAtReply, TypeOfMessages DEF AsksWhere
  <2> HIDE DEF m
  <2>3. ShownNothing /\ History(FALSE)
    BY <2>2, NothingShown
  <2> QED BY <2>3 DEF Shown
<1> QED BY <1>1, <1>2, <1>3, <1>4, <1>5, <1>6, <1>7, <1>8 DEF Next

-----------------------------------------------------------------------------
(* Every step preserves the invariant.                                     *)

LEMMA Numbers ==
  /\ Charges \subseteq Int /\ \A level \in Charges : level <= 100
  /\ 100 \in Charges
  /\ Critical \in 0..100 /\ LowLevel \in 0..100 /\ FullLevel \in 0..100
  /\ DestinationTheta \in Nat /\ TargetTheta \in Nat
<1>1. /\ Critical \in 0..100 /\ LowLevel \in 0..100 /\ FullLevel \in 0..100
      /\ DestinationTheta \in Nat /\ TargetTheta \in Nat
  BY MonitorsAssumption
<1>2. Charges \subseteq 0..100 /\ 100 \in Charges
  BY MonitoredNavigationAssumption
<1>3. \A level \in 0..100 : level \in Int /\ level <= 100
  OBVIOUS
<1> QED BY <1>1, <1>2, <1>3

LEMMA BatteryStep ==
  ASSUME Typed, BatteryFollows, Shown
  PROVE  BatteryFollows'
<1>1. /\ lowest \in Int /\ reader.batteryLevel \in Int /\ Critical \in Int
      /\ battery \in {"idle", "failure"}
  <2>1. lowest \in Charges /\ reader.batteryLevel \in Charges /\ battery \in {"idle", "failure"}
    BY DEF Typed
  <2>2. Critical \in Int
    BY Numbers
  <2> QED BY <2>1, <2>2, Numbers
<1>2. CASE UNCHANGED <<reader, battery, lowest>>
  BY <1>2 DEF BatteryFollows
<1>3. CASE UNCHANGED <<reader, battery>> /\ History(FALSE)
  BY <1>1, <1>3 DEF History, BatteryFollows
<1>4. CASE ShownTick /\ History(TRUE)
  BY <1>1, <1>4 DEF ShownTick, History, BatteryFollows
<1>5. ASSUME NEW level \in Charges, ShownLevel(level), History(FALSE) PROVE BatteryFollows'
  <2>1. reader'.batteryLevel = level /\ level \in Int
    BY <1>5, Numbers DEF ShownLevel, Typed
  <2>2. battery' = IF battery = "idle" THEN (IF level >= Critical THEN "idle" ELSE "failure") ELSE battery
    BY <1>5 DEF ShownLevel, BatteryLevelMonitor
  <2> QED BY <1>1, <1>5, <2>1, <2>2 DEF History, BatteryFollows
<1>6. ASSUME NEW d, ShownChange(d), History(FALSE) PROVE BatteryFollows'
  <2>1. reader'.batteryLevel = reader.batteryLevel
    BY <1>6 DEF ShownChange, Typed
  <2> QED BY <1>1, <1>6, <2>1 DEF ShownChange, History, BatteryFollows
<1> QED BY <1>2, <1>3, <1>4, <1>5, <1>6 DEF Shown, ShownNothing

\* What the charts of the journeys make of each event.
LEMMA DestinationTakes ==
  ASSUME NEW c \in [at : DestinationStates, batteryLevel : Charges,
                    destination : Destinations \cup {NO_LOCATION, ""}, tickCounter : 0..DestinationTheta]
  PROVE  /\ DestinationMonitor(c, <<"tick", 0>>) =
              IF c.at = "waitForTickState"
              THEN IF c.tickCounter > 0 THEN CheckDestination([c EXCEPT !.tickCounter = @ - 1])
                                        ELSE [c EXCEPT !.at = "failure"]
              ELSE c
         /\ \A level : LET u == [c EXCEPT !.batteryLevel = level]
                       IN  DestinationMonitor(c, <<"batteryLevelChanged", level>>) =
                             IF c.at = "waitForBatteryLevelState" /\ level < LowLevel
                             THEN CheckDestination([u EXCEPT !.tickCounter = DestinationTheta]) ELSE u
         /\ \A d : LET u == [c EXCEPT !.destination = d]
                   IN  DestinationMonitor(DestinationMonitor(c, <<"destinationChanged", d>>), <<"destinationReached", d>>) =
                         IF c.at = "idleState-a" THEN [u EXCEPT !.at = "waitForBatteryLevelState"] ELSE u
<1>1. DestinationMonitor(c, <<"tick", 0>>) =
        IF c.at = "waitForTickState"
        THEN IF c.tickCounter > 0 THEN CheckDestination([c EXCEPT !.tickCounter = @ - 1])
                                  ELSE [c EXCEPT !.at = "failure"]
        ELSE c
  BY DEF DestinationMonitor, Update
<1>2. ASSUME NEW level
      PROVE  LET u == [c EXCEPT !.batteryLevel = level]
             IN  DestinationMonitor(c, <<"batteryLevelChanged", level>>) =
                   IF c.at = "waitForBatteryLevelState" /\ level < LowLevel
                   THEN CheckDestination([u EXCEPT !.tickCounter = DestinationTheta]) ELSE u
  <2> DEFINE u == [c EXCEPT !.batteryLevel = level]
             e == <<"batteryLevelChanged", level>>
  <2>1. Update(c, e) = u /\ u.batteryLevel = level
    BY DEF Update
  <2>2. e[1] = "batteryLevelChanged"
    OBVIOUS
  <2> HIDE DEF u, e
  <2>3. DestinationMonitor(c, e) =
          IF c.at = "waitForBatteryLevelState" /\ level < LowLevel
          THEN CheckDestination([u EXCEPT !.tickCounter = DestinationTheta]) ELSE u
    BY <2>1, <2>2 DEF DestinationMonitor
  <2> QED BY <2>3 DEF u, e
<1>3. ASSUME NEW d
      PROVE  LET u == [c EXCEPT !.destination = d]
             IN  DestinationMonitor(DestinationMonitor(c, <<"destinationChanged", d>>), <<"destinationReached", d>>) =
                   IF c.at = "idleState-a" THEN [u EXCEPT !.at = "waitForBatteryLevelState"] ELSE u
  <2> DEFINE u == [c EXCEPT !.destination = d]
             e == <<"destinationChanged", d>>
             f == <<"destinationReached", d>>
             v == IF c.at = "idleState-a" THEN [u EXCEPT !.at = "waitForBatteryLevelState"] ELSE u
  <2>1. Update(c, e) = u
    BY DEF Update
  <2>2. e[1] = "destinationChanged" /\ f[1] = "destinationReached"
    OBVIOUS
  <2> HIDE DEF u, e, f
  <2>3. DestinationMonitor(c, e) = v
    BY <2>1, <2>2 DEF DestinationMonitor
  <2>4. DestinationMonitor(v, f) = v
    BY <2>2 DEF DestinationMonitor, Update
  <2> QED BY <2>3, <2>4 DEF u, e, f
<1> QED BY <1>1, <1>2, <1>3

LEMMA TargetTakes ==
  ASSUME NEW c \in [at : TargetStates, tickCounter : 0..TargetTheta]
  PROVE  /\ TargetMonitor(c, <<"tick", 0>>) =
              IF c.at = "waitForTickState"
              THEN IF c.tickCounter > 0 THEN [c EXCEPT !.tickCounter = @ - 1] ELSE [c EXCEPT !.at = "failure"]
              ELSE c
         /\ \A level : TargetMonitor(c, <<"batteryLevelChanged", level>>) =
              IF c.at = "waitForBatteryLevelState"
              THEN IF level < FullLevel THEN [c EXCEPT !.at = "idle"]
                                        ELSE [at |-> "waitForTickState", tickCounter |-> TargetTheta]
              ELSE c
         /\ \A d : TargetMonitor(TargetMonitor(c, <<"destinationChanged", d>>), <<"destinationReached", d>>) =
              IF c.at = "idle" /\ d = navigationTarget THEN [c EXCEPT !.at = "waitForBatteryLevelState"]
              ELSE IF c.at = "waitForTickState" /\ d # navigationTarget THEN [c EXCEPT !.at = "idle"]
              ELSE c
<1>1. TargetMonitor(c, <<"tick", 0>>) =
        IF c.at = "waitForTickState"
        THEN IF c.tickCounter > 0 THEN [c EXCEPT !.tickCounter = @ - 1] ELSE [c EXCEPT !.at = "failure"]
        ELSE c
  BY DEF TargetMonitor
<1>2. ASSUME NEW level
      PROVE  TargetMonitor(c, <<"batteryLevelChanged", level>>) =
               IF c.at = "waitForBatteryLevelState"
               THEN IF level < FullLevel THEN [c EXCEPT !.at = "idle"]
                                         ELSE [at |-> "waitForTickState", tickCounter |-> TargetTheta]
               ELSE c
  BY DEF TargetMonitor
<1>3. ASSUME NEW d
      PROVE  TargetMonitor(TargetMonitor(c, <<"destinationChanged", d>>), <<"destinationReached", d>>) =
               IF c.at = "idle" /\ d = navigationTarget THEN [c EXCEPT !.at = "waitForBatteryLevelState"]
               ELSE IF c.at = "waitForTickState" /\ d # navigationTarget THEN [c EXCEPT !.at = "idle"]
               ELSE c
  <2> DEFINE u == IF c.at = "idle" /\ d = navigationTarget THEN [c EXCEPT !.at = "waitForBatteryLevelState"] ELSE c
  <2>1. TargetMonitor(c, <<"destinationChanged", d>>) = u
    BY DEF TargetMonitor
  <2>2. TargetMonitor(u, <<"destinationReached", d>>) =
          IF c.at = "waitForTickState" /\ d # navigationTarget THEN [u EXCEPT !.at = "idle"] ELSE u
    BY DEF TargetMonitor
  <2> QED BY <2>1, <2>2
<1> QED BY <1>1, <1>2, <1>3

LEMMA DestinationStep ==
  ASSUME Typed, DestinationFollows, BatteryFollows, Shown
  PROVE  DestinationFollows'
<1>1. /\ destination \in [at : DestinationStates, batteryLevel : Charges,
                          destination : Destinations \cup {NO_LOCATION, ""}, tickCounter : 0..DestinationTheta]
      /\ late \in -1..DestinationTheta + 1 /\ DestinationTheta \in Nat
      /\ lowest \in Int /\ reader.batteryLevel \in Int /\ LowLevel \in Int
      /\ destination.tickCounter \in 0..DestinationTheta
  <2>1. lowest \in Int /\ reader.batteryLevel \in Int
    <3>1. lowest \in Charges /\ reader.batteryLevel \in Charges
      BY DEF Typed
    <3> QED BY <3>1, Numbers
  <2>2. LowLevel \in Int /\ DestinationTheta \in Nat
    BY Numbers
  <2> QED BY <2>1, <2>2 DEF Typed
<1>8. /\ late \in Int /\ -1 <= late /\ DestinationTheta \in Int /\ 0 <= DestinationTheta
      /\ lowest \in Int /\ reader.batteryLevel \in Int /\ LowLevel \in Int
      /\ destination.tickCounter \in Int
      /\ 0 <= destination.tickCounter /\ destination.tickCounter <= DestinationTheta
  <2> DEFINE t == destination.tickCounter
  <2>1. late \in -1..DestinationTheta + 1 /\ DestinationTheta \in Nat /\ t \in 0..DestinationTheta
    BY <1>1
  <2> HIDE DEF t
  <2>2. /\ late \in Int /\ -1 <= late /\ DestinationTheta \in Int /\ 0 <= DestinationTheta
        /\ t \in Int /\ 0 <= t /\ t <= DestinationTheta
    BY <2>1
  <2> QED BY <1>1, <2>2 DEF t
\* While it counts.
<1> DEFINE Counts(t) == lowest' < LowLevel /\ late' >= DestinationTheta - t
<1>2. CASE UNCHANGED <<reader, destination, lowest, late>>
  BY <1>2 DEF DestinationFollows
<1>3. ASSUME History(FALSE), NEW t \in 0..DestinationTheta, lowest < LowLevel, late >= DestinationTheta - t
      PROVE  Counts(t)
  <2>1. late # -1
    <3>1. t \in Int /\ t <= DestinationTheta
      BY <1>8
    <3> QED BY <1>3, <1>8, <3>1
  <2>2. lowest' < LowLevel
    <3>1. lowest' = lowest \/ (lowest' = reader'.batteryLevel /\ ~(lowest <= reader'.batteryLevel))
      BY <1>3 DEF History
    <3>2. reader'.batteryLevel \in Int
      <4>1. reader'.batteryLevel \in Charges
        BY DEF Shown, ShownNothing, ShownTick, ShownLevel, ShownChange, Typed
      <4> QED BY <4>1, Numbers
    <3> QED BY <1>3, <1>8, <3>1, <3>2
  <2>3. late' = late
    BY <1>3, <2>1 DEF History
  <2> QED BY <1>3, <2>2, <2>3
<1>4. CASE ShownNothing /\ History(FALSE)
  <2>1. UNCHANGED <<reader, destination>>
    BY <1>4 DEF ShownNothing
  <2>2. destination.at = "waitForTickState" => Counts(destination.tickCounter)
    BY <1>1, <1>3, <1>4 DEF DestinationFollows
  <2> QED BY <2>1, <2>2 DEF DestinationFollows
<1>5. CASE ShownTick /\ History(TRUE)
  <2>1. /\ destination' = IF destination.at = "waitForTickState"
                          THEN IF destination.tickCounter > 0
                               THEN CheckDestination([destination EXCEPT !.tickCounter = @ - 1])
                               ELSE [destination EXCEPT !.at = "failure"]
                          ELSE destination
        /\ reader' = reader
    BY <1>1, <1>5, DestinationTakes DEF ShownTick
  <2>2. /\ destination'.batteryLevel = destination.batteryLevel
        /\ destination'.destination = destination.destination
    BY <1>1, <2>1 DEF CheckDestination
  <2>3. ASSUME destination'.at = "waitForTickState"
        PROVE  Counts(destination'.tickCounter)
    <3>1. /\ destination.at = "waitForTickState" /\ destination.tickCounter > 0
          /\ destination.destination # lowBatteryTarget
          /\ destination'.tickCounter = destination.tickCounter - 1
      BY <1>1, <2>1, <2>3 DEF CheckDestination
    <3>2. reader'.destination # lowBatteryTarget
      BY <2>1, <3>1 DEF DestinationFollows, NO_LOCATION, lowBatteryTarget
    <3>3. lowest' = lowest
      BY <1>1, <1>5, <2>1 DEF History, BatteryFollows
    <3>4. late' = IF late + 1 <= DestinationTheta + 1 THEN late + 1 ELSE DestinationTheta + 1
      BY <1>5, <3>1, <3>2, <3>3 DEF History, LowShown, DestinationFollows
    <3>5. lowest < LowLevel /\ late >= DestinationTheta - destination.tickCounter
      BY <3>1 DEF DestinationFollows
    <3>6. late' >= DestinationTheta - (destination.tickCounter - 1)
      BY <1>8, <3>1, <3>4, <3>5
    <3> QED BY <3>1, <3>3, <3>5, <3>6
  <2> QED BY <2>1, <2>2, <2>3 DEF DestinationFollows
<1>6. ASSUME NEW level \in Charges, ShownLevel(level), History(FALSE) PROVE DestinationFollows'
  <2> DEFINE u == [destination EXCEPT !.batteryLevel = level]
  <2>1. /\ destination' = IF destination.at = "waitForBatteryLevelState" /\ level < LowLevel
                          THEN CheckDestination([u EXCEPT !.tickCounter = DestinationTheta]) ELSE u
        /\ reader'.batteryLevel = level /\ reader'.destination = reader.destination
        /\ level \in Int
    BY <1>1, <1>6, DestinationTakes, Numbers DEF ShownLevel, Typed
  <2>2. /\ destination'.batteryLevel = level
        /\ destination'.destination = destination.destination
    BY <1>1, <2>1 DEF CheckDestination
  <2>3. ASSUME destination'.at = "waitForTickState"
        PROVE  Counts(destination'.tickCounter)
    <3>1. CASE destination.at = "waitForBatteryLevelState" /\ level < LowLevel
      <4>1. destination.destination # lowBatteryTarget /\ destination'.tickCounter = DestinationTheta
        BY <1>1, <2>1, <2>3, <3>1 DEF CheckDestination
      <4>2. reader'.destination # lowBatteryTarget
        BY <2>1, <4>1 DEF DestinationFollows, NO_LOCATION, lowBatteryTarget
      <4>3. lowest' < LowLevel
        <5>1. lowest' = IF lowest <= level THEN lowest ELSE level
          BY <1>6, <2>1 DEF History
        <5> QED BY <1>8, <2>1, <3>1, <5>1
      <4>4. late' = IF late # -1 THEN late
                    ELSE IF late + 1 <= DestinationTheta + 1 THEN late + 1 ELSE DestinationTheta + 1
        BY <1>6, <4>2, <4>3 DEF History, LowShown
      <4>5. late' >= 0
        BY <1>8, <4>4
      <4>6. DestinationTheta - destination'.tickCounter = 0
        BY <1>8, <4>1
      <4> QED BY <4>3, <4>5, <4>6
    <3>2. CASE ~(destination.at = "waitForBatteryLevelState" /\ level < LowLevel)
      <4>1. destination.at = "waitForTickState" /\ destination'.tickCounter = destination.tickCounter
        BY <1>1, <2>1, <2>3, <3>2
      <4> QED BY <1>1, <1>3, <1>6, <4>1 DEF DestinationFollows
    <3> QED BY <3>1, <3>2
  <2> QED BY <2>1, <2>2, <2>3 DEF DestinationFollows
<1>7. ASSUME NEW d, ShownChange(d), History(FALSE) PROVE DestinationFollows'
  <2> DEFINE u == [destination EXCEPT !.destination = d]
  <2>1. /\ destination' = IF destination.at = "idleState-a" THEN [u EXCEPT !.at = "waitForBatteryLevelState"] ELSE u
        /\ reader'.batteryLevel = reader.batteryLevel /\ reader'.destination = d
    BY <1>1, <1>7, DestinationTakes DEF ShownChange, Typed
  <2>2. /\ destination'.batteryLevel = destination.batteryLevel
        /\ destination'.destination = d /\ destination'.tickCounter = destination.tickCounter
        /\ destination'.at = "waitForTickState" => destination.at = "waitForTickState"
    BY <1>1, <2>1
  <2>3. destination.at = "waitForTickState" => Counts(destination.tickCounter)
    BY <1>1, <1>3, <1>7 DEF DestinationFollows
  <2> QED BY <2>1, <2>2, <2>3 DEF DestinationFollows
<1> QED BY <1>2, <1>4, <1>5, <1>6, <1>7 DEF Shown

LEMMA TargetStep ==
  ASSUME Typed, TargetFollows, Shown
  PROVE  TargetFollows'
<1>1. /\ target \in [at : TargetStates, tickCounter : 0..TargetTheta]
      /\ kept \in 0..TargetTheta + 1 /\ TargetTheta \in Nat
      /\ target.tickCounter \in 0..TargetTheta
  <2>1. TargetTheta \in Nat
    BY Numbers
  <2> QED BY <2>1 DEF Typed
<1>2. CASE UNCHANGED <<target, kept>>
  BY <1>2 DEF TargetFollows
<1>3. CASE ShownNothing /\ History(FALSE)
  BY <1>2, <1>3 DEF ShownNothing, History
<1>4. CASE ShownTick /\ History(TRUE)
  <2>1. target' = IF target.at = "waitForTickState"
                  THEN IF target.tickCounter > 0 THEN [target EXCEPT !.tickCounter = @ - 1]
                                                 ELSE [target EXCEPT !.at = "failure"]
                  ELSE target
    BY <1>1, <1>4, TargetTakes DEF ShownTick
  <2>2. kept' = IF kept + 1 <= TargetTheta + 1 THEN kept + 1 ELSE TargetTheta + 1
    BY <1>4 DEF ShownTick, History
  <2>3. target'.at = "waitForTickState" =>
          target.at = "waitForTickState" /\ target'.tickCounter = target.tickCounter - 1
    BY <1>1, <2>1
  <2> QED BY <1>1, <2>2, <2>3 DEF TargetFollows
<1>5. ASSUME NEW level \in Charges, ShownLevel(level), History(FALSE) PROVE TargetFollows'
  <2>1. target' = IF target.at = "waitForBatteryLevelState"
                  THEN IF level < FullLevel THEN [target EXCEPT !.at = "idle"]
                                            ELSE [at |-> "waitForTickState", tickCounter |-> TargetTheta]
                  ELSE target
    BY <1>1, <1>5, TargetTakes DEF ShownLevel
  <2>2. kept' = kept
    BY <1>5 DEF ShownLevel, History, Typed
  <2>3. target'.at = "waitForTickState" => target' = target \/ target'.tickCounter = TargetTheta
    BY <1>1, <2>1
  <2> QED BY <1>1, <2>2, <2>3 DEF TargetFollows
<1>6. ASSUME NEW d, ShownChange(d), History(FALSE) PROVE TargetFollows'
  <2>1. target' = IF target.at = "idle" /\ d = navigationTarget THEN [target EXCEPT !.at = "waitForBatteryLevelState"]
                  ELSE IF target.at = "waitForTickState" /\ d # navigationTarget THEN [target EXCEPT !.at = "idle"]
                  ELSE target
    BY <1>1, <1>6, TargetTakes DEF ShownChange
  <2>2. target'.at = "waitForTickState" => target' = target /\ d = navigationTarget
    BY <1>1, <2>1
  <2>3. d = navigationTarget => kept' = kept
    BY <1>6 DEF ShownChange, History, Typed
  <2> QED BY <2>2, <2>3 DEF TargetFollows
<1> QED BY <1>2, <1>3, <1>4, <1>5, <1>6 DEF Shown

LEMMA JourneyStep ==
  ASSUME Typed, JourneyFollows, [Next]_vars
  PROVE  JourneyFollows'
<1>1. /\ journey \in Destinations \cup {Nowhere} /\ ended \in Destinations \cup {Nowhere}
      /\ Nowhere \notin Destinations /\ NO_LOCATION \notin Destinations
  BY MonitoredNavigationAssumption DEF Typed
<1>2. CASE UNCHANGED vars
  BY <1>2 DEF vars, monitorVars, envVars, JourneyFollows
<1>3. CASE TreeTick \/ ReadsLevel
  <2>1. reader'.destination = reader.destination
    BY <1>3, TickShown, LevelShown DEF ShownTick, ShownNothing, ShownLevel, Typed
  <2>2. UNCHANGED <<journey, ended>>
    BY <1>3 DEF TreeTick, ReadsLevel, envVars
  <2> QED BY <2>1, <2>2 DEF JourneyFollows
<1>4. CASE Drives \/ \E c \in Charges : SetsCharge(c)
  BY <1>4 DEF Drives, SetsCharge, ShowsNothing, monitorVars, JourneyFollows
<1>5. CASE Halts \/ \E d \in Destinations : AsksWhere(d)
  <2>1. PICK m : Shows(m) /\ m.type # "tick" /\ read(reader, m).reader = reader /\ read(reader, m).signals = <<>>
    <3>1. CASE Halts
      BY <3>1, ReadsHaltReply, TypeOfMessages DEF Halts
    <3>2. CASE \E d \in Destinations : AsksWhere(d)
      BY <3>2, ReadsIsAtReply, TypeOfMessages DEF AsksWhere
    <3> QED BY <1>5, <3>1, <3>2
  <2>2. reader' = reader
    BY <2>1, NothingShown DEF ShownNothing
  <2>3. ended' = ended /\ journey' \in {journey, Nowhere}
    BY <1>5 DEF Halts, AsksWhere, envVars
  <2> QED BY <1>1, <2>2, <2>3 DEF JourneyFollows
<1>6. ASSUME NEW d \in Destinations, Begins(d) PROVE JourneyFollows'
  <2>1. reader' = reader
    BY <1>6, StartShown DEF ShownNothing
  <2> QED BY <1>1, <1>6, <2>1 DEF Begins, JourneyFollows
<1>7. CASE Polls
  <2>1. journey \in Destinations
    BY <1>1, <1>7 DEF Polls
  <2>2. CASE progress = RUNNING
    <3>1. reader'.destination \in {reader.destination, journey}
      <4>1. ShownNothing \/ ShownChange(journey)
        BY <1>7, <2>2, PollShown DEF RUNNING, SUCCESS, ABORT
      <4> QED BY <4>1 DEF ShownNothing, ShownChange, Typed
    <3>2. UNCHANGED <<journey, ended>>
      BY <1>7, <2>2 DEF Polls
    <3> QED BY <3>1, <3>2 DEF JourneyFollows
  <2>3. CASE progress # RUNNING
    <3>1. reader'.destination # journey
      <4>1. \/ ShownChange(NO_LOCATION)
            \/ reader.destination # journey /\ ShownNothing
        BY <1>1, <1>7, <2>1, <2>3, PollShown
      <4> QED BY <1>1, <2>1, <4>1 DEF ShownNothing, ShownChange, Typed
    <3>2. journey' = Nowhere /\ ended' = journey
      BY <1>7, <2>3 DEF Polls
    <3> QED BY <3>1, <3>2 DEF JourneyFollows
  <2> QED BY <2>2, <2>3
<1> QED BY <1>2, <1>3, <1>4, <1>5, <1>6, <1>7 DEF Next

LEMMA HistoryTyped ==
  ASSUME Typed, NEW ticks \in BOOLEAN, History(ticks), reader'.batteryLevel \in Charges
  PROVE  /\ lowest' \in Charges
         /\ late' \in -1..DestinationTheta + 1 /\ kept' \in 0..TargetTheta + 1
<1>1. lowest' \in Charges
  BY DEF History, Typed
<1>2. late' \in -1..DestinationTheta + 1
  <2>1. DestinationTheta \in Nat /\ late \in -1..DestinationTheta + 1
    BY Numbers DEF Typed
  <2>2. late' \in {late, -1} \/ late' = IF late + 1 <= DestinationTheta + 1 THEN late + 1 ELSE DestinationTheta + 1
    BY DEF History
  <2> QED BY <2>1, <2>2
<1>3. kept' \in 0..TargetTheta + 1
  <2>1. TargetTheta \in Nat /\ kept \in 0..TargetTheta + 1
    BY Numbers DEF Typed
  <2>2. kept' \in {kept, 0} \/ kept' = IF kept + 1 <= TargetTheta + 1 THEN kept + 1 ELSE TargetTheta + 1
    BY DEF History
  <2> QED BY <2>1, <2>2
<1> QED BY <1>1, <1>2, <1>3

LEMMA TypedStep ==
  ASSUME Typed, [Next]_vars
  PROVE  Typed'
<1> DEFINE Readers == [batteryLevel : Charges, destination : Destinations \cup {NO_LOCATION},
                       isArmExtracted : BOOLEAN, isHandOpen : BOOLEAN, isGrasping : BOOLEAN]
           DestinationCharts == [at : DestinationStates, batteryLevel : Charges,
                                 destination : Destinations \cup {NO_LOCATION, ""}, tickCounter : 0..DestinationTheta]
           TargetCharts == [at : TargetStates, tickCounter : 0..TargetTheta]
<1>1. reader \in Readers /\ destination \in DestinationCharts /\ target \in TargetCharts
      /\ battery \in {"idle", "failure"}
  BY DEF Typed
<1>2. /\ charge' \in Charges
      /\ journey' \in Destinations \cup {Nowhere} /\ at' \in Destinations \cup {Nowhere}
      /\ progress' \in {RUNNING, SUCCESS, ABORT} /\ ended' \in Destinations \cup {Nowhere}
  BY DEF Typed, Next, vars, envVars, TreeTick, ReadsLevel, Drives, Polls, Halts, SetsCharge, Begins, AsksWhere
<1>3. /\ \A c \in DestinationCharts : [c EXCEPT !.at = "failure"] \in DestinationCharts
      /\ \A c \in DestinationCharts : CheckDestination(c) \in DestinationCharts
      /\ \A c \in DestinationCharts : [c EXCEPT !.at = "waitForBatteryLevelState"] \in DestinationCharts
      /\ \A c \in DestinationCharts, level \in Charges : [c EXCEPT !.batteryLevel = level] \in DestinationCharts
      /\ \A c \in DestinationCharts, d \in Destinations \cup {NO_LOCATION} :
           [c EXCEPT !.destination = d] \in DestinationCharts
      /\ \A c \in DestinationCharts : c.tickCounter > 0 => [c EXCEPT !.tickCounter = @ - 1] \in DestinationCharts
      /\ \A c \in DestinationCharts : [c EXCEPT !.tickCounter = DestinationTheta] \in DestinationCharts
  <2>1. \A t \in 0..DestinationTheta : t > 0 => t - 1 \in 0..DestinationTheta
    BY Numbers
  <2>2. DestinationTheta \in 0..DestinationTheta
    BY Numbers
  <2> QED BY <2>1, <2>2 DEF CheckDestination, DestinationStates
<1>4. /\ \A c \in TargetCharts : c.tickCounter > 0 => [c EXCEPT !.tickCounter = @ - 1] \in TargetCharts
      /\ \A c \in TargetCharts, s \in TargetStates : [c EXCEPT !.at = s] \in TargetCharts
      /\ [at |-> "waitForTickState", tickCounter |-> TargetTheta] \in TargetCharts
  <2>1. \A t \in 0..TargetTheta : t > 0 => t - 1 \in 0..TargetTheta
    BY Numbers
  <2>2. TargetTheta \in 0..TargetTheta
    BY Numbers
  <2> QED BY <2>1, <2>2 DEF TargetStates
<1>5. \A s \in {"idle", "waitForBatteryLevelState", "failure"} : s \in TargetStates
  BY DEF TargetStates
<1> HIDE DEF Readers, DestinationCharts, TargetCharts
<1>6. CASE UNCHANGED <<reader, battery, destination, target, lowest, late, kept>>
  BY <1>2, <1>6 DEF Typed
<1>7. ASSUME reader' \in Readers, battery' \in {"idle", "failure"}, destination' \in DestinationCharts,
             target' \in TargetCharts, NEW ticks \in BOOLEAN, History(ticks)
      PROVE  Typed'
  <2>1. reader'.batteryLevel \in Charges
    BY <1>7 DEF Readers
  <2> QED BY <1>2, <1>7, <2>1, HistoryTyped DEF Typed, Readers, DestinationCharts, TargetCharts
<1>8. CASE ShownNothing /\ History(FALSE)
  BY <1>1, <1>7, <1>8 DEF ShownNothing
<1>9. CASE ShownTick /\ History(TRUE)
  <2>1. destination' \in DestinationCharts
    <3>1. destination' = IF destination.at = "waitForTickState"
                         THEN IF destination.tickCounter > 0
                              THEN CheckDestination([destination EXCEPT !.tickCounter = @ - 1])
                              ELSE [destination EXCEPT !.at = "failure"]
                         ELSE destination
      BY <1>1, <1>9, DestinationTakes DEF ShownTick, DestinationCharts
    <3> QED BY <1>1, <1>3, <3>1
  <2>2. target' \in TargetCharts
    <3>1. target' = IF target.at = "waitForTickState"
                    THEN IF target.tickCounter > 0 THEN [target EXCEPT !.tickCounter = @ - 1]
                                                   ELSE [target EXCEPT !.at = "failure"]
                    ELSE target
      BY <1>1, <1>9, TargetTakes DEF ShownTick, TargetCharts
    <3> QED BY <1>1, <1>4, <1>5, <3>1
  <2> QED BY <1>1, <1>7, <1>9, <2>1, <2>2 DEF ShownTick
<1>10. ASSUME NEW level \in Charges, ShownLevel(level), History(FALSE) PROVE Typed'
  <2>1. destination' \in DestinationCharts
    <3> DEFINE u == [destination EXCEPT !.batteryLevel = level]
               v == [u EXCEPT !.tickCounter = DestinationTheta]
    <3>1. destination' = IF destination.at = "waitForBatteryLevelState" /\ level < LowLevel
                         THEN CheckDestination(v) ELSE u
      BY <1>1, <1>10, DestinationTakes DEF ShownLevel, DestinationCharts
    <3>2. u \in DestinationCharts
      BY <1>1, <1>3
    <3> HIDE DEF u
    <3>3. v \in DestinationCharts
      BY <1>3, <3>2
    <3> HIDE DEF v
    <3> QED BY <1>3, <3>1, <3>2, <3>3
  <2>2. target' \in TargetCharts
    <3>1. target' = IF target.at = "waitForBatteryLevelState"
                    THEN IF level < FullLevel THEN [target EXCEPT !.at = "idle"]
                                              ELSE [at |-> "waitForTickState", tickCounter |-> TargetTheta]
                    ELSE target
      BY <1>1, <1>10, TargetTakes DEF ShownLevel, TargetCharts
    <3> QED BY <1>1, <1>4, <1>5, <3>1
  <2>3. reader' \in Readers /\ battery' \in {"idle", "failure"}
    BY <1>1, <1>10 DEF ShownLevel, BatteryLevelMonitor, Readers
  <2> QED BY <1>7, <1>10, <2>1, <2>2, <2>3
<1>11. ASSUME NEW d \in Destinations \cup {NO_LOCATION}, ShownChange(d), History(FALSE) PROVE Typed'
  <2>1. destination' \in DestinationCharts
    <3> DEFINE u == [destination EXCEPT !.destination = d]
    <3>1. destination' = IF destination.at = "idleState-a" THEN [u EXCEPT !.at = "waitForBatteryLevelState"] ELSE u
      BY <1>1, <1>11, DestinationTakes DEF ShownChange, DestinationCharts
    <3>2. u \in DestinationCharts
      BY <1>1, <1>3
    <3> HIDE DEF u
    <3> QED BY <1>3, <3>1, <3>2
  <2>2. target' \in TargetCharts
    <3>1. target' = IF target.at = "idle" /\ d = navigationTarget THEN [target EXCEPT !.at = "waitForBatteryLevelState"]
                    ELSE IF target.at = "waitForTickState" /\ d # navigationTarget THEN [target EXCEPT !.at = "idle"]
                    ELSE target
      BY <1>1, <1>11, TargetTakes DEF ShownChange, TargetCharts
    <3> QED BY <1>1, <1>4, <1>5, <3>1
  <2>3. reader' \in Readers /\ battery' \in {"idle", "failure"}
    BY <1>1, <1>11 DEF ShownChange, Readers
  <2> QED BY <1>7, <1>11, <2>1, <2>2, <2>3
<1> QED BY <1>6, <1>8, <1>9, <1>10, <1>11, StepShown DEF Shown

LEMMA InitInv ==
  ASSUME Init
  PROVE  NInv
<1>1. /\ reader = [batteryLevel |-> 100, destination |-> NO_LOCATION,
                   isArmExtracted |-> FALSE, isHandOpen |-> FALSE, isGrasping |-> FALSE]
      /\ battery = "idle"
      /\ destination = [at |-> "idleState-a", batteryLevel |-> 100, destination |-> "", tickCounter |-> 0]
      /\ target = [at |-> "idle", tickCounter |-> 0]
      /\ charge \in Charges
      /\ journey = Nowhere /\ progress = RUNNING /\ at \in Destinations \cup {Nowhere}
      /\ ended = Nowhere /\ lowest = 100 /\ late = -1 /\ kept = 0
  BY DEF Init, MonitorsInit, InitialReader, InitialDestination, InitialTarget
<1>2. Typed
  <2>1. /\ 100 \in Charges /\ 0 \in 0..DestinationTheta /\ 0 \in 0..TargetTheta
        /\ -1 \in -1..DestinationTheta + 1 /\ 0 \in 0..TargetTheta + 1
    BY Numbers
  <2> QED BY <1>1, <2>1 DEF Typed, DestinationStates, TargetStates
<1>3. BatteryFollows
  <2>1. Critical \in Int /\ Critical <= 100
    BY MonitorsAssumption
  <2>2. reader.batteryLevel = 100 /\ lowest = 100 /\ battery # "failure"
    BY <1>1
  <2> QED BY <2>1, <2>2 DEF BatteryFollows
<1>4. JourneyFollows /\ DestinationFollows /\ TargetFollows
  BY <1>1 DEF JourneyFollows, DestinationFollows, TargetFollows
<1> QED BY <1>2, <1>3, <1>4 DEF NInv

LEMMA NextInv ==
  ASSUME NInv, [Next]_vars
  PROVE  NInv'
BY StepShown, TypedStep, BatteryStep, JourneyStep, DestinationStep, TargetStep DEF NInv

LEMMA Invariance == Spec => []NInv
BY InitInv, NextInv, PTL DEF Spec

-----------------------------------------------------------------------------
(* The theorems.                                                           *)

\* Every variable has its type: the counters of the charts do not run below
\* zero, and the reader knows nothing but charges and destinations.
THEOREM TypeCorrect == Spec => []TypeOK
<1>1. NInv => TypeOK
  BY DEF NInv, Typed, DestinationStates, TargetStates, TypeOK
<1> QED BY <1>1, Invariance, PTL

\* The battery alarm is raised exactly when a critical level has been read, and
\* never taken back (MonitorReader::read and BatteryLevelMonitor).
THEOREM BatteryAlarmIffHolds == Spec => []BatteryAlarmIff
<1>1. NInv => BatteryAlarmIff
  BY DEF NInv, BatteryFollows, BatteryAlarmIff
<1> QED BY <1>1, Invariance, PTL

\* A journey that has ended is not shown until it begins again (the reply to
\* getStatus).
THEOREM EndedIsNotShownHolds == Spec => []EndedIsNotShown
<1>1. NInv => EndedIsNotShown
  BY DEF NInv, JourneyFollows, EndedIsNotShown
<1> QED BY <1>1, Invariance, PTL

\* An alarm of the DestinationMonitor follows a low level and as many ticks as
\* it tolerates without the station as destination.
THEOREM DestinationAlarmJustifiedHolds == Spec => DestinationAlarmJustified
<1>1. ASSUME NInv, [Next]_vars, destination.at # "failure", destination'.at = "failure"
      PROVE  late >= DestinationTheta
  <2>1. destination \in [at : DestinationStates, batteryLevel : Charges,
                         destination : Destinations \cup {NO_LOCATION, ""}, tickCounter : 0..DestinationTheta]
    BY <1>1 DEF NInv, Typed
  <2>2. destination.at = "waitForTickState" /\ ~(destination.tickCounter > 0)
    <3>1. CASE destination' = destination
      BY <1>1, <3>1
    <3>2. CASE ShownTick
      <4>1. destination' = IF destination.at = "waitForTickState"
                           THEN IF destination.tickCounter > 0
                                THEN CheckDestination([destination EXCEPT !.tickCounter = @ - 1])
                                ELSE [destination EXCEPT !.at = "failure"]
                           ELSE destination
        BY <2>1, <3>2, DestinationTakes DEF ShownTick
      <4> QED BY <1>1, <2>1, <4>1 DEF CheckDestination
    <3>3. ASSUME NEW level \in Charges, ShownLevel(level) PROVE FALSE
      <4> DEFINE u == [destination EXCEPT !.batteryLevel = level]
      <4>1. destination' = IF destination.at = "waitForBatteryLevelState" /\ level < LowLevel
                           THEN CheckDestination([u EXCEPT !.tickCounter = DestinationTheta]) ELSE u
        BY <2>1, <3>3, DestinationTakes DEF ShownLevel
      <4> QED BY <1>1, <2>1, <4>1 DEF CheckDestination
    <3>4. ASSUME NEW d, ShownChange(d) PROVE FALSE
      <4> DEFINE u == [destination EXCEPT !.destination = d]
      <4>1. destination' = IF destination.at = "idleState-a" THEN [u EXCEPT !.at = "waitForBatteryLevelState"] ELSE u
        BY <2>1, <3>4, DestinationTakes DEF ShownChange
      <4> QED BY <1>1, <2>1, <4>1
    <3> QED BY <1>1, <3>1, <3>2, <3>3, <3>4, StepShown DEF NInv, Shown, ShownNothing
  <2>3. late >= DestinationTheta - destination.tickCounter
    BY <1>1, <2>2 DEF NInv, DestinationFollows
  <2>4. destination.tickCounter = 0
    <3>1. destination.tickCounter \in 0..DestinationTheta
      BY <2>1
    <3>2. \A t \in 0..DestinationTheta : t > 0 \/ t = 0
      BY Numbers
    <3> QED BY <2>2, <3>1, <3>2
  <2>5. late \in Int /\ DestinationTheta \in Int
    <3>1. late \in -1..DestinationTheta + 1
      BY <1>1 DEF NInv, Typed
    <3> QED BY <3>1, Numbers
  <2> QED BY <2>3, <2>4, <2>5
<1>2. NInv /\ [Next]_vars =>
        [destination.at # "failure" /\ destination'.at = "failure" => late >= DestinationTheta]_vars
  BY <1>1
<1> QED BY <1>2, Invariance, PTL DEF Spec, DestinationAlarmJustified

\* An alarm of the TargetMonitor follows as many ticks as it tolerates without a
\* turn to another destination.
THEOREM TargetAlarmJustifiedHolds == Spec => TargetAlarmJustified
<1>1. ASSUME NInv, [Next]_vars, target.at # "failure", target'.at = "failure"
      PROVE  kept >= TargetTheta
  <2>1. target \in [at : TargetStates, tickCounter : 0..TargetTheta]
    BY <1>1 DEF NInv, Typed
  <2>2. target.at = "waitForTickState" /\ ~(target.tickCounter > 0)
    <3>1. CASE target' = target
      BY <1>1, <3>1
    <3>2. CASE ShownTick
      <4>1. target' = IF target.at = "waitForTickState"
                      THEN IF target.tickCounter > 0 THEN [target EXCEPT !.tickCounter = @ - 1]
                                                     ELSE [target EXCEPT !.at = "failure"]
                      ELSE target
        BY <2>1, <3>2, TargetTakes DEF ShownTick
      <4> QED BY <1>1, <2>1, <4>1
    <3>3. ASSUME NEW level \in Charges, ShownLevel(level) PROVE FALSE
      <4>1. target' = IF target.at = "waitForBatteryLevelState"
                      THEN IF level < FullLevel THEN [target EXCEPT !.at = "idle"]
                                                ELSE [at |-> "waitForTickState", tickCounter |-> TargetTheta]
                      ELSE target
        BY <2>1, <3>3, TargetTakes DEF ShownLevel
      <4> QED BY <1>1, <2>1, <4>1
    <3>4. ASSUME NEW d, ShownChange(d) PROVE FALSE
      <4>1. target' = IF target.at = "idle" /\ d = navigationTarget
                      THEN [target EXCEPT !.at = "waitForBatteryLevelState"]
                      ELSE IF target.at = "waitForTickState" /\ d # navigationTarget THEN [target EXCEPT !.at = "idle"]
                      ELSE target
        BY <2>1, <3>4, TargetTakes DEF ShownChange
      <4> QED BY <1>1, <2>1, <4>1
    <3> QED BY <1>1, <3>1, <3>2, <3>3, <3>4, StepShown DEF NInv, Shown, ShownNothing
  <2>3. kept >= TargetTheta - target.tickCounter
    BY <1>1, <2>2 DEF NInv, TargetFollows
  <2>4. target.tickCounter = 0
    <3>1. target.tickCounter \in 0..TargetTheta
      BY <2>1
    <3>2. \A t \in 0..TargetTheta : t > 0 \/ t = 0
      BY Numbers
    <3> QED BY <2>2, <3>1, <3>2
  <2>5. kept \in Int /\ TargetTheta \in Int
    <3>1. kept \in 0..TargetTheta + 1
      BY <1>1 DEF NInv, Typed
    <3> QED BY <3>1, Numbers
  <2> QED BY <2>3, <2>4, <2>5
<1>2. NInv /\ [Next]_vars =>
        [target.at # "failure" /\ target'.at = "failure" => kept >= TargetTheta]_vars
  BY <1>1
<1> QED BY <1>2, Invariance, PTL DEF Spec, TargetAlarmJustified
=============================================================================
