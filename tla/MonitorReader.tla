--------------------------- MODULE MonitorReader ---------------------------
(***************************************************************************)
(* MonitorReader of the Monitor process: the reader of the port /monitor.  *)
(* It keeps the state that the messages tell of, and turns a message into  *)
(* signals.  Its read runs under the callback lock of the port, so the     *)
(* messages are read one at a time; the signals go through the event queue *)
(* of the GUI thread, which keeps their order.                             *)
(***************************************************************************)
EXTENDS MonitorObjects

NO_LOCATION == "N/A"

\* The number of ticks, which is only displayed, is left out.
InitialReader ==
  [batteryLevel |-> 100, destination |-> NO_LOCATION,
   isArmExtracted |-> FALSE, isHandOpen |-> FALSE, isGrasping |-> FALSE]

\* GoToStatus, by number.
RUNNING == 1
SUCCESS == 2

Signal(name, data) == <<name, data>>

\* What read leaves behind: the reader and the signals that it has emitted.
Emits(reader, signals) == [reader |-> reader, signals |-> signals]
Ignores(r) == Emits(r, <<>>)

\* The first element of a list; the list of a message without any is empty.
First(list) == IF list = <<>> THEN 0 ELSE list[1]

-----------------------------------------------------------------------------
ReadTick(r, m) == Emits(r, <<Signal("tick", 0)>>)

ReadLevel(r, m) ==
  LET level == First(m.reply)
  IN  IF r.batteryLevel = level THEN Ignores(r)
      ELSE Emits([r EXCEPT !.batteryLevel = level], <<Signal("batteryLevelChanged", level)>>)

ReadStart(r, m) == Emits(r, <<Signal("send_startCommandSent", First(m.args))>>)

\* The robot has a new destination, or none.
ChangeDestination(r, d) ==
  Emits([r EXCEPT !.destination = d], <<Signal("destinationChanged", d)>>)

Arrives(r) ==
  Emits([r EXCEPT !.destination = NO_LOCATION],
        <<Signal("destinationReached", r.destination), Signal("destinationChanged", NO_LOCATION)>>)

\* Mutant: a failed journey keeps its destination.
ReadStatusKeeps(r, m) ==
  LET d == First(m.args)  status == First(m.reply)
  IN  CASE status = RUNNING /\ r.destination # d -> ChangeDestination(r, d)
        [] status = SUCCESS /\ r.destination = d -> Arrives(r)
        [] OTHER -> Ignores(r)

ReadStatus(r, m) ==
  LET d == First(m.args)  status == First(m.reply)
  IN  CASE status = RUNNING /\ r.destination # d -> ChangeDestination(r, d)
        [] status = SUCCESS /\ r.destination = d -> Arrives(r)
        [] status \notin {RUNNING, SUCCESS} /\ r.destination # NO_LOCATION ->
             ChangeDestination(r, NO_LOCATION)
        [] OTHER -> Ignores(r)

\* The reply is taken for a vocab, which the 1 of GoToMonitorObject is not.
ReadIsAt(r, m) ==
  IF First(m.reply) = VOCAB_OK /\ r.destination = First(m.args) THEN Arrives(r) ELSE Ignores(r)

\* The signals that tell of a call and of its reply, by method.
CommandSent ==
  [preGrasp |-> "preGraspCommandSent", extractHand |-> "extractHandCommandSent",
   retractHand |-> "retractHandCommandSent", closeHand |-> "closeHandCommandSent",
   openHand |-> "openHandCommandSent", hasGrasped |-> "hasGraspedCommandSent",
   home |-> "homeCommandSent"]
ReplyReceived ==
  [preGrasp |-> "preGraspReplyReceived", extractHand |-> "extractHandReplyReceived",
   retractHand |-> "retractHandReplyReceived", closeHand |-> "closeHandReplyReceived",
   openHand |-> "openHandReplyReceived", hasGrasped |-> "hasGraspedReplyReceived",
   home |-> "homeReplyReceived"]

ReadArmCommand(r, m) ==
  IF m.command \in ArmMethods THEN Emits(r, <<Signal(CommandSent[m.command], 0)>>) ELSE Ignores(r)

-----------------------------------------------------------------------------
(* The replies of the arm.  Changed gives the signal of a property that    *)
(* gets a new value.                                                       *)
Changed(old, new, name) == IF old = new THEN <<>> ELSE <<Signal(name, new)>>

ReadArmReply(r, m) ==
  LET ret == First(m.reply) = VOCAB_OK
      told == <<Signal(ReplyReceived[m.command], ret)>>
      extract(to) == IF ~ret THEN Emits(r, told) ELSE
        Emits([r EXCEPT !.isArmExtracted = to],
              told \o Changed(r.isArmExtracted, to, "isArmExtractedChanged"))
      open(to) == IF ~ret THEN Emits(r, told) ELSE
        Emits([r EXCEPT !.isHandOpen = to],
              told \o Changed(r.isHandOpen, to, "isHandOpenChanged"))
  IN  CASE m.command = "preGrasp"    -> Emits(r, told)
        [] m.command = "extractHand" -> extract(TRUE)
        [] m.command = "retractHand" -> extract(FALSE)
        [] m.command = "closeHand"   -> open(FALSE)
        [] m.command = "openHand"    -> open(TRUE)
        [] m.command = "hasGrasped"  ->
             Emits([r EXCEPT !.isGrasping = ret], told \o Changed(r.isGrasping, ret, "isGraspingChanged"))
        [] m.command = "home"        ->
             \* the first signal is the one of the hand, although it is the arm that has moved
             IF ~ret THEN Emits(r, told) ELSE
               Emits([r EXCEPT !.isArmExtracted = FALSE, !.isHandOpen = FALSE],
                     told \o Changed(r.isArmExtracted, FALSE, "isHandOpenChanged")
                          \o Changed(r.isHandOpen, FALSE, "isHandOpenChanged"))
        [] OTHER -> Ignores(r)

\* Only these clients of the skills are listened to for their starts.
StartedSkills ==
  {<<"/GoToDestination/BT_rpc/client", "/GoToDestination/BT_rpc/server">>,
   <<"/GoToUser/BT_rpc/client", "/GoToUser/BT_rpc/server">>,
   <<"/GoToChargingStation/BT_rpc/client", "/GoToChargingStation/BT_rpc/server">>}

read(r, m) ==
  CASE m.type = "tick" -> ReadTick(r, m)
    [] m.type = "reply" /\ m.source = "/BatteryReaderBatteryLevelClient"
         /\ m.destination = "/BatteryComponent" /\ m.command = "level" -> ReadLevel(r, m)
    [] m.type = "command" /\ <<m.source, m.destination>> \in StartedSkills
         /\ m.command = "send_start" -> ReadStart(r, m)
    [] m.type = "reply" /\ m.destination = "/GoToComponent" /\ m.command = "getStatus" ->
         ReadStatus(r, m)
    [] m.type = "reply" /\ m.destination = "/GoToComponent" /\ m.command = "isAtLocation" ->
         ReadIsAt(r, m)
    [] m.type = "command" /\ m.destination = "/ArmComponent" -> ReadArmCommand(r, m)
    [] m.type = "reply" /\ m.destination = "/ArmComponent" -> ReadArmReply(r, m)
    [] OTHER -> Ignores(r)
=============================================================================
