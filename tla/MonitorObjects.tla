--------------------------- MODULE MonitorObjects ---------------------------
(***************************************************************************)
(* The monitor objects of the protocols ArmService, BatteryReader, GoTo    *)
(* and Skill_request.  The port monitor of a client's connection shows     *)
(* every call to the object of its protocol before it is sent (update) and *)
(* every reply before the caller gets it (updateReply); the object         *)
(* recognises the call and writes a message to the port /monitor.          *)
(* A message is written by reference to the helper of the call: [method,   *)
(* dest, ret] with what the caller passed and what came back.              *)
(***************************************************************************)
EXTENDS Integers, Sequences

VOCAB_OK   == 111 + 256 * 107                                  \* 'o' 'k'
VOCAB_FAIL == 102 + 256 * (97 + 256 * (105 + 256 * 108))       \* 'f' 'a' 'i' 'l'

Number(b) == IF b THEN 1 ELSE 0
Vocab(b)  == IF b THEN VOCAB_OK ELSE VOCAB_FAIL

SendersSide == "sender"
ReceiversSide == "receiver"

\* create: an object refuses the receiver's side; otherwise it writes through a
\* port named after the source of the connection.
Create(side, source, destination) ==
  IF side = SendersSide THEN {[source |-> source, destination |-> destination]} ELSE {}

\* The fields of a message; the time stamp and the name of the protocol are
\* printed and not used.
Message(object, type, command, args, reply) ==
  [source |-> object.source, destination |-> object.destination, type |-> type,
   command |-> command, args |-> args, reply |-> reply]

Unknown(object, type) == Message(object, type, "[unknown]", <<>>, <<>>)

-----------------------------------------------------------------------------
ArmMethods == {"preGrasp", "extractHand", "retractHand", "closeHand", "openHand",
               "hasGrasped", "home"}

ArmUpdate(object, call) ==
  IF call.method \in ArmMethods THEN Message(object, "command", call.method, <<>>, <<>>)
                                ELSE Unknown(object, "command")

\* Mutant: a truth value is written as a number, as GoToMonitorObject does.
ArmUpdateReplyNumber(object, call) ==
  Message(object, "reply", call.method, <<>>, <<Number(call.ret)>>)

ArmUpdateReply(object, call) ==
  IF call.method \in ArmMethods
  THEN Message(object, "reply", call.method, <<>>, <<Vocab(call.ret)>>)
  ELSE Unknown(object, "reply")

BatteryMethods == {"level", "charging_status"}

BatteryUpdate(object, call) ==
  IF call.method \in BatteryMethods THEN Message(object, "command", call.method, <<>>, <<>>)
                                    ELSE Unknown(object, "command")

BatteryUpdateReply(object, call) ==
  IF call.method \in BatteryMethods
  THEN Message(object, "reply", call.method, <<>>, <<call.ret>>)
  ELSE Unknown(object, "reply")

GoToMethods == {"goTo", "getStatus", "halt", "isAtLocation"}

GoToUpdate(object, call) ==
  IF call.method \in GoToMethods THEN Message(object, "command", call.method, <<call.dest>>, <<>>)
                                 ELSE Unknown(object, "command")

\* The destination of goTo is written where the reply belongs, and the reply to
\* isAtLocation is 1 or 0 where the arm writes a vocab.
GoToUpdateReply(object, call) ==
  CASE call.method = "goTo"         -> Message(object, "reply", "goTo", <<>>, <<call.dest>>)
    [] call.method = "getStatus"    -> Message(object, "reply", "getStatus", <<call.dest>>, <<call.ret>>)
    [] call.method = "halt"         -> Message(object, "reply", "halt", <<call.dest>>, <<>>)
    [] call.method = "isAtLocation" -> Message(object, "reply", "isAtLocation", <<call.dest>>, <<Number(call.ret)>>)
    [] OTHER                        -> Unknown(object, "reply")

SkillMethods == {"request_ack", "send_start", "send_stop"}

SkillUpdate(object, call) ==
  IF call.method \in SkillMethods THEN Message(object, "command", call.method, <<>>, <<>>)
                                  ELSE Unknown(object, "command")

SkillUpdateReply(object, call) ==
  CASE call.method = "request_ack"               -> Message(object, "reply", "request_ack", <<>>, <<call.ret>>)
    [] call.method \in SkillMethods \ {"request_ack"} -> Message(object, "reply", call.method, <<>>, <<>>)
    [] OTHER                                     -> Unknown(object, "reply")

\* The message that the loop of the behaviour tree writes before each tick; it
\* carries the number of the tick, which the monitors only display.
TickMessage ==
  [source |-> "/tick/monitor", destination |-> "/monitor", type |-> "tick",
   command |-> "", args |-> <<>>, reply |-> <<>>]
=============================================================================
