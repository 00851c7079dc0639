----------------------------- MODULE Protocols -----------------------------
(***************************************************************************)
(* The code generated for the protocols ArmService, BatteryReader, GoTo    *)
(* and Skill_request: how a stub writes a call and reads its reply, and    *)
(* how the reader of a server finds the method, calls it and replies.      *)
(*                                                                         *)
(* A word of a request is the sequence of its parts between underscores;   *)
(* a number is read as the empty word.  Values are numbers, FALSE and TRUE *)
(* being 0 and 1; void returns 0.                                          *)
(***************************************************************************)
EXTENDS MonitorObjects, FiniteSetsExt, SequencesExt

EmptyWord == <<"">>
DIRECT    == <<"__direct__">>

\* A method: its name, whether it takes a destination, and what it returns.
Method(name, takes, returns) == [name |-> name, takes |-> takes, returns |-> returns]

\* The name is written a word for each part, then the destination.
Write(helper, dest) ==
  [i \in DOMAIN helper.name |-> <<helper.name[i]>>] \o (IF helper.takes THEN <<dest>> ELSE <<>>)

\* The reply is a list of one element, or of none; a bool is a vocab in it.
Reply(returns, value) ==
  CASE returns = "void" -> <<>>
    [] returns = "bool" -> <<Vocab(value = 1)>>
    [] OTHER            -> <<value>>

\* Mutant: the vocab of a bool is taken for its value.
ReadVocab(returns, reply) ==
  IF returns = "void" THEN 0 ELSE reply[1]

\* What the stub returns, if a reply has been read.
Read(returns, reply) ==
  CASE returns = "void" -> 0
    [] returns = "bool" -> Number(reply[1] = VOCAB_OK)
    [] OTHER            -> reply[1]

\* What the stub returns otherwise: bool{}, double{}, GoToStatus{} ...
Default == 0

-----------------------------------------------------------------------------
(* The reader of a server.  It joins the words until they name a method,   *)
(* or until there are no more or one is empty; a destination that is not   *)
(* there, or is a number, fails.  What follows is not looked at.           *)

\* Mutant: a word alone names the method.
readWord(methods, words) ==
  {[method |-> m, dest |-> EmptyWord] : m \in {n \in methods : words # <<>> /\ n.name = words[1]}}

read(methods, words) ==
  LET first == IF words # <<>> /\ words[1] = DIRECT THEN 2 ELSE 1
      named(n) == {m \in methods : m.name = FlattenSeq(SubSeq(words, first, n))}
      ends == {n \in first..Len(words) :
                 named(n) # {} /\ \A k \in (first + 1)..n : words[k] # EmptyWord}
      n == Min(ends)
      dest == IF n < Len(words) THEN words[n + 1] ELSE EmptyWord
  IN  IF ends = {} THEN {}
      ELSE {[method |-> m, dest |-> IF m.takes THEN dest ELSE EmptyWord] :
              m \in {k \in named(n) : k.takes => dest # EmptyWord}}

help == Method(<<"help">>, FALSE, "many")

-----------------------------------------------------------------------------
(* The helpers that the stubs write, and what the server's side serves.    *)

ArmService_preGrasp_helper    == Method(<<"preGrasp">>, FALSE, "bool")
ArmService_extractHand_helper == Method(<<"extractHand">>, FALSE, "bool")
ArmService_retractHand_helper == Method(<<"retractHand">>, FALSE, "bool")
ArmService_closeHand_helper   == Method(<<"closeHand">>, FALSE, "bool")
ArmService_openHand_helper    == Method(<<"openHand">>, FALSE, "bool")
ArmService_hasGrasped_helper  == Method(<<"hasGrasped">>, FALSE, "bool")
ArmService_home_helper        == Method(<<"home">>, FALSE, "bool")

ArmServiceCalls ==
  {ArmService_preGrasp_helper, ArmService_extractHand_helper, ArmService_retractHand_helper,
   ArmService_closeHand_helper, ArmService_openHand_helper, ArmService_hasGrasped_helper,
   ArmService_home_helper}

ArmServiceNames == {"preGrasp", "extractHand", "retractHand", "closeHand", "openHand",
                    "hasGrasped", "home"}
ArmServiceReads == {Method(<<n>>, FALSE, "bool") : n \in ArmServiceNames} \cup {help}
ArmServiceHelp  == {<<n>> : n \in ArmServiceNames} \cup {<<"help">>}

BatteryReader_level_helper           == Method(<<"level">>, FALSE, "double")
BatteryReader_charging_status_helper == Method(<<"charging", "status">>, FALSE, "ChargingStatus")

BatteryReaderCalls == {BatteryReader_level_helper, BatteryReader_charging_status_helper}
BatteryReaderReads ==
  {Method(<<"level">>, FALSE, "double"), Method(<<"charging", "status">>, FALSE, "ChargingStatus"), help}
BatteryReaderHelp  == {<<"level">>, <<"charging", "status">>, <<"help">>}

GoTo_goTo_helper         == Method(<<"goTo">>, TRUE, "void")
GoTo_getStatus_helper    == Method(<<"getStatus">>, TRUE, "GoToStatus")
GoTo_halt_helper         == Method(<<"halt">>, TRUE, "void")
GoTo_isAtLocation_helper == Method(<<"isAtLocation">>, TRUE, "bool")

GoToCalls == {GoTo_goTo_helper, GoTo_getStatus_helper, GoTo_halt_helper, GoTo_isAtLocation_helper}
GoToReads ==
  {Method(<<"goTo">>, TRUE, "void"), Method(<<"getStatus">>, TRUE, "GoToStatus"),
   Method(<<"halt">>, TRUE, "void"), Method(<<"isAtLocation">>, TRUE, "bool"), help}
GoToHelp  == {<<"goTo">>, <<"getStatus">>, <<"halt">>, <<"isAtLocation">>, <<"help">>}

Skill_request_request_ack_helper == Method(<<"request", "ack">>, FALSE, "SkillAck")
Skill_request_send_start_helper  == Method(<<"send", "start">>, FALSE, "void")
Skill_request_send_stop_helper   == Method(<<"send", "stop">>, FALSE, "void")

Skill_requestCalls ==
  {Skill_request_request_ack_helper, Skill_request_send_start_helper, Skill_request_send_stop_helper}
Skill_requestReads ==
  {Method(<<"request", "ack">>, FALSE, "SkillAck"), Method(<<"send", "start">>, FALSE, "void"),
   Method(<<"send", "stop">>, FALSE, "void"), help}
Skill_requestHelp  == {<<"request", "ack">>, <<"send", "start">>, <<"send", "stop">>, <<"help">>}

Protocol == {"ArmService", "BatteryReader", "GoTo", "Skill_request"}

Stubs == [ArmService |-> ArmServiceCalls, BatteryReader |-> BatteryReaderCalls,
          GoTo |-> GoToCalls, Skill_request |-> Skill_requestCalls]
Readers == [ArmService |-> ArmServiceReads, BatteryReader |-> BatteryReaderReads,
            GoTo |-> GoToReads, Skill_request |-> Skill_requestReads]
Listed == [ArmService |-> ArmServiceHelp, BatteryReader |-> BatteryReaderHelp,
           GoTo |-> GoToHelp, Skill_request |-> Skill_requestHelp]

-----------------------------------------------------------------------------
(* The enumerations, in the order of their values from 0.                  *)
SkillAck == <<"SKILL_IDLE", "SKILL_RUNNING", "SKILL_SUCCESS", "SKILL_FAILURE",
              "SKILL_STARTED", "SKILL_STOPPED">>
GoToStatus == <<"NOT_STARTED", "RUNNING", "SUCCESS", "ABORT">>
ChargingStatus == <<"BATTERY_NOT_CHARGING", "BATTERY_CHARGING">>

\* What a method may return.
Values(returns) ==
  CASE returns \in {"void", "many"}   -> {0}
    [] returns = "bool"             -> {0, 1}
    [] returns = "double"           -> {0, 100}
    [] returns = "SkillAck"         -> 0..Len(SkillAck) - 1
    [] returns = "GoToStatus"       -> 0..Len(GoToStatus) - 1
    [] returns = "ChargingStatus"   -> 0..Len(ChargingStatus) - 1
=============================================================================
