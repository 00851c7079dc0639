--------------------------- MODULE SkillGenerator ---------------------------
(***************************************************************************)
(* skill-code-gen, the tool that writes the C++ program of a skill from    *)
(* its statechart.  A statechart is a record: its file, its states with    *)
(* the bt_status each declares, its <data> elements and the statecharts it *)
(* invokes.  A generated file is what the other files, or the program when *)
(* it runs, depend on: declarations with their types, arguments, answers,  *)
(* calls.  Wording and layout are left out.                                *)
(***************************************************************************)
EXTENDS Naturals, SequencesExt

CONSTANTS
  Documents,  \* the statecharts, with those they invoke
  Depth,      \* how deep each invokes others
  Spelled(_)  \* the letters of a name

NoValue == "none"

StateElement == [id : STRING, bt_status : STRING]
DataElement ==
  [id : STRING, thrift_protocol : STRING, service_type : STRING, cpp_type : STRING, init_source : STRING,
   port_name_client_attribute : STRING, port_name_server : STRING]

ASSUME DocumentsAssumption ==
  \A doc \in Documents :
    /\ doc.file \in STRING
    /\ doc.states \in Seq(StateElement) /\ doc.data \in Seq(DataElement)
    /\ doc.subs \in Seq(Documents)
    /\ Depth[doc] \in Nat /\ \A d \in DOMAIN doc.subs : Depth[doc.subs[d]] < Depth[doc]

(* A skill and those it invokes, outermost first. *)
collectAllDocuments[doc \in Documents] ==
  <<doc>> \o FlattenSeq([d \in DOMAIN doc.subs |-> collectAllDocuments[doc.subs[d]]])

(* The elements of a list that are in a set, in their order: a loop that   *)
(* passes over the others.                                                 *)
Among(list, set) ==
  LET kept[n \in 0 .. Len(list)] ==
        IF n = 0 THEN <<>>
        ELSE IF list[n] \in set THEN Append(kept[n - 1], list[n]) ELSE kept[n - 1]
  IN  kept[Len(list)]

(* bt_status: what a state element says, and its number. *)
BtStatus == [Undefined |-> 0, SKILL_IDLE |-> 1, SKILL_SUCCESS |-> 2, SKILL_FAILURE |-> 3, SKILL_RUNNING |-> 4]

preReadElementState(state) ==
  IF state.bt_status = NoValue THEN BtStatus.Undefined ELSE BtStatus[state.bt_status]

(* A statechart with another bt_status, Undefined included, is an error    *)
(* and nothing is generated.                                               *)
Compiles(doc) ==
  \A chart \in Range(collectAllDocuments[doc]) : \A s \in DOMAIN chart.states :
    chart.states[s].bt_status \in (DOMAIN BtStatus \ {"Undefined"}) \cup {NoValue}

decoderEnum(id) ==
  CASE id = 0 -> "SKILL_UNDEFINED"
    [] id = 1 -> "SKILL_IDLE"
    [] id = 2 -> "SKILL_SUCCESS"
    [] id = 3 -> "SKILL_FAILURE"
    [] id = 4 -> "SKILL_RUNNING"
    [] OTHER  -> "SKILL_ERROR_IN_SCXML"

(* The enumerators the generated code can name. *)
SkillAck == {"SKILL_IDLE", "SKILL_RUNNING", "SKILL_SUCCESS", "SKILL_FAILURE", "SKILL_STARTED", "SKILL_STOPPED"}

ListState(state) == [id |-> state.id, SkillAck |-> decoderEnum(preReadElementState(state))]

(* Mutant: the last state is forgotten. *)
ListStatesShort(states) == [s \in 1 .. Len(states) - 1 |-> ListState(states[s])]

ListStates(states) == [s \in DOMAIN states |-> ListState(states[s])]

(* What the generator keeps of the documents: an element with a protocol   *)
(* is a service, another one with a type an attribute.                     *)
describe(doc) ==
  LET docs == collectAllDocuments[doc]
      states == FlattenSeq([d \in DOMAIN docs |-> docs[d].states])
      data == FlattenSeq([d \in DOMAIN docs |-> docs[d].data])
      services == {e \in Range(data) : e.thrift_protocol # NoValue}
      attributes == {e \in Range(data) : e.thrift_protocol = NoValue /\ e.cpp_type # NoValue}
      options == Among(data, {e \in attributes : e.init_source = "parse_as_option"})
  IN  [skill_name |-> doc.file,
       ListStates |-> ListStates(states),
       UsedServices |-> Among(data, services),
       UsedAttributes |-> Among(data, attributes),
       ListAttributesParsedAsOption |-> options,
       add_default_constructor |-> options # <<>>]

NameInstances(elements) == [e \in DOMAIN elements |-> elements[e].id]

Declarations(elements) == [e \in DOMAIN elements |-> [type |-> elements[e].cpp_type, id |-> elements[e].id]]

ConstructorParameters(skill) ==
  IF skill.add_default_constructor THEN Declarations(skill.ListAttributesParsedAsOption) ELSE <<>>

ConstructorArguments(skill) == NameInstances(ConstructorParameters(skill))

-----------------------------------------------------------------------------
(* The five files, and m_values: generate_Skill_h leaves there the         *)
(* parameters that generate_Skill_cpp writes.                              *)
Files == {"main", "Skill_h", "Skill_cpp", "DataModel_h", "DataModel_cpp"}

(* main() takes every option as a string, whatever type its element says.  *)
Parsed(options) == [o \in DOMAIN options |-> [type |-> "std::string", id |-> options[o].id]]

generate_Main(skill) ==
  [Skill |-> skill.skill_name,
   parsed |-> Parsed(skill.ListAttributesParsedAsOption),
   passed |-> ConstructorArguments(skill)]

generate_Skill_h(skill) ==
  [Skill |-> skill.skill_name, parameters |-> ConstructorParameters(skill)]

generate_Skill_cpp(skill, values) ==
  [Skill |-> skill.skill_name,
   answers |-> Among(skill.ListStates, {s \in Range(skill.ListStates) : s.id # "wrapper"}),
   parameters |-> IF skill.ListAttributesParsedAsOption # <<>> THEN values ELSE <<>>,
   dataModel |-> ConstructorArguments(skill)]

(* An attribute is a member unless it says not_initialize. *)
Members(skill) ==
  Declarations(Among(skill.UsedAttributes,
                     {e \in Range(skill.UsedAttributes) : e.init_source # "not_initialize"}))

Clients(services) == [s \in DOMAIN services |-> [type |-> services[s].service_type, id |-> services[s].id]]

generate_Skill_DataModel_h(skill) ==
  [Skill |-> skill.skill_name,
   ports |-> NameInstances(skill.UsedServices),
   members |-> Clients(skill.UsedServices) \o Members(skill),
   parameters |-> ConstructorParameters(skill)]

(* The calls of setup(): all ports are opened, then all clients attached,  *)
(* then all connections made.  A port is named after the service and the   *)
(* skill, in one word, and, unless the element says "default", the value   *)
(* of an attribute.                                                        *)
PortPrefix(skill, service) == <<Spelled(service.service_type) \o Spelled(skill.skill_name), "Client">>

(* Mutant: the attribute is left out of the name. *)
PortNameAlone(skill, service) == PortPrefix(skill, service)

PortName(skill, service) ==
  IF service.port_name_client_attribute = "default" THEN PortPrefix(skill, service)
  ELSE Append(PortPrefix(skill, service), service.port_name_client_attribute)

Call(skill, service, op) ==
  [op |-> op, service |-> service.id, name |-> PortName(skill, service), server |-> service.port_name_server]

PerService(skill, op) ==
  [s \in DOMAIN skill.UsedServices |-> Call(skill, skill.UsedServices[s], op)]

(* Mutant: only the first service is connected. *)
CallsConnectFirst(skill) ==
  PerService(skill, "open") \o PerService(skill, "attach") \o SubSeq(PerService(skill, "connect"), 1, 1)

Calls(skill) == PerService(skill, "open") \o PerService(skill, "attach") \o PerService(skill, "connect")

generate_Skill_DataModel_cpp(skill) ==
  [Skill |-> skill.skill_name,
   setup |-> Calls(skill),
   parameters |-> ConstructorParameters(skill),
   assigned |-> ConstructorArguments(skill)]

-----------------------------------------------------------------------------
(* What the C++ compiler accepts of the five files together: every call of *)
(* a constructor has arguments of the types of its parameters, every name  *)
(* used is declared, no name is declared twice, nor a second time by the   *)
(* template that the file is made from.                                    *)
MainNames ==
  {"argc", "argv", "rf", "config", "yargc", "yargv", "app", "parser", "args", "skillName", "bt", "ret"}
SkillNames == {"name", "dataModel", "stateMachine"}
DataModelNames == {"yarp", "setup"}

Declares(declared, fixed) ==
  IsInjective(NameInstances(declared)) /\ Range(NameInstances(declared)) \cap fixed = {}

Passes(arguments, declared, parameters) ==
  /\ Len(arguments) = Len(parameters)
  /\ \A p \in DOMAIN parameters : [type |-> parameters[p].type, id |-> arguments[p]] \in Range(declared)

Builds(files) ==
  LET main == files["main"]
      h == files["Skill_h"]
      cpp == files["Skill_cpp"]
      dh == files["DataModel_h"]
      dcpp == files["DataModel_cpp"]
  IN  /\ \A f \in Files : files[f].Skill = main.Skill
      /\ Declares(main.parsed, MainNames) /\ Passes(main.passed, main.parsed, h.parameters)
      /\ Declares(h.parameters, SkillNames) /\ cpp.parameters = h.parameters
      /\ Passes(cpp.dataModel, cpp.parameters, dh.parameters)
      /\ Declares(dh.members, DataModelNames) /\ dcpp.parameters = dh.parameters
      /\ Passes(dcpp.assigned, dh.members, dcpp.parameters)
      /\ \A c \in DOMAIN dcpp.setup :
           /\ dcpp.setup[c].service \in Range(dh.ports)
           /\ Len(dcpp.setup[c].name) = 3 =>
                [type |-> "std::string", id |-> dcpp.setup[c].name[3]] \in Range(dh.members)
      /\ \A a \in DOMAIN cpp.answers : cpp.answers[a].SkillAck \in SkillAck
=============================================================================
