----------------------------- MODULE SkillBuild -----------------------------
(***************************************************************************)
(* A skill under development: its statechart is edited, the generator runs *)
(* over it again and again and writes the five files of the program one    *)
(* after the other.  A file that cannot be opened is skipped: the run goes *)
(* on, answers NoError, and what an earlier run wrote there stays.         *)
(***************************************************************************)
EXTENDS SkillGenerator, TLC

CONSTANT Charts   \* the statecharts the skill may be given

ASSUME ChartsAssumption == Charts \subseteq Documents

VARIABLES
  chart,     \* the statechart on disk
  skill,     \* m_skillDescription of the run
  values,    \* m_values of the run
  pc,        \* the number of the file to write next; 0: no run
  files,     \* the files on disk
  unwritten  \* the files the run could not open

buildVars == <<chart, skill, values, pc, files, unwritten>>

(* Mutant: Skill_cpp before Skill_h, which leaves it the parameters. *)
OrderCppFirst == <<"main", "Skill_cpp", "Skill_h", "DataModel_h", "DataModel_cpp">>

(* The order of the calls at the end of write(). *)
Order == <<"main", "Skill_h", "Skill_cpp", "DataModel_h", "DataModel_cpp">>

Content(file) ==
  CASE file = "main"          -> generate_Main(skill)
    [] file = "Skill_h"       -> generate_Skill_h(skill)
    [] file = "Skill_cpp"     -> generate_Skill_cpp(skill, values)
    [] file = "DataModel_h"   -> generate_Skill_DataModel_h(skill)
    [] file = "DataModel_cpp" -> generate_Skill_DataModel_cpp(skill)

BuildInit ==
  /\ chart \in {c \in Charts : Compiles(c)}
  /\ skill = describe(chart)
  /\ values = <<>> /\ pc = 0
  /\ files = [f \in Files |-> [Skill |-> NoValue]]
  /\ unwritten = Files

Edit ==
  /\ pc = 0
  /\ \E c \in Charts : chart' = c
  /\ UNCHANGED <<skill, values, pc, files, unwritten>>

(* A statechart with errors ends the run before a file is touched. *)
Start ==
  /\ pc = 0 /\ Compiles(chart)
  /\ skill' = describe(chart)
  /\ values' = <<>> /\ pc' = 1 /\ unwritten' = {}
  /\ UNCHANGED <<chart, files>>

Generate ==
  /\ pc # 0
  /\ LET file == Order[pc] IN
     /\ \E opened \in BOOLEAN :
          /\ files' = IF opened THEN [files EXCEPT ![file] = Content(file)] ELSE files
          /\ unwritten' = IF opened THEN unwritten ELSE unwritten \cup {file}
     /\ values' = IF file = "Skill_h" THEN ConstructorParameters(skill) ELSE values
     /\ pc' = IF pc = Len(Order) THEN 0 ELSE pc + 1
  /\ UNCHANGED <<chart, skill>>

-----------------------------------------------------------------------------
(* Every state of the statechart has a status, but the one that wraps the  *)
(* others and is never answered.                                           *)
Declared ==
  \A s \in DOMAIN skill.ListStates :
    skill.ListStates[s].id = "wrapper" \/ skill.ListStates[s].SkillAck # "SKILL_UNDEFINED"

(* No two of the documents declare data of the same name. *)
Unambiguous ==
  IsInjective(NameInstances(skill.UsedServices \o skill.UsedAttributes))

(* The attribute that the port of a service is named after is a member,    *)
(* and a string.                                                           *)
Referenced ==
  \A s \in DOMAIN skill.UsedServices :
    LET attribute == skill.UsedServices[s].port_name_client_attribute
    IN  attribute = "default" \/ [type |-> "std::string", id |-> attribute] \in Range(Members(skill))

(* An option has the type that main() gives it, and no element has a name  *)
(* that the template of a file with its declaration uses.                  *)
OptionsAreStrings ==
  LET options == skill.ListAttributesParsedAsOption
  IN  \A o \in DOMAIN options : options[o].cpp_type = "std::string"

Unreserved ==
  /\ Range(NameInstances(skill.ListAttributesParsedAsOption)) \cap (MainNames \cup SkillNames) = {}
  /\ Range(NameInstances(skill.UsedServices \o skill.UsedAttributes)) \cap DataModelNames = {}

WellFormed == Declared /\ Unambiguous /\ Referenced /\ OptionsAreStrings /\ Unreserved

(* For a statechart whose elements are well formed, the files of a run     *)
(* that could write them all fit together, whatever earlier runs, of other *)
(* statecharts and cut short anywhere, had left: the constructors have the *)
(* same parameters and are given arguments of their types in all five,     *)
(* although Skill.cpp takes its parameters from what the generation of     *)
(* Skill.h left behind.                                                    *)
GeneratedBuilds == pc = 0 /\ unwritten = {} /\ WellFormed => Builds(files)
=============================================================================
