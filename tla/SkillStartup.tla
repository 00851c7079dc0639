---------------------------- MODULE SkillStartup ----------------------------
(***************************************************************************)
(* The processes of generated skills: start() opens the port the tree asks *)
(* on before the statechart starts, setup() of the data model then opens,  *)
(* attaches and connects the clients of the services and gives up at the   *)
(* first call that fails; the statechart starts all the same.  Components  *)
(* come up at any time.  Requests of the tree are served by another thread *)
(* from the moment the port is open.                                       *)
(***************************************************************************)
EXTENDS SkillBuild

CONSTANTS
  Skills,    \* the processes
  Developed, \* those whose program is what the generator leaves
  ChartOf,   \* the statechart that the others were generated from
  Option,    \* the options each is given: Option[i][attribute]
  Servers    \* the ports of the components

ASSUME ChartOfAssumption == ChartOf \in [Skills \ Developed -> Documents]

(* The statecharts a process may be made from: each has a state to be in.  *)
Sources(i) == IF i \in Developed THEN {c \in Charts : Compiles(c)} ELSE {ChartOf[i]}

ASSUME StatesAssumption ==
  \A i \in Skills : \A c \in Sources(i) :
    /\ \E s \in DOMAIN c.states : c.states[s].id # "wrapper"
    /\ \A s \in DOMAIN c.states : c.states[s].id # NoValue

VARIABLES
  program,   \* what the generated files of each make of it
  up,        \* the ports of the components that are open
  phase,     \* of each process: down, setup, ended (setup returned) or running
  next,      \* the number of the next call of setup
  opened,    \* the names of the client ports each has opened
  attached,  \* the services whose client is attached
  connected, \* pairs of a service and the port it is connected to
  ok,        \* what setup returned
  state,     \* the active state of the statechart
  asked      \* the tree waits for request_ack

vars == <<buildVars, program, up, phase, next, opened, attached, connected, ok, state, asked>>
setupVars == <<phase, next, opened, attached, connected, ok>>

(* The services and the states of the statechart, the calls of setup and    *)
(* the answers of request_ack.  A state wraps the others or is active.     *)
States(doc) == Among(NameInstances(doc.states), {doc.states[s].id : s \in DOMAIN doc.states} \ {"wrapper"})

Program(doc, cpp, dataModel) ==
  [services |-> describe(doc).UsedServices, states |-> States(doc),
   setup |-> dataModel.setup, answers |-> cpp.answers]

Written(doc) ==
  Program(doc, generate_Skill_cpp(describe(doc), <<>>), generate_Skill_DataModel_cpp(describe(doc)))

(* A port name when the program runs: the attribute has its value. *)
Resolved(i, name) == [n \in DOMAIN name |-> IF n = 3 THEN Option[i][name[n]] ELSE name[n]]

Init ==
  /\ BuildInit
  /\ program = [i \in Skills |-> Written(IF i \in Developed THEN chart ELSE ChartOf[i])]
  /\ up = {}
  /\ phase = [i \in Skills |-> "down"] /\ next = [i \in Skills |-> 1]
  /\ opened = [i \in Skills |-> {}] /\ attached = [i \in Skills |-> {}] /\ connected = [i \in Skills |-> {}]
  /\ ok = [i \in Skills |-> FALSE]
  /\ state = [i \in Skills |-> NoValue]
  /\ asked = [i \in Skills |-> FALSE]

(* Bound: a skill is developed before the first component or process is    *)
(* started, and none is until its program is built: from the statechart on *)
(* disk and the files that the generator wrote for it.                     *)
Develop ==
  /\ up = {} /\ \A i \in Skills : phase[i] = "down"
  /\ Edit \/ Start \/ Generate
  /\ UNCHANGED <<program, up, setupVars, state, asked>>

Built == pc = 0 /\ unwritten = {} /\ Compiles(chart) /\ skill = describe(chart) /\ Builds(files)

ServerUp(s) ==
  /\ s \notin up /\ Built
  /\ up' = up \cup {s}
  /\ UNCHANGED <<buildVars, program, setupVars, state, asked>>

(* The developed skill is the program that its files make. *)
Launched(i) ==
  IF i \in Developed
  THEN [program EXCEPT ![i] = Program(chart, files["Skill_cpp"], files["DataModel_cpp"])]
  ELSE program

(* start(): the port of the tree is open and attached. *)
Launch(i) ==
  /\ phase[i] = "down" /\ Built
  /\ program' = Launched(i)
  /\ phase' = [phase EXCEPT ![i] = "setup"]
  /\ UNCHANGED <<buildVars, up, next, opened, attached, connected, ok, state, asked>>

(* A port cannot be opened under a name another process has, a client be   *)
(* attached to a port that is not open, or a port be connected to one that *)
(* is not there.                                                           *)
Succeeds(i, call) ==
  LET name == Resolved(i, call.name)
  IN  CASE call.op = "open"    -> \A j \in Skills : name \notin opened[j]
        [] call.op = "attach"  -> name \in opened[i]
        [] call.op = "connect" -> name \in opened[i] /\ call.server \in up

Add(known, i, what) == [known EXCEPT ![i] = @ \cup {what}]

Step(i) ==
  /\ phase[i] = "setup" /\ next[i] \in DOMAIN program[i].setup
  /\ LET call == program[i].setup[next[i]] IN
     \/ /\ Succeeds(i, call)
        /\ opened' = IF call.op = "open" THEN Add(opened, i, Resolved(i, call.name)) ELSE opened
        /\ attached' = IF call.op = "attach" THEN Add(attached, i, call.service) ELSE attached
        /\ connected' = IF call.op = "connect" THEN Add(connected, i, <<call.service, call.server>>) ELSE connected
        /\ next' = [next EXCEPT ![i] = @ + 1]
        /\ UNCHANGED phase
     \/ /\ ~Succeeds(i, call)
        /\ phase' = [phase EXCEPT ![i] = "ended"]
        /\ UNCHANGED <<next, opened, attached, connected>>
  /\ UNCHANGED <<buildVars, program, up, ok, state, asked>>

(* All calls have succeeded. *)
Return(i) ==
  /\ phase[i] = "setup" /\ next[i] > Len(program[i].setup)
  /\ phase' = [phase EXCEPT ![i] = "ended"]
  /\ ok' = [ok EXCEPT ![i] = TRUE]
  /\ UNCHANGED <<buildVars, program, up, next, opened, attached, connected, state, asked>>

(* QScxmlStateMachine::start() starts whatever setup has returned. *)
Begin(i) ==
  /\ phase[i] = "ended"
  /\ phase' = [phase EXCEPT ![i] = "running"]
  /\ state' = [state EXCEPT ![i] = program[i].states[1]]
  /\ UNCHANGED <<buildVars, program, up, next, opened, attached, connected, ok, asked>>

Move(i) ==
  /\ phase[i] = "running"
  /\ \E s \in Range(program[i].states) : state' = [state EXCEPT ![i] = s]
  /\ UNCHANGED <<buildVars, program, up, setupVars, asked>>

(* A request on the port of the tree: request_ack looks at the active      *)
(* states again and again, without a pause, until one is in the list.      *)
Ask(i) ==
  /\ phase[i] # "down" /\ ~asked[i]
  /\ asked' = [asked EXCEPT ![i] = TRUE]
  /\ UNCHANGED <<buildVars, program, up, setupVars, state>>

Answer(i) ==
  /\ asked[i]
  /\ \E a \in DOMAIN program[i].answers : program[i].answers[a].id = state[i]
  /\ asked' = [asked EXCEPT ![i] = FALSE]
  /\ UNCHANGED <<buildVars, program, up, setupVars, state>>

Next ==
  \/ Develop
  \/ \E s \in Servers : ServerUp(s)
  \/ \E i \in Skills : Launch(i) \/ Step(i) \/ Return(i) \/ Begin(i) \/ Move(i) \/ Ask(i) \/ Answer(i)

Spec == Init /\ [][Next]_vars

(* The main thread of a process and the thread of its port go on; nothing  *)
(* says that a component comes up, that the tree asks or that the          *)
(* statechart moves.                                                       *)
FairSpec == Spec /\ \A i \in Skills : WF_vars(Step(i) \/ Return(i) \/ Begin(i)) /\ WF_vars(Answer(i))

-----------------------------------------------------------------------------
TypeOK ==
  /\ up \subseteq Servers
  /\ \A i \in Skills :
       /\ phase[i] \in {"down", "setup", "ended", "running"}
       /\ next[i] \in 1 .. Len(program[i].setup) + 1
       /\ state[i] \in Range(program[i].states) \cup {NoValue} /\ (state[i] # NoValue) = (phase[i] = "running")
       /\ asked[i] \in BOOLEAN /\ (asked[i] => phase[i] # "down")

(* A setup that returns true has attached every service of the statechart  *)
(* and connected it to the port its element names.                         *)
SetupConnects ==
  \A i \in Skills : ok[i] => \A s \in DOMAIN program[i].services :
    LET service == program[i].services[s]
    IN  service.id \in attached[i] /\ <<service.id, service.port_name_server>> \in connected[i]

(* Clients whose ports start alike, those of one skill and one type of     *)
(* service and any others of which these two make the same word, are told  *)
(* apart by the options they are given: at most one of them is named after *)
(* none, the others after values that differ.                              *)
Distinct(i, client, j, other) ==
  IF client = "default" \/ other = "default" THEN client # other ELSE Option[i][client] # Option[j][other]

OptionsTellApart ==
  \A i, j \in Skills : \A c \in Sources(i), d \in Sources(j) :
    LET clients == describe(c).UsedServices
        others == describe(d).UsedServices
    IN  \A s \in DOMAIN clients, t \in DOMAIN others :
          /\ PortPrefix(describe(c), clients[s]) = PortPrefix(describe(d), others[t])
          /\ i # j \/ (c = d /\ s # t)
          => Distinct(i, clients[s].port_name_client_attribute, j, others[t].port_name_client_attribute)

(* Instances of one skill, and skills of one service, that are given       *)
(* different options never refuse each other a port: a setup fails only at *)
(* the connection to a component that was not there.                       *)
InstancesDoNotClash ==
  \A i \in Skills : phase[i] \in {"ended", "running"} /\ ~ok[i] => program[i].setup[next[i]].op = "connect"

(* A request the open port accepts is answered, also one that comes before *)
(* the statechart runs, and also when setup has failed.                    *)
RequestsAnswered == \A i \in Skills : asked[i] ~> ~asked[i]
=============================================================================
