--------------------------- MODULE MCSkillStartup ---------------------------
(***************************************************************************)
(* Two GoTo skills and an IsAt skill of the mission: the three use the     *)
(* service GoTo, the first and the last for the same location.  The first  *)
(* is developed; its statechart is without options, or has two options,    *)
(* one of them of an invoked chart, and two services, or a bt_status that  *)
(* is misspelt.                                                            *)
(***************************************************************************)
EXTENDS SkillStartup

RECURSIVE Within(_), Levels(_)

State(id, status) == [id |-> id, bt_status |-> status]

Service(id, type, attribute, server) ==
  [id |-> id, thrift_protocol |-> type, service_type |-> type, cpp_type |-> NoValue, init_source |-> NoValue,
   port_name_client_attribute |-> attribute, port_name_server |-> server]

Attribute(id, source) ==
  [id |-> id, thrift_protocol |-> NoValue, service_type |-> NoValue, cpp_type |-> "std::string",
   init_source |-> source, port_name_client_attribute |-> NoValue, port_name_server |-> NoValue]

Chart(file, states, data, subs) == [file |-> file, states |-> states, data |-> data, subs |-> subs]

Plain ==
  Chart("GoTo",
        <<State("wrapper", NoValue), State("idle", "SKILL_IDLE"), State("success", "SKILL_SUCCESS")>>,
        <<Service("goTo", "GoTo", "default", "/GoToComponent"), Attribute("retGoToStatus", "initialize_inside_header")>>,
        <<>>)

Helper(data) == Chart("Helper", <<State("unlockKey", "SKILL_RUNNING")>>, data, <<>>)

Services ==
  <<Service("goTo", "GoTo", "location", "/GoToComponent"),
    Service("blackboard", "Blackboard", "location", "/BlackboardComponent")>>

TwoOptions ==
  Chart("GoTo", <<State("idle", "SKILL_IDLE"), State("sendrequest", "SKILL_RUNNING")>>,
        Services \o <<Attribute("location", "parse_as_option"), Attribute("currVal", "not_initialize")>>,
        <<Helper(<<Attribute("skillID", "parse_as_option")>>), [Helper(<<>>) EXCEPT !.subs = <<Helper(<<>>)>>]>>)

Misspelt == Chart("GoTo", <<State("idle", "IDLE")>>, <<>>, <<>>)

GoTo ==
  Chart("GoTo", <<State("idle", "SKILL_IDLE"), State("success", "SKILL_SUCCESS")>>,
        Services \o <<Attribute("location", "parse_as_option")>>, <<>>)

IsAt ==
  Chart("IsAt", <<State("idle", "SKILL_IDLE"), State("failure", "SKILL_FAILURE")>>,
        <<Service("IsAt_service", "GoTo", "location", "/GoToComponent"), Attribute("location", "parse_as_option")>>, <<>>)

Within(doc) == {doc} \cup UNION {Within(doc.subs[d]) : d \in DOMAIN doc.subs}
Levels(doc) == Max({0} \cup {Levels(doc.subs[d]) + 1 : d \in DOMAIN doc.subs})

MCDocuments == UNION {Within(doc) : doc \in {Plain, TwoOptions, Misspelt, GoTo, IsAt}}
MCDepth == [doc \in MCDocuments |-> Levels(doc)]
MCCharts == {Plain, TwoOptions, Misspelt}
MCSpelled(name) ==
  CASE name = "GoTo" -> <<"Go", "To">> [] name = "IsAt" -> <<"Is", "At">> [] OTHER -> <<name>>
MCSkills == {"GoToKitchen", "GoToCharging", "IsAtKitchen"}
MCDeveloped == {"GoToKitchen"}
MCChartOf == [i \in MCSkills \ MCDeveloped |-> IF i = "IsAtKitchen" THEN IsAt ELSE GoTo]
MCOption ==
  [i \in MCSkills |-> [location |-> IF i = "GoToCharging" THEN "charging_station" ELSE "kitchen", skillID |-> i]]
MCServers == {"/GoToComponent", "/BlackboardComponent"}

\* The options of the three processes are different ones.
ASSUME OptionsAssumption == OptionsTellApart
=============================================================================
