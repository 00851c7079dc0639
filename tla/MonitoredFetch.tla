--------------------------- MODULE MonitoredFetch ---------------------------
(***************************************************************************)
(* The Fetch skill, the arm and the monitors.  The connection of the skill *)
(* to the arm has a port monitor: a call is shown to the monitors, written *)
(* by its stub, served, shown again with its reply, and only then answered.*)
(* Writing to /monitor waits until the message is read.  The connection    *)
(* may be missing or break while a call is under way: the stub returns its *)
(* default at once, and the call is lost, or only the answer.  A call that *)
(* the arm has taken is executed all the same, some time later: each       *)
(* connection has a thread of its own there, which sleeps for seconds      *)
(* before it changes anything, while a new connection brings new calls.    *)
(* The connection of an operator who sends the arm home has no port        *)
(* monitor.                                                                *)
(* The tree is reduced to its ticks and to starting and acknowledging the  *)
(* skill.                                                                  *)
(***************************************************************************)
EXTENDS SkillCharts, ArmComponent, Monitors, SequencesExt

P == INSTANCE Protocols

CONSTANTS fetch, HomeAllowed,
          MaxBreaks,    \* bound on the calls that are lost
          Places        \* words for destinations

ASSUME MonitoredFetchAssumption ==
  /\ Fetchers = {fetch} /\ Conditions = {}
  /\ HomeAllowed \in BOOLEAN
  /\ MaxBreaks \in Nat
  /\ P!EmptyWord \notin Places

NotCalling == P!Method(<<"none">>, FALSE, "none")
NotDone == [value |-> -1]

VARIABLES
  asked,     \* the helper of the call that the skill waits for
  request,   \* its words, if they are on the way to the arm
  reply,     \* the reply, if it is on its way back
  done,      \* what the arm has executed for it, and with what result
  answer,    \* what the last call has returned
  breaks,    \* how many calls were lost
  abandoned, \* of each call, how often the arm still executes it for nobody
  unasked,   \* what it has executed for nobody since the skill was started
  openFor    \* ticks since the arm has opened the hand for the skill, if the
             \* skill has not drawn it back

callVars == <<asked, request, reply, done, answer, breaks>>
lostVars == <<abandoned, unasked>>
vars == <<chartVars, armVars, monitorVars, callVars, lostVars, openFor>>

armPort == CHOOSE o \in Create(SendersSide, "/ArmServiceFetchClient", "/ArmComponent") : TRUE

\* What the arm reads in each of the requests that a stub writes.
Understood == [words \in {P!Write(helper, P!EmptyWord) : helper \in P!ArmServiceCalls} |->
                 P!read(P!ArmServiceReads, words)]

TooLong == GraspTheta + 1

TypeOK ==
  /\ ChartTypeOK
  /\ ArmTypeOK
  /\ asked \in P!ArmServiceCalls \cup {NotCalling}
  /\ request = {} \/ (asked # NotCalling /\ reply = {} /\ done = NotDone)
  /\ reply = {} \/ (asked # NotCalling /\ done # NotDone)
  /\ answer \in {0, 1}
  /\ breaks \in 0..MaxBreaks
  /\ abandoned \in [P!ArmServiceCalls -> 0..MaxBreaks]
  /\ unasked \subseteq ArmCalls
  /\ openFor \in -1..TooLong
  /\ grasp.tickCounter \in 0..GraspTheta

Init ==
  /\ ChartInit /\ ArmInit /\ MonitorsInit
  /\ asked = NotCalling /\ request = {} /\ reply = {}
  /\ done = NotDone /\ answer = 0 /\ breaks = 0
  /\ abandoned = [c \in P!ArmServiceCalls |-> 0] /\ unasked = {}
  /\ openFor = -1

\* The call that the script of the skill makes, as a monitor object is shown it.
Call(ret) == [method |-> Head(calls[fetch]), dest |-> "", ret |-> ret]

-----------------------------------------------------------------------------
(* The loop of main.cpp writes a tick.  openFor saturates.                 *)
TreeTick ==
  /\ Hear(TickMessage)
  /\ openFor' = IF openFor \in 0..GraspTheta THEN openFor + 1 ELSE openFor
  /\ UNCHANGED <<chartVars, armVars, callVars, lostVars>>

Quiet == calls[fetch] = <<>> /\ queue[fetch] = <<>> /\ late[fetch] = NoEvent

TreeDrives ==
  /\ Quiet
  /\ \/ state[fetch] = "idle" /\ Submit(fetch, "CMD_START") /\ unasked' = {}
     \/ state[fetch] \in {"success", "failure"} /\ Submit(fetch, "CMD_OK") /\ UNCHANGED unasked
  /\ UNCHANGED <<state, late, calls, armVars, monitorVars, callVars, abandoned, openFor>>

Chart ==
  /\ React(fetch) \/ Fire(fetch)
  /\ UNCHANGED <<armVars, monitorVars, callVars, lostVars, openFor>>

\* The monitor object is shown the call, and the helper writes itself.
Sends ==
  /\ calls[fetch] # <<>> /\ asked = NotCalling
  /\ Hear(ArmUpdate(armPort, Call(FALSE)))
  /\ \E helper \in P!ArmServiceCalls :
       /\ helper.name = <<Head(calls[fetch])>>
       /\ asked' = helper
       /\ request' = {P!Write(helper, P!EmptyWord)}
  /\ done' = NotDone /\ answer' = 0
  /\ UNCHANGED <<chartVars, armVars, reply, breaks, lostVars, openFor>>

\* The arm reads the request, executes what it has read and replies.
Serves ==
  \E words \in request : \E m \in Understood[words] :
    /\ \E b \in BOOLEAN :
         /\ ArmHandles(m.method.name[1], b)
         /\ done' = [call |-> m.method, value |-> Number(b)]
         /\ reply' = {P!Reply(m.method.returns, Number(b))}
    /\ request' = {}
    /\ openFor' = CASE m.method = P!ArmService_openHand_helper /\ openFor = -1 -> 0
                    [] m.method = P!ArmService_retractHand_helper -> -1
                    [] OTHER -> openFor
    /\ UNCHANGED <<chartVars, monitorVars, asked, answer, breaks, lostVars>>

\* The script goes on with what the stub returns.
StubReturns(value) ==
  /\ answer' = value
  /\ Answered(fetch, value = 1)
  /\ asked' = NotCalling
  /\ reply' = {}

\* The reply is read by the stub, after the monitor object has been shown it.
Returns ==
  \E r \in reply :
    /\ Hear(ArmUpdateReply(armPort, Call(P!Read("bool", r) = 1)))
    /\ StubReturns(P!Read("bool", r))
    /\ UNCHANGED <<armVars, request, done, breaks, lostVars, openFor>>

\* Write finds no connection: nothing is shown and nothing is sent.
Refused ==
  /\ calls[fetch] # <<>> /\ asked = NotCalling
  /\ breaks < MaxBreaks
  /\ breaks' = breaks + 1
  /\ done' = NotDone
  /\ StubReturns(P!Default)
  /\ UNCHANGED <<armVars, monitorVars, request, lostVars, openFor>>

\* Write returns false and no reply is shown.  The request or the reply is lost,
\* or the arm has read the request and goes on with it.
Break ==
  /\ asked # NotCalling
  /\ breaks < MaxBreaks
  /\ breaks' = breaks + 1
  /\ request' = {}
  /\ StubReturns(P!Default)
  /\ \/ UNCHANGED abandoned
     \/ \E words \in request : \E m \in Understood[words] :
          abandoned' = [abandoned EXCEPT ![m.method] = @ + 1]
  /\ UNCHANGED <<armVars, monitorVars, done, unasked, openFor>>

\* A handler whose caller is gone wakes up; its reply is thrown away.
ServesNobody ==
  \E c \in P!ArmServiceCalls :
    /\ abandoned[c] > 0
    /\ \E b \in BOOLEAN : ArmHandles(c.name[1], b)
    /\ abandoned' = [abandoned EXCEPT ![c] = @ - 1]
    /\ unasked' = unasked \cup {c.name[1]}
    /\ UNCHANGED <<chartVars, monitorVars, callVars, openFor>>

HomeEnding == (HomeCloses \/ HomeEnds) /\ UNCHANGED <<chartVars, monitorVars, callVars, lostVars, openFor>>
HomeBegins == HomeAllowed /\ Home /\ UNCHANGED <<chartVars, monitorVars, callVars, lostVars, openFor>>

Next ==
  \/ TreeTick \/ TreeDrives \/ Chart
  \/ Sends \/ Serves \/ Returns
  \/ Refused \/ Break \/ ServesNobody
  \/ HomeBegins \/ HomeEnding

Spec == Init /\ [][Next]_vars

\* The tree ticks; the skill or its call goes on, one step at a time, and so
\* does the operator's call.
FairSpec ==
  /\ Spec
  /\ WF_vars(TreeTick)
  /\ WF_vars(Chart \/ Sends \/ Serves \/ Returns)
  /\ WF_vars(HomeEnding)

-----------------------------------------------------------------------------
\* A Fetch that says it has succeeded holds the object in a hand drawn back,
\* whatever calls or answers were lost on the way and wherever home came in
\* between (the defaults of the stubs are taken for a failure).  Only a call
\* given up earlier that the arm executes after the skill was started undoes it:
\* an openHand drops the object, an extractHand sends the hand out again.
GraspedOnSuccess ==
  state[fetch] = "success" =>
    /\ grasped \/ "openHand" \in unasked
    /\ ~extracted \/ "extractHand" \in unasked

\* What the Monitor shows of the arm and the hand is the truth, except between
\* the call and its reply, unless some time a call is lost or the operator sends
\* the arm home (MonitorReader::read, the replies of the arm).
ShownArmIsTrue ==
  \/ [](reply = {} => reader.isArmExtracted = extracted /\ reader.isHandOpen = opened)
  \/ <>(homing # "no" \/ breaks # 0)

\* GraspMonitor raises no alarm unless the hand has been out for more than its
\* number of ticks since the arm opened it: it stops counting when it sees
\* retractHand being sent.
GraspAlarmJustified ==
  [][grasp.at # "failure" /\ grasp'.at = "failure" => openFor >= GraspTheta]_vars

\* A Fetch that opens and closes the hand for ever, as it does when an operator
\* has drawn the arm back, is noticed by GraspMonitor.
LoopIsNoticed ==
  <>[](state[fetch] \in {"open", "grasp"}) => <>(grasp.at = "failure")

\* The stub keeps its promise, whatever is lost and whenever the arm executes
\* what it has read: what is written on one side of the connection and read on
\* the other are the method and the value that were meant (the helpers, write and
\* read of ArmService.cpp), and a call given up is executed once more at most.
Remote == INSTANCE RemoteCall WITH
            Calls <- P!ArmServiceCalls, Values <- LAMBDA c : P!Values(c.returns),
            executing <- abandoned
KeepsPromise == Remote!Spec

\* Every call that a stub of any of the protocols writes is read as that method
\* with that destination, and every value that the method may return arrives.
StubsAreServed ==
  \A p \in P!Protocol, place \in Places : \A h \in P!Stubs[p] :
    /\ P!read(P!Readers[p], P!Write(h, place)) =
         {[method |-> h, dest |-> IF h.takes THEN place ELSE P!EmptyWord]}
    /\ \A v \in P!Values(h.returns) : P!Read(h.returns, P!Reply(h.returns, v)) = v

\* All the ways to part the words of a name.
Spellings(name) ==
  {w \in UNION {[1..n -> UNION {{SubSeq(name, i, j) : j \in i..Len(name)} : i \in DOMAIN name}] :
                  n \in DOMAIN name} : FlattenSeq(w) = name}

\* What help lists is served, and as what it says, however the operator parts
\* its name and whether or not "__direct__" is put before it: no name of a
\* protocol begins with the words of another (help and read of the protocols).
HelpIsServed ==
  \A p \in P!Protocol, place \in Places : \A name \in P!Listed[p], prefix \in {<<>>, <<P!DIRECT>>} :
    \A words \in Spellings(name) :
      \E m \in P!read(P!Readers[p], prefix \o words \o <<place>>) : m.method.name = name

\* Nothing that a program or an operator calls is taken for something else.
CallsAreServed == StubsAreServed /\ HelpIsServed
=============================================================================
