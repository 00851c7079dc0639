---------------------------- MODULE FetchSystem ----------------------------
(***************************************************************************)
(* Fetching an object: the part of the behaviour tree                      *)
(* "release3_BT (copy).xml" that ticks IsFetched and, when the object is   *)
(* not in the hand and IsAtUser holds, Fetch; the three skills; the arm    *)
(* component; and an operator who may send the arm home.  Where the robot  *)
(* is may change at any time.                                              *)
(***************************************************************************)
EXTENDS SkillProtocol, ArmComponent

CONSTANTS isFetched, isAtUser, fetch,
          HomeAllowed      \* whether the operator calls home

ASSUME FetchSystemAssumption ==
  /\ isFetched # isAtUser
  /\ Conditions = {isFetched, isAtUser}
  /\ Fetchers = {fetch}
  /\ HomeAllowed \in BOOLEAN

vars == <<chartVars, protocolVars, armVars>>

TypeOK == ChartTypeOK /\ ProtocolTypeOK /\ ArmTypeOK

Init == ChartInit /\ ProtocolInit /\ ArmInit

\* Mutant: Fetch is ticked whatever the conditions say.
TickFetchAlways == Tick(fetch)

\* A second has passed since the last time.
TickIsFetched == (\A n \in Nodes : KeepsUp(n)) /\ Tick(isFetched)

\* The fallback ticks IsAtUser after IsFetched has failed, and the sequence
\* below it Fetch after IsAtUser has succeeded.
TickIsAt ==
  /\ last = isFetched
  /\ result = "SKILL_FAILURE"
  /\ Tick(isAtUser)

TickFetch ==
  /\ last = isAtUser
  /\ result = "SKILL_SUCCESS"
  /\ Tick(fetch)

\* The name of the call of a script in the interface of the arm.
ArmCall(n) == IF Head(calls[n]) = "get" THEN "hasGrasped" ELSE Head(calls[n])

\* The arm serves Fetch and IsFetched, the GoTo component IsAtUser.
Called(n) == \E answer \in BOOLEAN :
               /\ calls[n] # <<>>
               /\ IF n = isAtUser THEN UNCHANGED armVars ELSE ArmHandles(ArmCall(n), answer)
               /\ Receive(n, answer)

Operator == HomeAllowed /\ Home

Tree ==
  /\ \/ TickIsFetched \/ TickIsAt \/ TickFetch \/ Halt(fetch)
     \/ Ask \/ Acknowledge \/ Start
  /\ UNCHANGED armVars

Chart(n) == (Progress(n) \/ Timeout(n)) /\ UNCHANGED armVars

Arm == (Operator \/ HomeCloses \/ HomeEnds) /\ UNCHANGED <<chartVars, protocolVars>>

Next == Tree \/ Arm \/ \E n \in Nodes : Chart(n) \/ Called(n)

Spec == Init /\ [][Next]_vars

\* Every process goes on: the tick that has begun, the charts, the components
\* that serve them, and home.  The tree need not begin another tick.
FairSpec ==
  /\ Spec
  /\ WF_vars((Ask \/ Acknowledge \/ Start) /\ UNCHANGED armVars)
  /\ WF_vars(Arm /\ homing # "no")
  /\ \A n \in Nodes : /\ WF_vars((Progress(n) /\ UNCHANGED armVars) \/ Called(n))
                      /\ WF_vars(Timeout(n) /\ UNCHANGED armVars)

-----------------------------------------------------------------------------
\* A Fetch that says it has succeeded has the object in the hand and the hand
\* drawn back, whatever the operator has done meanwhile (the conds of extract,
\* grasp and retract; closeHand's own answer is ignored).
GraspedOnSuccess == state[fetch] = "success" => grasped /\ ~extracted

\* An object that is in the hand stays there: no openHand of a retry or of a
\* second Fetch drops it (GRASP_KO leads back to open; IsFetched guards Fetch).
NeverDrops == [][grasped => grasped']_vars

\* A Fetch that has begun comes to an end even if the tree has given it up,
\* unless the operator has sent the arm home in the middle of it.
Resting == {"idle", "success", "failure"}
FetchEnds == (state[fetch] \notin Resting ~> state[fetch] \in Resting) \/ <>(homing # "no")

\* A condition that reports SUCCESS has been answered yes, and one that reports
\* FAILURE no, by a call that was made during this very tick: the outcome of
\* an earlier tick is never reported again (YARPNode::tick, request_ack).
ReportsFreshAnswer ==
  [][\A n \in Conditions :
       ticking = n /\ ticking' # n =>
         /\ seen = "SKILL_SUCCESS" => TRUE \in answers
         /\ seen = "SKILL_FAILURE" => FALSE \in answers]_vars

\* A tick of a condition ends.  It can be left waiting for a skill that is idle
\* and not started only when a CMD_OK of an earlier request_ack of the same tick
\* took the skill out of an outcome that no request_ack had read
\* (YARPNode::tick, the while).
TickEnds ==
  ticking \in Conditions ~> (ticking \notin Conditions \/ (Stranded(ticking) /\ unread))

\* BT_wrappers.thrift: "SKILL_SUCCESS" indicates that the node has completed
\* running.  A tick whose request_ack has read it ends and returns it.
SuccessIsReturned ==
  (ticking = fetch /\ phase = "ack1" /\ seen = "SKILL_SUCCESS") ~> ticking # fetch
=============================================================================
