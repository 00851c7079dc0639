--------------------------- MODULE SkillProtocol ---------------------------
(***************************************************************************)
(* How the behaviour tree runs a small skill: YARPNode, the leaf of the    *)
(* tree, against the generated wrapper of the skill.                       *)
(*                                                                         *)
(* A tick asks for the state, starts the skill if it is idle, and asks     *)
(* again until the state is not idle any more.  The wrapper answers        *)
(* request_ack in two steps of its own thread: it reads the active state   *)
(* and then submits CMD_OK, whatever the state is, and only then returns   *)
(* what it read.  CMD_OK takes a skill from success or failure to idle.    *)
(* The chart runs in between.                                              *)
(***************************************************************************)
EXTENDS SkillCharts, SequencesExt

CONSTANTS NoNode,
          MaxQueue    \* bound on the events that wait in one chart

ASSUME ProtocolAssumption ==
  /\ NoNode \notin Nodes
  /\ MaxQueue \in Nat

VARIABLES
  ticking,    \* the node whose tick is running
  phase,      \* how far that tick is
  seen,       \* the state that the wrapper has read for it
  last,       \* the node ticked last
  result,     \* what its tick has returned
  running,    \* the actions whose last tick has returned RUNNING
  reported,   \* whether this tick has read the outcome of its skill
  unread,     \* whether the skill has left an outcome that this tick had not read
  answers     \* what the calls made during this tick have answered

protocolVars == <<ticking, last, phase, seen, result, running, reported, unread, answers>>

Outcomes == {"success", "failure"}

SkillAck == {"SKILL_IDLE", "SKILL_RUNNING", "SKILL_SUCCESS", "SKILL_FAILURE"}

ProtocolTypeOK ==
  /\ ticking \in Nodes \cup {NoNode}
  /\ phase \in {"none", "ask1", "ack1", "start", "ask2", "ack2"}
  /\ (phase = "none") = (ticking = NoNode)
  /\ seen \in SkillAck
  /\ result \in SkillAck
  /\ running \subseteq Fetchers
  /\ last \in Nodes \cup {NoNode}
  /\ reported \in BOOLEAN
  /\ unread \in BOOLEAN
  /\ answers \subseteq BOOLEAN

ProtocolInit ==
  /\ ticking = NoNode
  /\ phase = "none"
  /\ seen = "SKILL_IDLE"
  /\ result = "SKILL_IDLE"
  /\ running = {}
  /\ last = NoNode
  /\ reported = FALSE /\ unread = FALSE /\ answers = {}

-----------------------------------------------------------------------------
(* One second passes between two ticks of the tree and so of a node, and a *)
(* chart that is not waiting for an answer takes its events within         *)
(* milliseconds.                                                           *)
KeepsUp(n) == calls[n] = <<>> => queue[n] = <<>> /\ late[n] = NoEvent

Tick(n) ==
  /\ ticking = NoNode
  /\ KeepsUp(n)
  /\ ticking' = n
  /\ last' = n
  /\ phase' = "ask1"
  /\ result' = "SKILL_IDLE"
  /\ UNCHANGED <<chartVars, seen, running, reported, unread, answers>>

\* request_ack, first half: the wrapper reads the active state.
Ask ==
  /\ phase \in {"ask1", "ask2"}
  /\ Len(queue[ticking]) < MaxQueue
  /\ seen' = BTStatus(state[ticking])
  /\ phase' = IF phase = "ask1" THEN "ack1" ELSE "ack2"
  /\ reported' = (reported \/ state[ticking] \in Outcomes)
  /\ UNCHANGED <<chartVars, ticking, last, result, running, unread, answers>>

\* The node returns from its tick with a status.
Return(status) ==
  /\ result' = status
  /\ running' = IF status = "SKILL_RUNNING" THEN running \cup {ticking} ELSE running \ {ticking}
  /\ ticking' = NoNode
  /\ phase' = "none"
  /\ reported' = FALSE /\ unread' = FALSE /\ answers' = {}

\* The tick goes on: with a start, or with another question.
Continue(next) ==
  /\ phase' = next
  /\ UNCHANGED <<ticking, result, running, reported, unread, answers>>

\* Mutant: the outcome that ends a tick is not acknowledged.
AcknowledgeNotFinal ==
  /\ phase \in {"ack1", "ack2"}
  /\ \/ phase = "ack2" /\ seen # "SKILL_IDLE" /\ Return(seen) /\ UNCHANGED queue
     \/ phase = "ack1" /\ seen = "SKILL_IDLE" /\ Continue("start") /\ Submit(ticking, "CMD_OK")
     \/ /\ (phase = "ack1") # (seen = "SKILL_IDLE")
        /\ Continue("ask2") /\ Submit(ticking, "CMD_OK")
  /\ seen' = "SKILL_IDLE"
  /\ UNCHANGED <<state, late, calls, last>>

\* request_ack, second half: CMD_OK is submitted for every state, the state
\* that was read is returned, and the tick goes on with it.
Acknowledge ==
  /\ phase \in {"ack1", "ack2"}
  /\ Submit(ticking, "CMD_OK")
  /\ \/ phase = "ack1" /\ seen = "SKILL_IDLE" /\ Continue("start")
     \/ phase = "ack1" /\ seen # "SKILL_IDLE" /\ Continue("ask2")
     \/ phase = "ack2" /\ seen = "SKILL_IDLE" /\ Continue("ask2")
     \/ phase = "ack2" /\ seen # "SKILL_IDLE" /\ Return(seen)
  /\ seen' = "SKILL_IDLE"
  /\ UNCHANGED <<state, late, calls, last>>

Start ==
  /\ phase = "start"
  /\ Submit(ticking, "CMD_START")
  /\ Continue("ask2")
  /\ UNCHANGED <<state, late, calls, last, seen>>

\* An action that a reactive node of the tree gives up is sent CMD_STOP; none
\* of these charts has a transition for it.
Halt(n) ==
  /\ ticking = NoNode
  /\ n \in running
  /\ Len(queue[n]) < MaxQueue
  /\ Submit(n, "CMD_STOP")
  /\ running' = running \ {n}
  /\ UNCHANGED <<state, late, calls, ticking, last, phase, seen, result, reported, unread, answers>>

\* The chart of n takes an event.  If n is being ticked and has left an outcome
\* for a CMD_OK before a request_ack read it, unread tells.
Progress(n) ==
  /\ React(n)
  /\ reported' = (reported /\ (n = ticking => state'[n] \in Outcomes))
  /\ unread' = (unread \/ (n = ticking /\ state[n] \in Outcomes /\ state'[n] = "idle" /\ ~reported))
  /\ UNCHANGED <<ticking, last, phase, seen, result, running, answers>>

\* A call is answered, and the answer to the node that is ticked is on record.
Receive(n, answer) ==
  /\ Answered(n, answer)
  /\ answers' = IF n = ticking THEN answers \cup {answer} ELSE answers
  /\ UNCHANGED <<ticking, last, phase, seen, result, running, reported, unread>>

Timeout(n) == Fire(n) /\ UNCHANGED protocolVars

-----------------------------------------------------------------------------
\* The tick of n waits for a skill that nobody will start.
Stranded(n) == /\ ticking = n
               /\ phase = "ask2" \/ (phase = "ack2" /\ seen = "SKILL_IDLE")
               /\ state[n] = "idle"
               /\ "CMD_START" \notin ToSet(queue[n])
=============================================================================
