----------------------------- MODULE RemoteCall -----------------------------
(***************************************************************************)
(* What a stub promises its caller: the method it calls is executed with   *)
(* the argument it passes, at most once; it returns the value that the     *)
(* method has computed, or the default.  The caller cannot tell a lost     *)
(* call from a lost answer, nor from one that is still to be executed:     *)
(* that happens while it waits or any time after it was given the default. *)
(***************************************************************************)
EXTENDS Integers

CONSTANTS Calls, Values(_), NotCalling, NotDone

VARIABLES
  asked, done, answer,
  executing    \* how often a call is still executed for a caller that has the default

Init == /\ asked = NotCalling /\ done = NotDone /\ answer = 0
        /\ executing = [c \in Calls |-> 0]

Ask == /\ asked = NotCalling
       /\ asked' \in Calls
       /\ done' = NotDone /\ answer' = 0
       /\ UNCHANGED executing

\* A call that cannot be sent.
Refuse == /\ asked = NotCalling
          /\ done' = NotDone /\ answer' = 0
          /\ UNCHANGED <<asked, executing>>

Execute == /\ asked # NotCalling /\ done = NotDone
           /\ \E v \in Values(asked) : done' = [call |-> asked, value |-> v]
           /\ UNCHANGED <<asked, answer, executing>>

Return == /\ asked # NotCalling
          /\ asked' = NotCalling
          /\ \/ answer' = 0
             \/ done # NotDone /\ answer' = done.value
          /\ UNCHANGED <<done, executing>>

\* The default is returned for a call that is still to be executed.
GiveUp == /\ asked # NotCalling /\ done = NotDone
          /\ asked' = NotCalling
          /\ answer' = 0
          /\ executing' = [executing EXCEPT ![asked] = @ + 1]
          /\ UNCHANGED done

ExecuteForNobody ==
  /\ \E c \in Calls : executing[c] > 0 /\ executing' = [executing EXCEPT ![c] = @ - 1]
  /\ UNCHANGED <<asked, done, answer>>

Next == Ask \/ Refuse \/ Execute \/ Return \/ GiveUp \/ ExecuteForNobody

Spec == Init /\ [][Next]_<<asked, done, answer, executing>>
=============================================================================
