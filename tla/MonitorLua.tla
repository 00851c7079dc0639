----------------------------- MODULE MonitorLua -----------------------------
(***************************************************************************)
(* The binding of a Lua script to a port monitor: what every operation     *)
(* leaves on the stack s of the Lua state, which all of them share.  After *)
(* load its top is the table PortMonitor, and a callback is looked up in   *)
(* whatever the top is.  script is the set of the callbacks that the table *)
(* has.  The operations run under luaMutex, one at a time, but for         *)
(* canAccept, which the thread of the connection calls.                    *)
(***************************************************************************)
EXTENDS Naturals, Sequences, SequencesExt

\* registerExtraFunctions leaves the table of the functions that scripts call.
New == <<"library">>

\* load leaves the table of the script above it.
Base == Append(New, "PortMonitor")

\* lua_close
Closed == <<>>

\* What an operation leaves, what it answers, and whether the script has run.
Outcome(s, value, ran) == [stack |-> s, value |-> value, ran |-> ran]
Failed == "failed"

Pop(s, n) == SubSeq(s, 1, Len(s) - n)

\* getLocalFunction: nothing is found in another table, nor in a string, which
\* has the methods of strings.
getLocalFunction(s, script, name) ==
  Append(s, IF Last(s) = "PortMonitor" /\ name \in script THEN "function" ELSE "nil")

isFunction(s) == Last(s) = "function"

\* lua_pcall of a function with its arguments on the stack: its results, or an
\* error message.
pcall(s, args, results) ==
  LET below == Pop(s, args + 1)
  IN  {Outcome(below \o [i \in 1..results |-> v], v, TRUE) : v \in {"yes", "no"}}
        \cup {Outcome(Append(below, "string"), Failed, TRUE)}

\* A callback by name: the function is looked up, called with what it takes, and
\* its results are converted and popped.  The type of an argument may not be
\* found: that is a failure as well.
Callback(s, script, name, args, results, default) ==
  LET found == getLocalFunction(s, script, name)
  IN  IF ~isFunction(found) THEN {Outcome(Pop(found, 1), default, FALSE)}
      ELSE {Outcome(Pop(found, 1), Failed, FALSE)} \cup
           {Outcome(Pop(r.stack, IF r.value = Failed THEN 1 ELSE results), r.value, TRUE) :
              r \in pcall(found \o [i \in 1..args |-> "userdata"], args, results)}

acceptData(s, script) == Callback(s, script, "accept", 1, 1, "yes")
updateData(s, script) == Callback(s, script, "update", 1, 1, "yes")
setParams(s, script)  == Callback(s, script, "setparam", 1, 0, "yes")
getParams(s, script)  == Callback(s, script, "getparam", 0, 1, "yes")

\* peerTrigged passes nothing, so no type can be missing.
peerTrigged(s, script) == {r \in Callback(s, script, "trig", 0, 0, "yes") : r.value = Failed => r.ran}

\* Mutant: the value of the rule is left on the stack.
canAcceptKeeps(s, holds, fails) ==
  {Outcome(Append(s, "boolean"), IF holds THEN "yes" ELSE "no", TRUE)}

\* The rule is evaluated.  What it yields is popped if it is true or false; the
\* message of a rule that fails, or another value, stays.
canAccept(s, holds, fails) ==
  {Outcome(s, IF holds THEN "yes" ELSE "no", TRUE)} \cup
  (IF fails THEN {Outcome(Append(s, "string"), Failed, TRUE)} ELSE {})

\* load closes the state when the script cannot be run or has no table, or when
\* create fails; when create says no, or its argument has no type, the monitor
\* is not ready.  flags are the callbacks that are found then.
load(s, script) ==
  {[stack |-> Closed, ready |-> FALSE, flags |-> {}]} \cup
  {[stack |-> IF made.value = Failed /\ made.ran THEN Closed ELSE made.stack,
    ready |-> made.value = "yes",
    flags |-> IF made.value # "yes" THEN {}
              ELSE {n \in {"accept", "update", "update_reply"} :
                      isFunction(getLocalFunction(made.stack, script, n))}] :
     made \in Callback(Append(s, "PortMonitor"), script, "create", 1, 1, "yes")}
=============================================================================
