---------------------------- MODULE ArmComponent ----------------------------
(***************************************************************************)
(* The arm component, as it is compiled (FAKE_ARM): a simulated arm whose  *)
(* hand closes on nothing a number of times before it holds an object.     *)
(* Each handler holds the mutex of the component while it moves and        *)
(* changes the state before it releases it, so a handler is one action,    *)
(* but home calls two of them before it takes the mutex for itself: the    *)
(* calls of another client come in between.                                *)
(***************************************************************************)
EXTENDS Naturals

CONSTANT FakeArmFailures    \* how often the hand misses the object

ASSUME FakeArmAssumption == FakeArmFailures \in Nat

VARIABLES
  extracted, opened, grasped, failures,
  homing    \* how far a call of home has come

armVars == <<extracted, opened, grasped, failures, homing>>

ArmCalls == {"preGrasp", "extractHand", "retractHand", "openHand", "closeHand", "hasGrasped"}

ArmTypeOK ==
  /\ extracted \in BOOLEAN
  /\ opened \in BOOLEAN
  /\ grasped \in BOOLEAN
  /\ failures \in 0..FakeArmFailures
  /\ homing \in {"no", "retracted", "closed"}

ArmInit ==
  /\ extracted = FALSE
  /\ opened = FALSE
  /\ grasped = FALSE
  /\ failures = 0
  /\ homing = "no"

extractHand == /\ extracted' = TRUE
               /\ UNCHANGED <<opened, grasped, failures>>

retractHand == /\ extracted' = FALSE
               /\ UNCHANGED <<opened, grasped, failures>>

\* Only a hand that is out and open can take the object.
Closes == extracted /\ opened

\* Mutant: a hand that misses for the last time starts over.
closeHandForgets ==
  /\ failures' = IF Closes THEN (IF failures < FakeArmFailures THEN failures + 1 ELSE 0)
                           ELSE failures
  /\ opened' = FALSE
  /\ UNCHANGED <<extracted, grasped>>

closeHand ==
  /\ grasped' = (grasped \/ (Closes /\ failures >= FakeArmFailures))
  /\ failures' = IF Closes /\ failures < FakeArmFailures THEN failures + 1 ELSE failures
  /\ opened' = FALSE
  /\ UNCHANGED extracted

openHand ==
  /\ opened' = TRUE
  /\ failures' = IF grasped THEN 0 ELSE failures
  /\ grasped' = FALSE
  /\ UNCHANGED extracted

hasGrasped == UNCHANGED <<extracted, opened, grasped, failures>>
preGrasp == UNCHANGED <<extracted, opened, grasped, failures>>

\* One call and what it answers: the movements always report success.
ArmHandles(call, answer) ==
  /\ \/ call = "preGrasp" /\ preGrasp
     \/ call = "extractHand" /\ extractHand
     \/ call = "retractHand" /\ retractHand
     \/ call = "openHand" /\ openHand
     \/ call = "closeHand" /\ closeHand
     \/ call = "hasGrasped" /\ hasGrasped
  /\ answer = (call = "hasGrasped" => grasped)
  /\ UNCHANGED homing

\* home retracts and closes like the clients do, and then moves the arm
\* itself, which changes none of the state.
Home ==
  /\ homing = "no"
  /\ retractHand
  /\ homing' = "retracted"

HomeCloses ==
  /\ homing = "retracted"
  /\ closeHand
  /\ homing' = "closed"

HomeEnds ==
  /\ homing = "closed"
  /\ homing' = "no"
  /\ UNCHANGED <<extracted, opened, grasped, failures>>
=============================================================================
