---------------------------- MODULE IdComponent ----------------------------
(***************************************************************************)
(* The Id component: request_id answers the preferred id followed by the   *)
(* smallest number that makes it new, release_id gives an id back.  Both   *)
(* run under one mutex, so each is one step.  No process of the repository *)
(* calls them: the clients are those the protocol allows, any number, each *)
(* in one call at a time, which give back only what they hold and whose    *)
(* answers may be lost on the way.                                         *)
(***************************************************************************)
EXTENDS Naturals, Sequences

CONSTANTS
  Clients,
  Preferred,  \* the preferred ids: sequences of characters
  Radix,      \* 10 in the code: std::to_string
  MaxNumber   \* the largest number that is tried

VARIABLES
  ids,        \* the ids given and not released
  held,       \* what each client has been answered and not given back
  pending     \* the call of each client, or its answer on the way

vars == <<ids, held, pending>>

to_string[i \in 0 .. MaxNumber] ==
  IF i < Radix THEN <<i>> ELSE Append(to_string[i \div Radix], i % Radix)

Id(preferred, i) == preferred \o to_string[i]

Ids == {Id(p, i) : p \in Preferred, i \in 0 .. MaxNumber}

NoCall == [op |-> "none"]
Pending ==
  {NoCall} \cup [op : {"request"}, preferred : Preferred] \cup [op : {"answer", "release"}, id : Ids]

Init ==
  /\ ids = {}
  /\ held = [c \in Clients |-> {}]
  /\ pending = [c \in Clients |-> NoCall]

Ask(c) ==
  /\ pending[c] = NoCall
  /\ \E p \in Preferred : pending' = [pending EXCEPT ![c] = [op |-> "request", preferred |-> p]]
  /\ UNCHANGED <<ids, held>>

request_id(c) ==
  /\ pending[c].op = "request"
  /\ \E i \in 0 .. MaxNumber :
       LET id == Id(pending[c].preferred, i) IN
       /\ id \notin ids
       /\ \A k \in 0 .. MaxNumber : k < i => Id(pending[c].preferred, k) \in ids
       /\ ids' = ids \cup {id}
       /\ pending' = [pending EXCEPT ![c] = [op |-> "answer", id |-> id]]
  /\ UNCHANGED held

(* The answer arrives, or is lost and the id with it. *)
Receive(c) ==
  /\ pending[c].op = "answer"
  /\ \/ held' = [held EXCEPT ![c] = @ \cup {pending[c].id}]
     \/ UNCHANGED held
  /\ pending' = [pending EXCEPT ![c] = NoCall]
  /\ UNCHANGED ids

GiveBack(c) ==
  /\ pending[c] = NoCall
  /\ \E id \in held[c] :
       /\ held' = [held EXCEPT ![c] = @ \ {id}]
       /\ pending' = [pending EXCEPT ![c] = [op |-> "release", id |-> id]]
  /\ UNCHANGED ids

release_id(c) ==
  /\ pending[c].op = "release"
  /\ ids' = ids \ {pending[c].id}
  /\ pending' = [pending EXCEPT ![c] = NoCall]
  /\ UNCHANGED held

Next == \E c \in Clients : Ask(c) \/ request_id(c) \/ Receive(c) \/ GiveBack(c) \/ release_id(c)

Spec == Init /\ [][Next]_vars

-----------------------------------------------------------------------------
(* What a client holds, is about to receive or is giving back. *)
InCall(c) == IF pending[c].op \in {"answer", "release"} THEN {pending[c].id} ELSE {}

(* The ids are well formed, and what a client holds, receives or gives     *)
(* back is an id the component has given: it is not free for others.       *)
TypeOK ==
  /\ ids \subseteq Ids
  /\ held \in [Clients -> SUBSET Ids]
  /\ pending \in [Clients -> Pending]
  /\ \A c \in Clients : held[c] \cup InCall(c) \subseteq ids

(* No two clients hold the same id, although different preferred ids       *)
(* followed by different numbers may read the same, and although an id     *)
(* that was given back is given again.                                     *)
UniqueIds == \A c, d \in Clients : c # d => held[c] \cap held[d] = {}
=============================================================================
