----------------------------- MODULE ObjectStore -----------------------------
(***************************************************************************)
(* What storing a file promises, without handlers, queues and statuses: an *)
(* object is announced with the parts it will have, each part arrives      *)
(* once, and the object is offered for download only when none is missing. *)
(* What is offered is, each time, exactly the parts that arrived; an       *)
(* object may be taken off the shelf and offered again.                    *)
(***************************************************************************)
EXTENDS Naturals

CONSTANTS Objects, Indices, Payloads, Null

VARIABLES
    parts,    \* for each object, a function from the indices of its parts
    offered   \* what a download of the object gets, Null when it is not offered

NoParts == [i \in {} |-> Null]

Init ==
    /\ parts = [o \in Objects |-> NoParts]
    /\ offered = [o \in Objects |-> Null]

Announce(o) ==
    /\ DOMAIN parts[o] = {}
    /\ \E S \in (SUBSET Indices) \ {{}} :
          parts' = [parts EXCEPT ![o] = [i \in S |-> Null]]
    /\ UNCHANGED offered

Receive(o) ==
    /\ \E i \in DOMAIN parts[o], d \in Payloads :
          /\ parts[o][i] = Null
          /\ parts' = [parts EXCEPT ![o][i] = d]
    /\ UNCHANGED offered

Offer(o) ==
    /\ DOMAIN parts[o] # {}
    /\ \A i \in DOMAIN parts[o] : parts[o][i] # Null
    /\ offered' = [offered EXCEPT ![o] = parts[o]]
    /\ UNCHANGED parts

Withdraw(o) ==
    /\ offered' = [offered EXCEPT ![o] = Null]
    /\ UNCHANGED parts

Next == \E o \in Objects : Announce(o) \/ Receive(o) \/ Offer(o) \/ Withdraw(o)

Spec == Init /\ [][Next]_<<parts, offered>>

=============================================================================
