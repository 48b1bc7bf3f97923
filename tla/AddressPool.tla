----------------------------- MODULE AddressPool -----------------------------
(***************************************************************************)
(* What an address allocator promises: a service that holds no address may *)
(* get one of the subnet, it may exchange the address it holds for another *)
(* one, and it may give it back; nobody gets an address somebody else      *)
(* holds.                                                                  *)
(***************************************************************************)
CONSTANTS Services, Subnet, None

VARIABLE holds  \* service -> address

Init == holds = [s \in Services |-> None]

HeldByOther(s, ip) == \E t \in Services \ {s} : holds[t] = ip

Obtain(s, ip) ==
  /\ ~ HeldByOther(s, ip)
  /\ holds' = [holds EXCEPT ![s] = ip]

GiveBack(s) ==
  /\ holds[s] # None
  /\ holds' = [holds EXCEPT ![s] = None]

Next ==
  \E s \in Services : GiveBack(s) \/ \E ip \in Subnet : Obtain(s, ip)

Spec == Init /\ [][Next]_holds
=============================================================================
