---------------------------- MODULE RequestReply -----------------------------
(***************************************************************************)
(* What a caller may rely on when it sends requests to a server: a request *)
(* that returns has been carried out, once; one that fails has not been,   *)
(* and never will be.                                                      *)
(***************************************************************************)
EXTENDS Naturals

CONSTANT Requests

VARIABLES
  stage,    \* a request: idle, open, returned or failed
  executed  \* how often the server has carried it out

Init ==
  /\ stage = [r \in Requests |-> "idle"]
  /\ executed = [r \in Requests |-> 0]

Move(r, from, to) == stage[r] = from /\ stage' = [stage EXCEPT ![r] = to]

Call(r) == Move(r, "idle", "open") /\ UNCHANGED executed

Execute(r) ==
  /\ stage[r] = "open"
  /\ executed[r] = 0
  /\ executed' = [executed EXCEPT ![r] = 1]
  /\ UNCHANGED stage

Return(r) == executed[r] = 1 /\ Move(r, "open", "returned") /\ UNCHANGED executed

Fail(r) == executed[r] = 0 /\ Move(r, "open", "failed") /\ UNCHANGED executed

Next == \E r \in Requests : Call(r) \/ Execute(r) \/ Return(r) \/ Fail(r)

Spec == Init /\ [][Next]_<<stage, executed>>
=============================================================================
