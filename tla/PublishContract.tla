---------------------------- MODULE PublishContract ----------------------------
(***************************************************************************)
(* What a listener of the stack may rely on for the requests it makes on   *)
(* publish-subscribe nodes: each is asked once, and is told to have        *)
(* succeeded or to have failed at most once, for good.                     *)
(***************************************************************************)
CONSTANT Requests
VARIABLE outcome   \* per request: what the listener knows of it

Init == outcome = [r \in Requests |-> "none"]

Ask(r) ==
  /\ outcome[r] = "none"
  /\ outcome' = [outcome EXCEPT ![r] = "asked"]

Tell(r) ==
  /\ outcome[r] = "asked"
  /\ \E o \in {"ok", "failed"} : outcome' = [outcome EXCEPT ![r] = o]

Next == \E r \in Requests : Ask(r) \/ Tell(r)

Spec == Init /\ [][Next]_outcome

=============================================================================
