----------------------------- MODULE StreamContract -----------------------------
(***************************************************************************)
(* What a listener of the facade may rely on for one file transfer: it is  *)
(* told of the stream, that the stream is open, of its data while it is    *)
(* open, and of its end, in this order.  A stream may end before it opens, *)
(* and may never be ended.                                                 *)
(***************************************************************************)
EXTENDS Naturals

VARIABLES
  phase,  \* what the listener was told last
  data    \* how many pieces of data it was told of

Init == phase = "none" /\ data = 0

Create == phase = "none" /\ phase' = "created" /\ UNCHANGED data

Open == phase = "created" /\ phase' = "opened" /\ UNCHANGED data

\* The first data may open a stream.
Receive ==
  /\ phase \in {"created", "opened"} /\ phase' = "opened"
  /\ data' > data

Close == phase \in {"created", "opened"} /\ phase' = "closed" /\ UNCHANGED data

Next == Create \/ Open \/ Receive \/ Close

Spec == Init /\ [][Next]_<<phase, data>>

=============================================================================
