------------------------------ MODULE LoginPhases ------------------------------
(***************************************************************************)
(* What XmppCallback promises to the application about one login after     *)
(* another: a login that was begun is told ready at most once, and only    *)
(* before its end is told; the end is the last thing told of it.           *)
(***************************************************************************)
VARIABLE phase

Phase == {"idle", "trying", "ready"}

Init == phase = "idle"

Begin   == phase = "idle" /\ phase' = "trying"
Succeed == phase = "trying" /\ phase' = "ready"
End     == phase # "idle" /\ phase' = "idle"

Next == Begin \/ Succeed \/ End

Spec == Init /\ [][Next]_phase

=============================================================================
