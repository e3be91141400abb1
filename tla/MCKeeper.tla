------------------------------- MODULE MCKeeper -------------------------------
(* Instances of StackKeeper for TLC.                                       *)
EXTENDS StackKeeper

TwoStacks == 1..2

=============================================================================
