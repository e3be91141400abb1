---------------------------- MODULE MCNegotiation ----------------------------
(* Instances of StreamNegotiation for TLC.                                 *)
EXTENDS StreamNegotiation

AnyRefusal == Step

=============================================================================
