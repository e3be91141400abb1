------------------------------ MODULE MCOutbound ------------------------------
(* Instances of OutboundChain for TLC.                                     *)
EXTENDS OutboundChain

CONSTANTS S1, S2, S3

TwoSenders   == {S1, S2}
ThreeSenders == {S1, S2, S3}

EveryMode == [zlib : BOOLEAN, tls : BOOLEAN]
ZlibOnly  == {[zlib |-> TRUE, tls |-> FALSE]}

=============================================================================
