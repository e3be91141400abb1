------------------------------- MODULE MCSocks5 -------------------------------
(* Instances of Socks5Streams for TLC.                                     *)
EXTENDS Socks5Streams

OnlyInitiator == {I}

=============================================================================
