-------------------------------- MODULE MCMuc --------------------------------
(* Instances of MucRooms for TLC.                                          *)
EXTENDS MucRooms

CONSTANT R1

OneRoom == {R1}

=============================================================================
