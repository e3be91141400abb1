------------------------------- MODULE MCRoster -------------------------------
(* Instances of Roster for TLC.                                            *)
EXTENDS Roster, TLC

CONSTANTS A, N1, N2, G1, G2

OneContact == {A}
OneName    == {N1}
TwoNames   == {N1, N2}
Alike == Permutations(TwoNames)
OneGroup   == {G1}
TwoGroups  == {G1, G2}

=============================================================================
