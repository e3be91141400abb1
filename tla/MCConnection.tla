---------------------------- MODULE MCConnection ----------------------------
(* Instances of XmppConnection for TLC.                                    *)
EXTENDS XmppConnection, TLC

CONSTANTS L1, L2, A1, A2

OneLogin  == {L1}
TwoLogins == {L1, L2}
OneApp    == {A1}
TwoApps   == {A1, A2}

AllKinds  == Stanza
FewKinds  == {"success", "error"}

\* Login threads run the same code, and application threads too.
Symmetry == Permutations(LoginThreads) \union Permutations(AppThreads)

=============================================================================
