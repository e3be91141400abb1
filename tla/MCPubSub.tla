------------------------------- MODULE MCPubSub -------------------------------
(* Instances of PubSubTracking for TLC.                                    *)
EXTENDS PubSubTracking

CONSTANTS C1, C2

TwoCallers == {C1, C2}

EveryKind == Kind \ {"metadata"}
FewKinds  == {"nickname"}

=============================================================================
