------------------------ MODULE MCOwnerArbitration ------------------------
(* Instances of OwnerArbitration for TLC: the brokers of two Macs, one of    *)
(* which reconnects.                                                        *)
EXTENDS OwnerArbitration, TLC

CONSTANTS b1, b2, b3

Two == {b1, b2}
Three == {b1, b2, b3}
TwoOwners == (b1 :> 1) @@ (b2 :> 2)
Reconnecting == (b1 :> 1) @@ (b2 :> 2) @@ (b3 :> 1)
=============================================================================
