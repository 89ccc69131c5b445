------------------------------- MODULE MCRpc --------------------------------
(* Instances of Rpc for TLC. *)
EXTENDS Rpc, TLC

CONSTANTS a, b

OnlyA    == {a}
OnlyB    == {b}
TwoCalls == {a, b}
Nobody   == {}

OneEach   == a :> 1 @@ b :> 1
TwoAndOne == a :> 2 @@ b :> 1
=============================================================================
