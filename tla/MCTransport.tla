---------------------------- MODULE MCTransport -----------------------------
(* Instances of Transport and of its claims for TLC. *)
EXTENDS TransportClaims, TLC

CONSTANTS a, b, r, s

OneMsg  == {a}
TwoMsgs == {a, b}
OneReader  == {r}
TwoReaders == {r, s}

\* Packets of 2 bytes.
Len4     == a :> 4
Len6     == a :> 6
Len4And2 == a :> 4 @@ b :> 2

TwoLevels == <<2>>
=============================================================================
