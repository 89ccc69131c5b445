----------------------------- MODULE MCExchange -----------------------------
(* Instances of Exchange and of its claims for TLC. *)
EXTENDS ExchangeClaims, AlignedExchange, TLC

CONSTANTS a, b

OneMsg  == {a}
TwoMsgs == {a, b}

\* With packets of 2 bytes: a full last chunk and a short one, and a message
\* sent in its unscheduled window.
Len5      == a :> 5
Len8      == a :> 8
Len9      == a :> 9
Len6And4  == a :> 6 @@ b :> 4
Len4And3  == a :> 4 @@ b :> 3
Len6And2  == a :> 6 @@ b :> 2

\* A bound for caches smaller than the number of messages: without it the
\* messages can be handed up again and again.
MaxDeliveries == 4
CappedSpec == Init /\ [][Next /\ Len(inbox') <= MaxDeliveries]_vars
=============================================================================
