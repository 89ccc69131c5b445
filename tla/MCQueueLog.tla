----------------------------- MODULE MCQueueLog -----------------------------
(* An instance of QueueLog for TLC. *)
EXTENDS QueueLog, TLC

CONSTANTS a, b, c, d

\* Three levels: a most urgent, b and c on the next one, d below.
TwoBounds   == <<1, 4>>
FourLengths == a :> 1 @@ b :> 3 @@ c :> 4 @@ d :> 5
=============================================================================
