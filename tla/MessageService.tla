--------------------------- MODULE MessageService ---------------------------
(***************************************************************************)
(* What the transport promises its users (Transport::send_to and recv,     *)
(* src/transport/mod.rs): a message that was sent is handed up at most     *)
(* once, and then whole.  The order of delivery is not promised, and       *)
(* nothing says that a message is delivered at all.                        *)
(***************************************************************************)
EXTENDS Integers, Sequences

CONSTANTS Msgs, DataLen

VARIABLES
  started,  \* messages passed to send_to
  inbox     \* State.completed: what recv returns, in order

Init == started = {} /\ inbox = <<>>

Send(m) ==
  /\ m \notin started
  /\ started' = started \cup {m}
  /\ UNCHANGED inbox

Deliver(m) ==
  /\ m \in started
  /\ \A i \in DOMAIN inbox : inbox[i].msg_id # m
  /\ inbox' = Append(inbox, [msg_id |-> m, buf |-> 0 .. DataLen[m] - 1])
  /\ UNCHANGED started

Next == \E m \in Msgs : Send(m) \/ Deliver(m)

Spec == Init /\ [][Next]_<<started, inbox>>
=============================================================================
