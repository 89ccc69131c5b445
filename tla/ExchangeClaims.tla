--------------------------- MODULE ExchangeClaims ---------------------------
(***************************************************************************)
(* Statements that the comments and documents of the repository make about *)
(* the exchange and that the code does not keep.  WholeMessages of         *)
(* Exchange is also claimed without the proviso it needs, that the         *)
(* unscheduled window and the grant increment are multiples of packet_size.*)
(***************************************************************************)
EXTENDS Exchange

(***************************************************************************)
(* A message that the receiver refused with BUSY is retried by a probe of  *)
(* the sender's tick (handle_busy, and the BUSY packet in WIRE.md).  tick  *)
(* passes over the messages that are done, as a refused message whose      *)
(* bytes all fit in the unscheduled window is.                             *)
(***************************************************************************)
WillBeProbed(m) == m \in DOMAIN out /\ ~out[m].done
BusyIsRetried ==
  \A m \in started \ timedOut :
    (Busy(m) \in net /\ m \notin Delivered /\ m \notin DOMAIN incoming)
      => WillBeProbed(m)
=============================================================================
