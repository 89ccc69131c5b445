-------------------------------- MODULE Wire --------------------------------
(***************************************************************************)
(* The packets of agent-transport (src/transport/packet.rs) and the UDP    *)
(* network that carries them.                                              *)
(*                                                                         *)
(* A message is named by an element of Msgs, which stands for the key      *)
(* (SocketAddr, msg_id) that both cores use; DataLen[m] is data.len(), in  *)
(* bytes.  A payload is not a string of bytes: a DATA packet records in    *)
(* `source' which byte of the message its payload starts with, so that     *)
(* "the right byte in the right place" can be told from any other.         *)
(*                                                                         *)
(* net holds every datagram that may still arrive, in any order.  Where    *)
(* the network may duplicate, receiving a datagram leaves it in net; where *)
(* it may lose, a datagram may leave net unreceived.                       *)
(***************************************************************************)
EXTENDS Integers, Maps

CONSTANTS
  Msgs,             \* message keys
  DataLen,          \* DataLen[m] is the number of bytes of message m
  U32,              \* 2^32 on the wire; small in models that reach it
  PacketSize,       \* cfg.packet_size, the same at both ends
  UnscheduledBytes, \* cfg.unscheduled_bytes, the same at both ends
  Lossy,            \* TRUE: a datagram may be lost
  Duplicating       \* TRUE: a datagram may arrive more than once

ASSUME WireAssumption ==
  /\ DataLen \in [Msgs -> Nat]
  /\ U32 \in Nat \ {0}
  /\ PacketSize \in Nat \ {0}
  /\ UnscheduledBytes \in Nat
  /\ Lossy \in BOOLEAN
  /\ Duplicating \in BOOLEAN

VARIABLE net

\* usize::min and usize::max
Lesser(a, b)  == IF a <= b THEN a ELSE b
Greater(a, b) == IF a <= b THEN b ELSE a

(***************************************************************************)
(* The four packet types.  The header fields msg_len and offset are u32:   *)
(* data_packet casts with `as', which keeps the low 32 bits.  A payload is *)
(* at most one datagram long, so `length' always fits; GRANT and RESEND    *)
(* fields are bounded by a total_len that was itself read from a u32.      *)
(* Fields that neither core reads (priority, the `length' of a GRANT) are  *)
(* left out.                                                               *)
(***************************************************************************)
AsU32(n) == n % U32

Data(m, off, n) ==
  [type |-> "DATA", msg_id |-> m, msg_len |-> AsU32(DataLen[m]),
   offset |-> AsU32(off), length |-> n, source |-> off]
Grant(m, off)     == [type |-> "GRANT", msg_id |-> m, offset |-> off]
Resend(m, off, n) == [type |-> "RESEND", msg_id |-> m, offset |-> off, length |-> n]
Busy(m)           == [type |-> "BUSY", msg_id |-> m]

DataPacket == [type : {"DATA"}, msg_id : Msgs, msg_len : Nat, offset : Nat,
               length : Nat, source : Nat]
GrantPacket  == [type : {"GRANT"}, msg_id : Msgs, offset : Nat]
ResendPacket == [type : {"RESEND"}, msg_id : Msgs, offset : Nat, length : Nat]
BusyPacket   == [type : {"BUSY"}, msg_id : Msgs]
Packet == DataPacket \cup GrantPacket \cup ResendPacket \cup BusyPacket

(***************************************************************************)
(* The network: packets are sent, sent on receipt of p, or lost.           *)
(***************************************************************************)
Without(p) == IF Duplicating THEN net ELSE net \ {p}

Emit(packets)      == net' = net \cup packets
Answer(p, packets) == net' = Without(p) \cup packets

Lose(p) == Lossy /\ net' = net \ {p}
=============================================================================
