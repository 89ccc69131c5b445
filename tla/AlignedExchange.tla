-------------------------- MODULE AlignedExchange ---------------------------
(***************************************************************************)
(* The invariant behind WholeMessages, DeliveredIsDone and NeverWedged.    *)
(*                                                                         *)
(* The receiver keeps one bit per slot of a grid of packet_size bytes, and *)
(* the sender cuts packets wherever its books stand.  The two agree as     *)
(* long as the books stand on the grid, which they do when the unscheduled *)
(* window and the grant increment are multiples of packet_size.  (With     *)
(* the defaults, 10240, 65536 and 1200, they are not: see claim_whole.)    *)
(***************************************************************************)
EXTENDS Exchange

OnGrid(x)  == \E k \in 0 .. x : x = k * PacketSize
Edge(m, x) == x \in 0 .. DataLen[m] /\ (x = DataLen[m] \/ OnGrid(x))

Aligned ==
  /\ UnscheduledBytes > 0
  /\ OnGrid(UnscheduledBytes)
  /\ OnGrid(GrantIncrement)
  /\ \A m \in Msgs : DataLen[m] < U32

\* From here on the sender sends nothing new for m.
SentAll(m) == m \in started /\ IsDone(m)

\* The sender's books stand on a chunk boundary, past the first chunk.
GoodSending(m, msg) ==
  /\ msg \in OutMsg
  /\ Edge(m, msg.next_send)
  /\ msg.done <=> msg.next_send = DataLen[m]
  /\ DataLen[m] > 0 => msg.next_send > 0

\* Every fragment is one whole slot, and is in the sender's books.
GoodData(p) ==
  LET m == p.msg_id IN
  /\ m \in started
  /\ p.offset < DataLen[m] /\ OnGrid(p.offset)
  /\ p.source = p.offset
  /\ p.length = Lesser(PacketSize, DataLen[m] - p.offset)
  /\ p.msg_len = DataLen[m]
  /\ m \in DOMAIN out => p.offset + p.length <= out[m].next_send

\* What the receiver asks for ends on a chunk boundary, unless the last,
\* shorter chunk has arrived early: then all has been sent.
GoodControl(p) ==
  LET m == p.msg_id IN
  /\ m \in started
  /\ p.type = "GRANT"  => SentAll(m) \/ Edge(m, p.offset)
  /\ p.type = "RESEND" => SentAll(m) \/ Edge(m, p.offset + p.length)

GoodPacket(p) == IF p.type = "DATA" THEN GoodData(p) ELSE GoodControl(p)

\* The receiver holds exactly the bytes of the slots it has marked, and has
\* counted them.
GoodReceiving(m, msg) ==
  /\ m \in started
  /\ msg \in InMsg
  /\ msg.total_len = DataLen[m] /\ DataLen[m] > 0
  /\ msg.received \subseteq 0 .. Chunks(DataLen[m]) - 1
  /\ msg.buf = {b \in 0 .. DataLen[m] - 1 : b \div PacketSize \in msg.received}
  /\ msg.received_bytes = Cardinality(msg.buf)
  /\ msg.granted_to <= DataLen[m]
  /\ SentAll(m) \/ (Edge(m, msg.granted_to) /\ OnGrid(msg.received_bytes))
  /\ m \in DOMAIN out => \A b \in msg.buf : b < out[m].next_send

GoodDelivery(d) == SentAll(d.msg_id) /\ d.buf = 0 .. DataLen[d.msg_id] - 1

(***************************************************************************)
(* Sender, network, receiver and inbox agree on the grid: the inductive    *)
(* invariant of an aligned exchange.                                       *)
(***************************************************************************)
GridInv ==
  /\ \A m \in DOMAIN out : GoodSending(m, out[m])
  /\ \A p \in net : GoodPacket(p)
  /\ \A m \in DOMAIN incoming :
       GoodReceiving(m, incoming[m]) /\ ~Complete(incoming[m])
  /\ \A i \in DOMAIN inbox : GoodDelivery(inbox[i])
=============================================================================
