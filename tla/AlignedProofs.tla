--------------------------- MODULE AlignedProofs ----------------------------
(***************************************************************************)
(* When the unscheduled window and the grant increment are multiples of    *)
(* packet_size, the exchange keeps its promises for every value of the     *)
(* constants: messages are delivered whole, no reassembly is wedged, and   *)
(* what was delivered is done at the sender.                               *)
(***************************************************************************)
EXTENDS AlignedExchange, ExchangeProofs

\* Positions of the grid.
LEMMA GridPoint ==
  ASSUME NEW k \in Nat
  PROVE  k * PacketSize \in Nat /\ OnGrid(k * PacketSize)
<1>1. PacketSize \in Nat /\ PacketSize >= 1
  BY ReceiverConstants
<1>2. k * 1 <= k * PacketSize /\ k * PacketSize \in Nat
  BY <1>1, MulMono
<1> QED BY <1>2 DEF OnGrid

LEMMA GridSum ==
  ASSUME NEW x \in Nat, NEW y \in Nat, OnGrid(x), OnGrid(y)
  PROVE  OnGrid(x + y)
<1>1. PICK i \in 0 .. x, j \in 0 .. y : x = i * PacketSize /\ y = j * PacketSize
  BY DEF OnGrid
<1>2. x + y = (i + j) * PacketSize /\ i + j \in Nat
  BY <1>1, ReceiverConstants
<1> QED BY <1>2, GridPoint

\* Two positions of the grid are a whole slot apart.
LEMMA GridGap ==
  ASSUME NEW x \in Nat, NEW y \in Nat, OnGrid(x), OnGrid(y), x < y
  PROVE  x + PacketSize <= y
<1>1. PICK i \in 0 .. x, j \in 0 .. y : x = i * PacketSize /\ y = j * PacketSize
  BY DEF OnGrid
<1>2. i < j
  <2> SUFFICES ASSUME j <= i PROVE FALSE
    BY <1>1
  <2> QED BY <1>1, MulMono, ReceiverConstants
<1>3. (i + 1) * PacketSize <= j * PacketSize
  BY <1>2, MulMono, ReceiverConstants
<1>4. (i + 1) * PacketSize = i * PacketSize + PacketSize
  BY ReceiverConstants
<1> QED BY <1>1, <1>3, <1>4

\* The slot of a position of the grid starts there.
LEMMA GridSlot ==
  ASSUME NEW x \in Nat, OnGrid(x)
  PROVE  (x \div PacketSize) * PacketSize = x
<1>1. PICK i \in 0 .. x : x = i * PacketSize
  BY DEF OnGrid
<1>2. x \div PacketSize = i
  BY <1>1, DivUnique, ReceiverConstants
<1> QED BY <1>1, <1>2

(***************************************************************************)
(* Between boundaries, the loop of pump stops exactly at its limit.        *)
(***************************************************************************)
LEMMA PumpStopsAtLimit ==
  ASSUME NEW m \in Msgs, NEW from, NEW to, Edge(m, from), Edge(m, to), from < to
  PROVE  /\ OnGrid(from)
         /\ Lesser(from + Rounds(from, to) * PacketSize, DataLen[m]) = to
<1>1. from \in Nat /\ to \in Nat /\ DataLen[m] \in Nat /\ to <= DataLen[m]
  BY WireAssumption DEF Edge
<1>2. OnGrid(from)
  BY <1>1 DEF Edge
<1> DEFINE r == Rounds(from, to)
           n == from + r * PacketSize
<1>3. /\ r \in Nat /\ r * PacketSize \in Nat
      /\ n < to + PacketSize /\ to <= n
  BY <1>1, RoundsBound
<1>4. CASE to = DataLen[m]
  BY <1>1, <1>2, <1>3, <1>4 DEF Lesser
<1>5. CASE to # DataLen[m]
  <2>1. OnGrid(to)
    BY <1>5 DEF Edge
  <2>2. OnGrid(n)
    BY <1>1, <1>2, <1>3, GridPoint, GridSum
  <2>3. n = to
    <3> SUFFICES ASSUME n # to PROVE FALSE
      OBVIOUS
    <3>1. to < n /\ n \in Nat
      BY <1>1, <1>3
    <3>2. to + PacketSize <= n
      BY <1>1, <2>1, <2>2, <3>1, GridGap
    <3> QED BY <1>1, <1>3, <3>2, ReceiverConstants
  <2> QED BY <1>1, <1>2, <2>3 DEF Lesser
<1> QED BY <1>4, <1>5

\* A slot that starts before a boundary ends at or before it.
LEMMA SlotEndsByEdge ==
  ASSUME NEW m \in Msgs, NEW x \in Nat, OnGrid(x), NEW to, Edge(m, to), x < to
  PROVE  x + Lesser(PacketSize, DataLen[m] - x) <= to
<1>1. to \in Nat /\ DataLen[m] \in Nat /\ to <= DataLen[m]
  BY WireAssumption DEF Edge
<1>2. CASE to = DataLen[m]
  BY <1>1, <1>2, ReceiverConstants DEF Lesser
<1>3. CASE to # DataLen[m]
  <2>1. x + PacketSize <= to
    BY <1>1, <1>3, GridGap DEF Edge
  <2> QED BY <1>1, <2>1, ReceiverConstants DEF Lesser
<1> QED BY <1>2, <1>3
-----------------------------------------------------------------------------
(***************************************************************************)
(* What no step undoes: the books of a message only advance, and a message *)
(* that has left out does not come back.                                   *)
(***************************************************************************)
SenderAdvances ==
  /\ started \subseteq started'
  /\ \A m \in started \cap DOMAIN out' :
       /\ m \in DOMAIN out
       /\ out[m].next_send <= out'[m].next_send
       /\ out[m].done => out'[m].done

LEMMA SentAllStable ==
  ASSUME SenderAdvances, NEW m, SentAll(m)
  PROVE  SentAll(m)'
BY DEF SenderAdvances, SentAll, IsDone

LEMMA PacketsStayGood ==
  ASSUME BooksOK, BooksOK', SenderAdvances, NEW p \in net, GoodPacket(p)
  PROVE  GoodPacket(p)'
<1>1. p \in Packet /\ p.msg_id \in started /\ p.msg_id \in Msgs /\ p.msg_id \in started'
  BY DEF BooksOK, TypeOK, GoodPacket, GoodData, GoodControl, SenderAdvances
<1>2. CASE p.type = "DATA"
  <2>1. p.offset + p.length \in Nat
    BY <1>1, <1>2 DEF Packet, DataPacket, GrantPacket, ResendPacket, BusyPacket
  <2>2. ASSUME p.msg_id \in DOMAIN out'
        PROVE  p.offset + p.length <= out'[p.msg_id].next_send
    <3>1. /\ out[p.msg_id].next_send <= out'[p.msg_id].next_send
          /\ p.msg_id \in DOMAIN out
      BY <1>1, <2>2 DEF SenderAdvances
    <3>2. out[p.msg_id].next_send \in Nat /\ out'[p.msg_id].next_send \in Nat
      BY <2>2, <3>1 DEF BooksOK, SendingOK, OutMsg
    <3>3. p.offset + p.length <= out[p.msg_id].next_send
      BY <1>2, <3>1 DEF GoodPacket, GoodData
    <3> QED BY <2>1, <3>1, <3>2, <3>3
  <2> QED BY <1>1, <1>2, <2>2 DEF GoodPacket, GoodData
<1>3. CASE p.type # "DATA"
  <2>1. SentAll(p.msg_id) => SentAll(p.msg_id)'
    BY SentAllStable
  <2> QED BY <1>1, <1>3, <2>1 DEF GoodPacket, GoodControl
<1> QED BY <1>2, <1>3

LEMMA ReceivingStaysGood ==
  ASSUME BooksOK, BooksOK', SenderAdvances, UNCHANGED incoming,
         NEW m \in DOMAIN incoming, GoodReceiving(m, incoming[m])
  PROVE  GoodReceiving(m, incoming[m])'
<1>1. m \in started /\ m \in started'
  BY DEF GoodReceiving, SenderAdvances
<1>2. SentAll(m) => SentAll(m)'
  BY SentAllStable
<1>3. ASSUME m \in DOMAIN out', NEW b \in incoming[m].buf
      PROVE  b < out'[m].next_send
  <2>1. m \in DOMAIN out /\ out[m].next_send <= out'[m].next_send
    BY <1>1, <1>3 DEF SenderAdvances
  <2>2. out[m].next_send \in Nat /\ out'[m].next_send \in Nat
    BY <1>3, <2>1 DEF BooksOK, SendingOK, OutMsg
  <2>3. b \in Nat /\ b < out[m].next_send
    BY <1>3, <2>1 DEF GoodReceiving, InMsg
  <2> QED BY <2>1, <2>2, <2>3
<1> QED BY <1>1, <1>2, <1>3 DEF GoodReceiving

(***************************************************************************)
(* A step of the sender keeps the grid if the books it changes stay on the *)
(* grid and the packets it sends are good.                                 *)
(***************************************************************************)
LEMMA SenderStep ==
  ASSUME BooksOK, BooksOK', GridInv, SenderAdvances, UNCHANGED receiverVars,
         \A m \in DOMAIN out' : GoodSending(m, out'[m]),
         \A p \in net' \ net : GoodPacket(p)'
  PROVE  GridInv'
<1>1. \A p \in net' : GoodPacket(p)'
  BY PacketsStayGood DEF GridInv
<1>2. \A m \in DOMAIN incoming : GoodReceiving(m, incoming[m])'
  BY ReceivingStaysGood DEF GridInv, receiverVars
<1>4. incoming' = incoming /\ inbox' = inbox
  BY DEF receiverVars
<1>5. (\A i \in DOMAIN inbox : GoodDelivery(inbox[i]))'
  <2> SUFFICES ASSUME NEW i \in DOMAIN inbox, NEW d, d = inbox[i]
               PROVE  GoodDelivery(d)'
    BY <1>4
  <2>1. GoodDelivery(d)
    BY DEF GridInv
  <2> QED BY <2>1, SentAllStable DEF GoodDelivery
<1>6. (\A m \in DOMAIN incoming : GoodReceiving(m, incoming[m]) /\ ~Complete(incoming[m]))'
  BY <1>2, <1>4 DEF GridInv, Complete
<1> QED BY <1>1, <1>5, <1>6 DEF GridInv
-----------------------------------------------------------------------------
(***************************************************************************)
(* The sender's handlers.                                                  *)
(***************************************************************************)
LEMMA SliceFields ==
  ASSUME Aligned, NEW m \in Msgs, NEW off \in Nat, off < DataLen[m]
  PROVE  /\ Slice(m, off).type = "DATA"
         /\ Slice(m, off).msg_id = m
         /\ Slice(m, off).offset = off
         /\ Slice(m, off).source = off
         /\ Slice(m, off).msg_len = DataLen[m]
         /\ Slice(m, off).length = Lesser(PacketSize, DataLen[m] - off)
<1>1. DataLen[m] \in Nat /\ DataLen[m] < U32 /\ U32 \in Nat \ {0}
  BY WireAssumption DEF Aligned
<1>2. AsU32(off) = off /\ AsU32(DataLen[m]) = DataLen[m]
  BY <1>1 DEF AsU32
<1> QED BY <1>2 DEF Slice, Data

LEMMA SliceGood ==
  ASSUME Aligned, NEW m \in Msgs, NEW off \in Nat, off < DataLen[m], OnGrid(off),
         m \in started',
         m \in DOMAIN out' =>
           off + Lesser(PacketSize, DataLen[m] - off) <= out'[m].next_send
  PROVE  GoodPacket(Slice(m, off))'
<1> DEFINE p == Slice(m, off)
<1>1. /\ p.type = "DATA" /\ p.msg_id = m /\ p.offset = off /\ p.source = off
      /\ p.msg_len = DataLen[m] /\ p.length = Lesser(PacketSize, DataLen[m] - off)
  BY SliceFields
<1> HIDE DEF p
<1>2. GoodPacket(p)'
  BY <1>1 DEF GoodPacket, GoodData
<1> QED BY <1>2 DEF p

\* A chunk that holds a byte before a boundary ends at or before it.
LEMMA ChunkGood ==
  ASSUME Aligned, NEW m \in Msgs, NEW to, Edge(m, to), NEW off \in 0 .. to - 1,
         m \in started',
         m \in DOMAIN out' => to <= out'[m].next_send /\ out'[m].next_send \in Nat
  PROVE  GoodPacket(Chunk(m, off))'
<1> DEFINE x == (off \div PacketSize) * PacketSize
<1>1. to \in Nat /\ to <= DataLen[m] /\ DataLen[m] \in Nat /\ off \in Nat
  BY WireAssumption DEF Edge
<1>2. x \in Nat /\ x <= off /\ OnGrid(x)
  BY <1>1, DivBounds, GridPoint, ReceiverConstants
<1> HIDE DEF x
<1>3. x + Lesser(PacketSize, DataLen[m] - x) <= to
  BY <1>1, <1>2, SlotEndsByEdge
<1>4. x < DataLen[m] /\ x + Lesser(PacketSize, DataLen[m] - x) \in Nat
  BY <1>1, <1>2, ReceiverConstants DEF Lesser
<1>5. GoodPacket(Slice(m, x))'
  BY <1>1, <1>2, <1>3, <1>4, SliceGood
<1> QED BY <1>5 DEF x, Chunk

LEMMA PumpGood ==
  ASSUME Aligned, NEW m \in Msgs, NEW msg \in OutMsg, Edge(m, msg.next_send),
         msg.done => msg.next_send = DataLen[m], NEW limit \in Nat,
         ~msg.done => Edge(m, Lesser(limit, DataLen[m]))
  PROVE  LET new == Pump(m, msg, limit) IN
         /\ new \in OutMsg
         /\ Edge(m, new.next_send)
         /\ new.done <=> new.next_send = DataLen[m]
         /\ msg.next_send <= new.next_send
         /\ ~msg.done => Lesser(limit, DataLen[m]) <= new.next_send
         /\ \A p \in PumpSends(m, msg, limit) :
              \E off \in Nat : /\ off < DataLen[m] /\ OnGrid(off) /\ p = Slice(m, off)
                             /\ off + Lesser(PacketSize, DataLen[m] - off) <= new.next_send
<1> DEFINE to   == Lesser(limit, DataLen[m])
           from == msg.next_send
           r    == Rounds(from, to)
           sent == Lesser(from + r * PacketSize, DataLen[m])
           new  == Pump(m, msg, limit)
<1>0. /\ DataLen[m] \in Nat /\ from \in Nat /\ from <= DataLen[m]
      /\ msg.granted_to \in Nat /\ msg.done \in BOOLEAN
      /\ to \in Nat /\ to <= DataLen[m]
  BY WireAssumption DEF OutMsg, Edge, Lesser
<1>1. CASE msg.done
  <2>1. new = msg /\ PumpSends(m, msg, limit) = {}
    BY <1>1 DEF Pump, PumpSends
  <2> QED BY <1>0, <1>1, <2>1
<1>2. CASE ~msg.done
  <2>1. new = [granted_to |-> Greater(msg.granted_to, to), next_send |-> sent,
               done |-> sent >= DataLen[m]]
    BY <1>2 DEF Pump
  <2>2. PumpSends(m, msg, limit) = {Slice(m, from + i * PacketSize) : i \in 0 .. r - 1}
    BY <1>2 DEF PumpSends
  <2>3. Greater(msg.granted_to, to) \in Nat
    BY <1>0 DEF Greater
  <2>r. /\ r \in Nat
        /\ from >= to => r = 0
        /\ \A i \in 0 .. r - 1 : i * PacketSize \in Nat /\ from + i * PacketSize < to
    BY <1>0, RoundsBound
  <2>s. sent = Lesser(from + r * PacketSize, DataLen[m])
    OBVIOUS
  <2>e. Edge(m, to) /\ Edge(m, from)
    BY <1>2
  <2>f. from < to => OnGrid(from) /\ sent = to
    BY <2>e, PumpStopsAtLimit
  <2> HIDE DEF new, to, from, r, sent
  <2>t. new.next_send = sent /\ new.granted_to = Greater(msg.granted_to, to)
    BY <2>1
  <2>u. new.done = (sent >= DataLen[m])
    BY <2>1, Zenon
  <2>v. sent \in Nat /\ sent <= DataLen[m] => (sent >= DataLen[m] <=> sent = DataLen[m])
    BY <1>0
  <2>w. sent \in Nat => new \in OutMsg
    <3>1. (sent >= DataLen[m]) \in BOOLEAN
      OBVIOUS
    <3> QED BY <2>1, <2>3, <3>1, Zenon DEF OutMsg
  <2>4. CASE from >= to
    <3>1. r = 0 /\ r * PacketSize = 0
      BY <1>0, <2>4, <2>r, ReceiverConstants
    <3>2. sent = from
      BY <1>0, <2>s, <3>1 DEF Lesser
    <3>3. PumpSends(m, msg, limit) = {}
      BY <2>2, <3>1
    <3>4. new \in OutMsg /\ new.next_send = from /\ (new.done <=> from = DataLen[m])
      BY <1>0, <2>t, <2>u, <2>v, <2>w, <3>2
    <3> QED BY <1>0, <2>4, <2>e, <3>3, <3>4 DEF new, to, from
  <2>5. CASE from < to
    <3>1. OnGrid(from) /\ sent = to
      BY <2>5, <2>f
    <3>2. new \in OutMsg /\ new.next_send = to /\ (new.done <=> to = DataLen[m])
      BY <1>0, <2>t, <2>u, <2>v, <2>w, <3>1
    <3>3. ASSUME NEW i \in 0 .. r - 1
          PROVE  \E off \in Nat :
                   /\ off < DataLen[m] /\ OnGrid(off)
                   /\ Slice(m, from + i * PacketSize) = Slice(m, off)
                   /\ off + Lesser(PacketSize, DataLen[m] - off) <= to
      <4>1. i \in Nat /\ i * PacketSize \in Nat /\ from + i * PacketSize < to
        BY <2>r
      <4>2. OnGrid(from + i * PacketSize)
        BY <1>0, <3>1, <4>1, GridPoint, GridSum
      <4>3. from + i * PacketSize \in Nat /\ from + i * PacketSize < DataLen[m]
        BY <1>0, <4>1
      <4>4. from + i * PacketSize
              + Lesser(PacketSize, DataLen[m] - (from + i * PacketSize)) <= to
        BY <2>e, <4>1, <4>2, <4>3, SlotEndsByEdge
      <4> QED BY <4>2, <4>3, <4>4
    <3> QED BY <1>0, <1>2, <2>2, <2>5, <2>e, <3>2, <3>3 DEF new, to, from
  <2> QED BY <1>0, <2>4, <2>5
<1> QED BY <1>0, <1>1, <1>2

LEMMA SendToGrid ==
  ASSUME Aligned, BooksOK, BooksOK', GridInv, NEW m \in Msgs, SendTo(m)
  PROVE  GridInv'
<1> DEFINE unscheduled == Lesser(UnscheduledBytes, DataLen[m])
           msg == [granted_to |-> unscheduled, next_send |-> 0, done |-> FALSE]
           new == Pump(m, msg, unscheduled)
<1>1. /\ DataLen[m] \in Nat /\ UnscheduledBytes \in Nat /\ UnscheduledBytes > 0
      /\ OnGrid(UnscheduledBytes)
  BY WireAssumption DEF Aligned
<1>2. /\ unscheduled \in Nat /\ Edge(m, unscheduled)
      /\ Lesser(unscheduled, DataLen[m]) = unscheduled
      /\ DataLen[m] > 0 => unscheduled > 0
  BY <1>1 DEF Lesser, Edge
<1>3. OnGrid(0)
  BY GridPoint, ReceiverConstants DEF OnGrid
<1>4. msg \in OutMsg /\ Edge(m, msg.next_send) /\ ~msg.done
  BY <1>1, <1>2, <1>3 DEF OutMsg, Edge
<1>5. /\ new \in OutMsg /\ Edge(m, new.next_send)
      /\ new.done <=> new.next_send = DataLen[m]
      /\ unscheduled <= new.next_send
      /\ \A p \in PumpSends(m, msg, unscheduled) :
           \E off \in Nat : /\ off < DataLen[m] /\ OnGrid(off) /\ p = Slice(m, off)
                          /\ off + Lesser(PacketSize, DataLen[m] - off) <= new.next_send
  <2> HIDE DEF unscheduled, msg
  <2> QED BY <1>2, <1>4, PumpGood
<1>6. /\ out' = Put(out, m, new)
      /\ net' = net \cup PumpSends(m, msg, unscheduled)
      /\ m \notin started /\ started' = started \cup {m}
      /\ UNCHANGED receiverVars
  BY DEF SendTo, Start, Emit
<1> HIDE DEF new, msg
<1>7. /\ DOMAIN out' = DOMAIN out \cup {m} /\ out'[m] = new
      /\ \A n \in DOMAIN out : n # m => out'[n] = out[n]
      /\ m \notin DOMAIN out
  BY <1>6 DEF Put, BooksOK, TypeOK
<1>8. SenderAdvances
  BY <1>6, <1>7 DEF SenderAdvances, BooksOK, TypeOK, SendingOK, OutMsg
<1>9. \A n \in DOMAIN out' : GoodSending(n, out'[n])
  <2>1. GoodSending(m, new)
    BY <1>1, <1>2, <1>5 DEF GoodSending, OutMsg
  <2> QED BY <1>7, <2>1 DEF GridInv
<1>10. \A p \in net' \ net : GoodPacket(p)'
  <2> TAKE p \in net' \ net
  <2>1. PICK off \in Nat : /\ off < DataLen[m] /\ OnGrid(off) /\ p = Slice(m, off)
                          /\ off + Lesser(PacketSize, DataLen[m] - off) <= new.next_send
    BY <1>5, <1>6
  <2>2. GoodPacket(Slice(m, off))'
    BY <1>6, <1>7, <2>1, SliceGood
  <2> QED BY <2>1, <2>2
<1> QED BY <1>6, <1>8, <1>9, <1>10, SenderStep

LEMMA TimeOutGrid ==
  ASSUME Aligned, BooksOK, BooksOK', GridInv, NEW m \in Msgs, TimeOut(m)
  PROVE  GridInv'
<1>1. /\ out' = [k \in DOMAIN out \ {m} |-> out[k]]
      /\ UNCHANGED <<net, started, receiverVars>>
  BY DEF TimeOut, Finish, Drop
<1>2. SenderAdvances
  BY <1>1 DEF SenderAdvances, BooksOK, TypeOK, SendingOK, OutMsg
<1>3. \A n \in DOMAIN out' : GoodSending(n, out'[n])
  BY <1>1 DEF GridInv
<1> QED BY <1>1, <1>2, <1>3, SenderStep

LEMMA RecvGrantGrid ==
  ASSUME Aligned, BooksOK, BooksOK', GridInv, NEW p \in net, RecvGrant(p)
  PROVE  GridInv'
<1> DEFINE m     == p.msg_id
           msg   == out[m]
           limit == Lesser(p.offset, DataLen[m])
           new   == Pump(m, msg, limit)
<1>1. p \in GrantPacket /\ p.type = "GRANT"
  BY DEF RecvGrant, BooksOK, TypeOK, Packet, DataPacket, ResendPacket, BusyPacket
<1>2. m \in DOMAIN out /\ m \in Msgs /\ m \in started /\ DataLen[m] \in Nat /\ p.offset \in Nat
  BY <1>1, WireAssumption DEF RecvGrant, HandleGrant, BooksOK, TypeOK, GrantPacket
<1>3. msg \in OutMsg /\ GoodSending(m, msg)
  BY <1>2 DEF GridInv, GoodSending
<1>4. limit \in Nat /\ Lesser(limit, DataLen[m]) = limit
  BY <1>2 DEF Lesser
<1>5. ~msg.done => Edge(m, limit)
  <2> SUFFICES ASSUME ~msg.done PROVE Edge(m, limit)
    OBVIOUS
  <2>1. ~SentAll(m)
    BY <1>2 DEF SentAll, IsDone
  <2>2. Edge(m, p.offset)
    BY <1>1, <2>1 DEF GridInv, GoodPacket, GoodControl
  <2> QED BY <1>2, <2>2 DEF Edge, Lesser
<1>6. /\ new \in OutMsg /\ Edge(m, new.next_send)
      /\ new.done <=> new.next_send = DataLen[m]
      /\ msg.next_send <= new.next_send
      /\ \A q \in PumpSends(m, msg, limit) :
           \E off \in Nat : /\ off < DataLen[m] /\ OnGrid(off) /\ q = Slice(m, off)
                          /\ off + Lesser(PacketSize, DataLen[m] - off) <= new.next_send
  <2> HIDE DEF limit, msg
  <2> QED BY <1>2, <1>3, <1>4, <1>5, PumpGood DEF GoodSending
<1>7. /\ out' = [out EXCEPT ![m] = new]
      /\ net' \subseteq net \cup PumpSends(m, msg, limit)
      /\ UNCHANGED <<started, timedOut, receiverVars>>
  BY DEF RecvGrant, HandleGrant, Answer, Without
<1> HIDE DEF new
<1>8. /\ DOMAIN out' = DOMAIN out /\ out'[m] = new
      /\ \A n \in DOMAIN out : n # m => out'[n] = out[n]
  BY <1>2, <1>7
<1>9. SenderAdvances
  <2>1. msg.done => new.done
    BY <1>2, <1>3, <1>6 DEF GoodSending, Edge, OutMsg
  <2> QED BY <1>6, <1>7, <1>8, <2>1 DEF SenderAdvances, BooksOK, TypeOK, SendingOK, OutMsg
<1>10. \A n \in DOMAIN out' : GoodSending(n, out'[n])
  <2>1. GoodSending(m, new)
    BY <1>2, <1>3, <1>6 DEF GoodSending, OutMsg
  <2> QED BY <1>8, <2>1 DEF GridInv
<1>11. \A q \in net' \ net : GoodPacket(q)'
  <2> TAKE q \in net' \ net
  <2>1. PICK off \in Nat : /\ off < DataLen[m] /\ OnGrid(off) /\ q = Slice(m, off)
                          /\ off + Lesser(PacketSize, DataLen[m] - off) <= new.next_send
    BY <1>6, <1>7
  <2>2. GoodPacket(Slice(m, off))'
    BY <1>2, <1>7, <1>8, <2>1, SliceGood
  <2> QED BY <2>1, <2>2
<1> QED BY <1>7, <1>9, <1>10, <1>11, SenderStep

LEMMA RecvResendGrid ==
  ASSUME Aligned, BooksOK, BooksOK', GridInv, NEW p \in net, RecvResend(p)
  PROVE  GridInv'
<1> DEFINE m   == p.msg_id
           msg == out[m]
           end == ResendEnd(p)
           new == Catchup(m, msg, end)
<1>1. p \in ResendPacket /\ p.type = "RESEND"
  BY DEF RecvResend, BooksOK, TypeOK, Packet, DataPacket, GrantPacket, BusyPacket
<1>2. /\ m \in DOMAIN out /\ m \in Msgs /\ m \in started /\ DataLen[m] \in Nat
      /\ p.offset \in Nat /\ p.length \in Nat
  BY <1>1, WireAssumption DEF RecvResend, HandleResend, BooksOK, TypeOK, ResendPacket
<1>3. msg \in OutMsg /\ GoodSending(m, msg)
  BY <1>2 DEF GridInv, GoodSending
<1>4. ResendStart(p) \in Nat /\ end \in Nat /\ end <= DataLen[m]
  BY <1>2 DEF ResendStart, ResendEnd, Lesser
<1>5. msg.done \/ Edge(m, end)
  <2> SUFFICES ASSUME ~msg.done PROVE Edge(m, end)
    OBVIOUS
  <2>1. ~SentAll(m)
    BY <1>2 DEF SentAll, IsDone
  <2>2. Edge(m, p.offset + p.length)
    BY <1>1, <2>1 DEF GridInv, GoodPacket, GoodControl
  <2>3. end = p.offset + p.length
    BY <1>2, <2>2 DEF Edge, ResendStart, ResendEnd, Lesser
  <2> QED BY <2>2, <2>3
<1>6. /\ out' = [out EXCEPT ![m] = new]
      /\ net' \subseteq net \cup {Chunk(m, off) : off \in ResendStart(p) .. end - 1}
      /\ UNCHANGED <<started, timedOut, receiverVars>>
  BY DEF RecvResend, HandleResend, Answer, Without
<1>7. /\ new \in OutMsg
      /\ new.next_send = Greater(msg.next_send, end)
      /\ new.done = (msg.done \/ (msg.next_send < end /\ end >= DataLen[m]))
  <2>1. Greater(msg.granted_to, end) \in Nat /\ Greater(msg.next_send, end) \in Nat
    BY <1>3, <1>4 DEF Greater, OutMsg
  <2>2. msg.done \in BOOLEAN
    BY <1>3 DEF OutMsg
  <2> HIDE DEF end, msg
  <2> QED BY <2>1, <2>2, Zenon DEF Catchup, OutMsg
<1> HIDE DEF new
<1>8. GoodSending(m, new) /\ msg.next_send <= new.next_send /\ end <= new.next_send
  <2>1. /\ msg.next_send \in Nat /\ msg.next_send <= DataLen[m]
        /\ Edge(m, msg.next_send) /\ (msg.done <=> msg.next_send = DataLen[m])
        /\ DataLen[m] > 0 => msg.next_send > 0
    BY <1>3 DEF GoodSending, Edge
  <2>2. new.next_send \in {msg.next_send, end}
    BY <1>7 DEF Greater
  <2>3. msg.next_send <= new.next_send /\ end <= new.next_send /\ new.next_send <= DataLen[m]
    BY <1>4, <1>7, <2>1 DEF Greater
  <2>4. Edge(m, new.next_send)
    <3>1. CASE msg.done
      BY <1>4, <2>1, <2>2, <2>3, <3>1
    <3>2. CASE ~msg.done
      BY <1>5, <2>1, <2>2, <3>2
    <3> QED BY <3>1, <3>2
  <2>5. new.done <=> new.next_send = DataLen[m]
    <3> DEFINE sentAll == \/ msg.next_send = DataLen[m]
                          \/ msg.next_send < end /\ end >= DataLen[m]
    <3> HIDE DEF msg, end, m
    <3>1. sentAll <=> new.next_send = DataLen[m]
      BY <1>2, <1>4, <1>7, <2>1, <2>3 DEF Greater
    <3>2. new.done <=> sentAll
      BY <1>7, <2>1, Zenon
    <3> QED BY <3>1, <3>2
  <2>6. DataLen[m] > 0 => new.next_send > 0
    <3> HIDE DEF msg, end, m
    <3> QED BY <1>2, <1>4, <2>1, <2>3, <1>7, <2>2
  <2> HIDE DEF msg, end, m
  <2> QED BY <1>7, <2>3, <2>4, <2>5, <2>6, Zenon DEF GoodSending
<1>9. /\ DOMAIN out' = DOMAIN out /\ out'[m] = new
      /\ \A n \in DOMAIN out : n # m => out'[n] = out[n]
  BY <1>2, <1>6
<1>10. SenderAdvances
  <2>1. msg.done => new.done
    BY <1>7
  <2> QED BY <1>6, <1>8, <1>9, <2>1 DEF SenderAdvances, BooksOK, TypeOK, SendingOK, OutMsg
<1>11. \A n \in DOMAIN out' : GoodSending(n, out'[n])
  BY <1>8, <1>9 DEF GridInv
<1>12. \A q \in net' \ net : GoodPacket(q)'
  <2> TAKE q \in net' \ net
  <2> DEFINE to == new.next_send
  <2>1. PICK off \in ResendStart(p) .. end - 1 : q = Chunk(m, off)
    BY <1>6
  <2>2. to \in Nat /\ Edge(m, to) /\ off \in 0 .. to - 1
    BY <1>4, <1>8, <2>1 DEF GoodSending, Edge, OutMsg
  <2>3. m \in started' /\ out'[m].next_send = to
    BY <1>2, <1>6, <1>9
  <2> HIDE DEF to
  <2>4. GoodPacket(Chunk(m, off))'
    BY <1>2, <2>2, <2>3, ChunkGood
  <2> QED BY <2>1, <2>4
<1> QED BY <1>6, <1>10, <1>11, <1>12, SenderStep

LEMMA TickSenderGrid ==
  ASSUME Aligned, BooksOK, BooksOK', GridInv, TickSender
  PROVE  GridInv'
<1>1. PICK lingered \in SUBSET DOMAIN out, stalled \in SUBSET DOMAIN out :
        SenderTick(lingered, stalled) /\ UNCHANGED <<started, timedOut, receiverVars>>
  BY DEF TickSender
<1>2. /\ out' = [k \in DOMAIN out \ lingered |-> out[k]]
      /\ net' = net \cup {Probe(m) : m \in stalled}
      /\ stalled \subseteq DOMAIN out \ Finished /\ lingered \subseteq Finished
  BY <1>1 DEF SenderTick, Drop, Emit
<1>3. SenderAdvances
  BY <1>1, <1>2 DEF SenderAdvances, BooksOK, TypeOK, SendingOK, OutMsg
<1>4. \A n \in DOMAIN out' : GoodSending(n, out'[n])
  BY <1>2 DEF GridInv
<1>5. \A q \in net' \ net : GoodPacket(q)'
  <2> TAKE q \in net' \ net
  <2>1. PICK m \in stalled : q = Probe(m)
    BY <1>2
  <2>2. /\ m \in Msgs /\ m \in started' /\ m \in DOMAIN out /\ ~out[m].done
        /\ out'[m] = out[m] /\ GoodSending(m, out[m])
    BY <1>1, <1>2, <2>1 DEF Finished, GridInv, BooksOK, TypeOK
  <2>3. PICK to : to = out[m].next_send
    OBVIOUS
  <2>4. DataLen[m] \in Nat /\ to \in Nat /\ Edge(m, to) /\ to > 0
    BY <2>2, <2>3, WireAssumption DEF GoodSending, Edge, OutMsg
  <2>5. to - 1 \in 0 .. to - 1 /\ Probe(m) = Chunk(m, to - 1)
    BY <2>3, <2>4 DEF Probe
  <2>6. GoodPacket(Chunk(m, to - 1))'
    BY <2>2, <2>3, <2>4, <2>5, ChunkGood
  <2> QED BY <2>1, <2>5, <2>6
<1> QED BY <1>1, <1>3, <1>4, <1>5, SenderStep

-----------------------------------------------------------------------------
\* The receiver's half: handle_data, schedule and tick keep the invariant.

(***************************************************************************)
(* A step of the receiver keeps the grid if what it leaves in reassembly,  *)
(* sends and delivers is good: the sender's books do not move.             *)
(***************************************************************************)
LEMMA ReceiverStep ==
  ASSUME BooksOK, GridInv, UNCHANGED senderSide,
         \A m \in DOMAIN incoming' :
           GoodReceiving(m, incoming'[m]) /\ ~Complete(incoming'[m]),
         \A p \in net' \ net : GoodPacket(p),
         \A i \in DOMAIN inbox' : GoodDelivery(inbox'[i])
  PROVE  GridInv'
<1>1. out' = out /\ started' = started
  BY DEF senderSide
<1>2. \A m : SentAll(m)' <=> SentAll(m)
  BY <1>1 DEF SentAll, IsDone
<1>3. (\A m \in DOMAIN out : GoodSending(m, out[m]))'
  BY <1>1 DEF GridInv, GoodSending
<1>4. (\A p \in net : GoodPacket(p))'
  <2> SUFFICES ASSUME NEW p \in net' PROVE GoodPacket(p)'
    OBVIOUS
  <2>1. GoodPacket(p)
    BY DEF GridInv
  <2> QED BY <1>1, <1>2, <2>1 DEF GoodPacket, GoodData, GoodControl
<1>5. (\A m \in DOMAIN incoming : GoodReceiving(m, incoming[m]) /\ ~Complete(incoming[m]))'
  <2> SUFFICES ASSUME NEW m \in DOMAIN incoming'
               PROVE  GoodReceiving(m, incoming[m])' /\ ~Complete(incoming[m])'
    OBVIOUS
  <2> QED BY <1>1, <1>2 DEF GoodReceiving, Complete
<1>6. (\A i \in DOMAIN inbox : GoodDelivery(inbox[i]))'
  <2> SUFFICES ASSUME NEW i \in DOMAIN inbox' PROVE GoodDelivery(inbox[i])'
    OBVIOUS
  <2> QED BY <1>2 DEF GoodDelivery
<1> QED BY <1>3, <1>4, <1>5, <1>6 DEF GridInv

-----------------------------------------------------------------------------
(***************************************************************************)
(* Slots and the bytes they hold.                                          *)
(***************************************************************************)
\* Every byte of a message has a slot in the bitmap.
LEMMA SlotInBitmap ==
  ASSUME NEW n \in Nat, NEW b \in 0 .. n - 1
  PROVE  b \div PacketSize \in 0 .. Chunks(n) - 1
<1> DEFINE c == (n + PacketSize - 1) \div PacketSize
           k == b \div PacketSize
<1>1. PacketSize \in Nat \ {0} /\ b \in Nat /\ n + PacketSize - 1 \in Nat
  BY ReceiverConstants
<1>2. /\ c \in Nat /\ n + PacketSize - 1 < c * PacketSize + PacketSize
      /\ k \in Nat /\ k * PacketSize <= b
      /\ c * PacketSize \in Nat
  BY <1>1, DivBounds
<1>3. Chunks(n) = Greater(c, 1)
  BY DEF Chunks
<1> HIDE DEF c, k
<1>4. k < c
  <2> SUFFICES ASSUME c <= k PROVE FALSE
    BY <1>2
  <2>1. c * PacketSize <= k * PacketSize /\ k * PacketSize \in Nat
    BY <1>1, <1>2, MulMono
  <2> QED BY <1>1, <1>2, <2>1
<1>5. k \in 0 .. Chunks(n) - 1
  BY <1>2, <1>3, <1>4 DEF Greater
<1> QED BY <1>5 DEF k

\* The bytes of a slot are those of the fragment that starts there.
LEMMA SlotSpan ==
  ASSUME NEW n \in Nat, NEW off \in Nat, off < n, OnGrid(off),
         NEW length, length = Lesser(PacketSize, n - off)
  PROVE  /\ length \in Nat /\ length > 0 /\ off + length <= n
         /\ off .. off + length - 1
              = {b \in 0 .. n - 1 : b \div PacketSize = off \div PacketSize}
<1> DEFINE k == off \div PacketSize
<1>1. /\ PacketSize \in Nat \ {0}
      /\ k \in Nat /\ k * PacketSize = off
  BY ReceiverConstants, GridSlot, DivBounds
<1>2. length \in Nat /\ length > 0 /\ off + length <= n /\ length <= PacketSize
      /\ (off + PacketSize < n => length = PacketSize)
      /\ (off + PacketSize >= n => off + length = n)
  BY <1>1 DEF Lesser
<1> HIDE DEF k
<1>3. ASSUME NEW b \in off .. off + length - 1
      PROVE  b \in 0 .. n - 1 /\ b \div PacketSize = k
  <2>1. b \in Nat /\ b < n /\ k * PacketSize <= b /\ b < k * PacketSize + PacketSize
    BY <1>1, <1>2
  <2>2. b \div PacketSize = k
    BY <1>1, <2>1, DivUnique
  <2> QED BY <2>1, <2>2
<1>4. ASSUME NEW b \in 0 .. n - 1, b \div PacketSize = k
      PROVE  b \in off .. off + length - 1
  <2>1. k * PacketSize <= b /\ b < k * PacketSize + PacketSize
    BY <1>1, <1>4, DivBounds
  <2> QED BY <1>1, <1>2, <2>1
<1> QED BY <1>2, <1>3, <1>4 DEF k

\* A message all of whose bytes have arrived has been sent to its end.
LEMMA CompleteIsGood ==
  ASSUME GridInv, BooksOK, NEW m, NEW msg, GoodReceiving(m, msg), msg.buf = 0 .. DataLen[m] - 1
  PROVE  SentAll(m)
<1>0. m \in started /\ m \in Msgs /\ DataLen[m] > 0
  BY DEF GoodReceiving, BooksOK, TypeOK
<1>1. DataLen[m] \in Nat /\ DataLen[m] - 1 \in msg.buf
  BY <1>0, WireAssumption
<1>2. ASSUME m \in DOMAIN out PROVE out[m].done
  <2>1. DataLen[m] - 1 < out[m].next_send
    BY <1>1, <1>2 DEF GoodReceiving
  <2>2. out[m].next_send \in 0 .. DataLen[m] /\ (out[m].done <=> out[m].next_send = DataLen[m])
    BY <1>2 DEF GridInv, GoodSending, Edge
  <2> QED BY <1>1, <2>1, <2>2
<1> QED BY <1>0, <1>2 DEF SentAll, IsDone

LEMMA CompleteIsWhole ==
  ASSUME NEW m \in Msgs, NEW msg, GoodReceiving(m, msg)
  PROVE  Complete(msg) <=> msg.buf = 0 .. DataLen[m] - 1
<1>1. /\ DataLen[m] \in Nat /\ DataLen[m] > 0
      /\ msg.total_len = DataLen[m] /\ msg.received_bytes = Cardinality(msg.buf)
      /\ msg.buf \in SUBSET (0 .. DataLen[m] - 1)
  BY WireAssumption DEF GoodReceiving
<1>2. IsFiniteSet(0 .. DataLen[m] - 1) /\ Cardinality(0 .. DataLen[m] - 1) = DataLen[m]
  <2>1. 0 \in Int /\ DataLen[m] - 1 \in Int
    BY <1>1
  <2>2. /\ IsFiniteSet(0 .. DataLen[m] - 1)
        /\ Cardinality(0 .. DataLen[m] - 1)
             = IF 0 > DataLen[m] - 1 THEN 0 ELSE (DataLen[m] - 1) - 0 + 1
    BY <2>1, FS_Interval
  <2> QED BY <1>1, <2>2
<1>3. Cardinality(0 .. DataLen[m] - 1) = Cardinality(msg.buf) => msg.buf = 0 .. DataLen[m] - 1
  BY <1>1, <1>2, FS_Subset
<1> QED BY <1>1, <1>2, <1>3 DEF Complete

\* A message with a full bitmap has all its bytes.
LEMMA FullIsComplete ==
  ASSUME NEW m \in Msgs, NEW msg, GoodReceiving(m, msg), Missing(msg) = {}
  PROVE  Complete(msg)
<1>1. /\ DataLen[m] \in Nat
      /\ msg.total_len = DataLen[m]
      /\ msg.buf = {b \in 0 .. DataLen[m] - 1 : b \div PacketSize \in msg.received}
  BY WireAssumption DEF GoodReceiving
<1>2. \A b \in 0 .. DataLen[m] - 1 : b \div PacketSize \in msg.received
  BY <1>1, SlotInBitmap DEF Missing
<1>3. msg.buf = 0 .. DataLen[m] - 1
  BY <1>1, <1>2
<1> QED BY <1>3, CompleteIsWhole

-----------------------------------------------------------------------------
(***************************************************************************)
(* handle_data.                                                            *)
(***************************************************************************)
LEMMA NewInMsgGood ==
  ASSUME Aligned, NEW m \in Msgs, m \in started, DataLen[m] > 0
  PROVE  GoodReceiving(m, NewInMsg(DataLen[m]))
<1> DEFINE msg == NewInMsg(DataLen[m])
<1>1. /\ DataLen[m] \in Nat /\ UnscheduledBytes \in Nat /\ OnGrid(UnscheduledBytes)
  BY WireAssumption DEF Aligned
<1>2. msg = [total_len |-> DataLen[m], buf |-> {}, received |-> {}, received_bytes |-> 0,
             granted_to |-> Lesser(UnscheduledBytes, DataLen[m]), unanswered |-> 0]
  BY DEF NewInMsg
<1>3. /\ Lesser(UnscheduledBytes, DataLen[m]) \in Nat
      /\ Lesser(UnscheduledBytes, DataLen[m]) <= DataLen[m]
      /\ Edge(m, Lesser(UnscheduledBytes, DataLen[m]))
  BY <1>1 DEF Lesser, Edge
<1>4. OnGrid(0)
  BY ReceiverConstants DEF OnGrid
<1>5. Cardinality({}) = 0
  BY FS_EmptySet
<1>6. msg \in InMsg
  BY <1>1, <1>2, <1>3 DEF InMsg
<1> HIDE DEF msg
<1>7. /\ msg.total_len = DataLen[m] /\ msg.buf = {} /\ msg.received = {}
      /\ msg.received_bytes = 0
      /\ msg.granted_to = Lesser(UnscheduledBytes, DataLen[m])
  BY <1>2
<1> QED BY <1>3, <1>4, <1>5, <1>6, <1>7 DEF GoodReceiving, msg

LEMMA WriteGood ==
  ASSUME Aligned, BooksOK, GridInv, NEW p \in net, p \in DataPacket, GoodData(p),
         NEW msg, GoodReceiving(p.msg_id, msg), Fits(p, msg)
  PROVE  GoodReceiving(p.msg_id, Write(p, msg))
<1> DEFINE m    == p.msg_id
           L    == DataLen[m]
           idx  == p.offset \div PacketSize
           span == p.offset .. p.offset + p.length - 1
           new  == Write(p, msg)
<1>1. /\ m \in Msgs /\ m \in started /\ L \in Nat /\ p.offset \in Nat
      /\ p.offset < L /\ OnGrid(p.offset) /\ p.source = p.offset
      /\ p.length = Lesser(PacketSize, L - p.offset)
      /\ m \in DOMAIN out => p.offset + p.length <= out[m].next_send
  BY WireAssumption DEF GoodData, DataPacket
<1>2. /\ p.length \in Nat /\ p.length > 0 /\ p.offset + p.length <= L
      /\ span = {b \in 0 .. L - 1 : b \div PacketSize = idx}
  BY <1>1, SlotSpan
<1>3. /\ msg \in InMsg /\ msg.total_len = L
      /\ msg.received \subseteq 0 .. Chunks(L) - 1
      /\ msg.buf = {b \in 0 .. L - 1 : b \div PacketSize \in msg.received}
      /\ msg.received_bytes = Cardinality(msg.buf)
      /\ msg.received_bytes \in Nat
      /\ msg.granted_to <= L
      /\ SentAll(m) \/ (Edge(m, msg.granted_to) /\ OnGrid(msg.received_bytes))
      /\ m \in DOMAIN out => \A b \in msg.buf : b < out[m].next_send
  BY DEF GoodReceiving, InMsg
<1>4. idx \in 0 .. Chunks(L) - 1 /\ idx \notin msg.received /\ idx \in Nat
  BY <1>1, <1>3, DivBounds, ReceiverConstants DEF Fits, Missing
<1>5. /\ new.total_len = L
      /\ new.buf = (msg.buf \ span) \cup span
      /\ new.received = msg.received \cup {idx}
      /\ new.received_bytes = msg.received_bytes + p.length
      /\ new.granted_to = msg.granted_to
  BY <1>1, <1>3 DEF Write
<1>6. new \in InMsg
  <2>1. span \subseteq Nat
    BY <1>2
  <2>2. (msg.buf \ span) \cup span \subseteq Nat /\ msg.received \cup {idx} \subseteq Nat
    BY <1>3, <1>4, <2>1 DEF InMsg
  <2>3. msg.received_bytes + p.length \in Nat /\ msg.total_len \in Nat /\ msg.granted_to \in Nat
    BY <1>2, <1>3 DEF InMsg
  <2>4. new = [total_len |-> msg.total_len, buf |-> (msg.buf \ span) \cup span,
               received |-> msg.received \cup {idx},
               received_bytes |-> msg.received_bytes + p.length,
               granted_to |-> msg.granted_to, unanswered |-> 0]
    BY <1>1 DEF Write
  <2> HIDE DEF new, span, idx
  <2> QED BY <2>2, <2>3, <2>4 DEF InMsg
<1> HIDE DEF new
<1>7. new.buf = {b \in 0 .. L - 1 : b \div PacketSize \in new.received}
  <2> HIDE DEF span, idx, L
  <2> QED BY <1>2, <1>3, <1>5
<1>8. new.received_bytes = Cardinality(new.buf)
  <2>1. /\ msg.buf \in SUBSET (0 .. L - 1)
        /\ IsFiniteSet(0 .. L - 1)
    <3>1. 0 \in Int /\ L - 1 \in Int
      BY <1>1
    <3>2. IsFiniteSet(0 .. L - 1)
      BY <3>1, FS_Interval
    <3> QED BY <1>3, <3>2
  <2>2. IsFiniteSet(msg.buf)
    BY <2>1, FS_Subset
  <2>3. IsFiniteSet(span) /\ Cardinality(span) = p.length
    <3>1. p.offset \in Int /\ p.offset + p.length - 1 \in Int
      BY <1>1, <1>2
    <3>2. /\ IsFiniteSet(span)
          /\ Cardinality(span) = IF p.offset > p.offset + p.length - 1 THEN 0
                                 ELSE (p.offset + p.length - 1) - p.offset + 1
      BY <3>1, FS_Interval
    <3> QED BY <1>1, <1>2, <3>2
  <2> HIDE DEF span, idx, L
  <2>4. msg.buf \cap span = {} /\ new.buf = msg.buf \cup span
    BY <1>2, <1>3, <1>4, <1>5
  <2>5. Cardinality(msg.buf \cup span)
          = Cardinality(msg.buf) + Cardinality(span) - Cardinality(msg.buf \cap span)
    BY <2>2, <2>3, FS_Union
  <2>6. Cardinality({}) = 0
    BY FS_EmptySet
  <2>7. Cardinality(msg.buf \cap span) = 0
    BY <2>4, <2>6
  <2>8. Cardinality(new.buf) = msg.received_bytes + p.length - 0
    BY <1>3, <2>3, <2>4, <2>5, <2>7, Zenon
  <2> QED BY <1>2, <1>3, <1>5, <2>8
<1>9. SentAll(m) \/ (Edge(m, new.granted_to) /\ OnGrid(new.received_bytes))
  <2> SUFFICES ASSUME ~SentAll(m)
               PROVE  Edge(m, new.granted_to) /\ OnGrid(new.received_bytes)
    OBVIOUS
  <2>1. m \in DOMAIN out /\ ~out[m].done
    BY <1>1 DEF SentAll, IsDone
  <2>2. out[m].next_send \in 0 .. L /\ out[m].next_send # L
    BY <2>1 DEF GridInv, GoodSending, Edge
  <2>3. p.length = PacketSize
    BY <1>1, <1>2, <2>1, <2>2, ReceiverConstants DEF Lesser
  <2>4. OnGrid(PacketSize)
    BY ReceiverConstants DEF OnGrid
  <2>5. OnGrid(new.received_bytes)
    BY <1>3, <1>5, <2>3, <2>4, GridSum, ReceiverConstants
  <2> QED BY <1>3, <1>5, <2>5
<1>10. ASSUME m \in DOMAIN out, NEW b \in new.buf
       PROVE  b < out[m].next_send
  <2>1. out[m].next_send \in Nat
    BY <1>10 DEF GridInv, GoodSending, OutMsg
  <2>2. CASE b \in span
    BY <1>1, <1>2, <1>10, <2>1, <2>2
  <2>3. CASE b \notin span
    BY <1>3, <1>5, <1>10, <2>3
  <2> QED BY <2>2, <2>3
<1>11. new.received \subseteq 0 .. Chunks(L) - 1
  BY <1>3, <1>4, <1>5
<1>12. L > 0
  BY <1>1
<1> HIDE DEF span, idx
<1> QED BY <1>1, <1>3, <1>5, <1>6, <1>7, <1>8, <1>9, <1>10, <1>11, <1>12 DEF GoodReceiving, new

LEMMA AbsorbGood ==
  ASSUME Aligned, BooksOK, GridInv, NEW p \in net, p.type = "DATA"
  PROVE  /\ p.msg_id \in Msgs /\ p.msg_len # 0
         /\ GoodReceiving(p.msg_id, Absorb(p))
<1> DEFINE m == p.msg_id
<1>1. p \in DataPacket /\ GoodData(p) /\ m \in Msgs
  BY DEF BooksOK, TypeOK, Packet, DataPacket, GrantPacket, ResendPacket, BusyPacket,
         GridInv, GoodPacket
<1>2. /\ m \in started /\ p.msg_len = DataLen[m] /\ DataLen[m] > 0
      /\ DataLen[m] \in Nat
  BY <1>1, WireAssumption DEF GoodData, DataPacket
<1>3. GoodReceiving(m, Current(p))
  <2>1. CASE m \in DOMAIN incoming
    BY <2>1 DEF Current, GridInv
  <2>2. CASE m \notin DOMAIN incoming
    BY <1>1, <1>2, <2>2, NewInMsgGood DEF Current
  <2> QED BY <2>1, <2>2
<1>4. CASE Fits(p, Current(p))
  BY <1>1, <1>2, <1>3, <1>4, WriteGood DEF Absorb
<1>5. CASE ~Fits(p, Current(p))
  BY <1>1, <1>2, <1>3, <1>5 DEF Absorb
<1> QED BY <1>4, <1>5

-----------------------------------------------------------------------------
(***************************************************************************)
(* The grant scheduler.                                                    *)
(***************************************************************************)
LEMMA IssueGrantGood ==
  ASSUME Aligned, NEW m \in Msgs, NEW msg, GoodReceiving(m, msg), NEW force \in BOOLEAN
  PROVE  /\ GoodPacket(Grant(m, GrantTarget(msg)))
         /\ GoodReceiving(m, IssueGrant(msg, force))
         /\ Complete(IssueGrant(msg, force)) <=> Complete(msg)
<1> DEFINE to == GrantTarget(msg)
<1>1. /\ msg \in InMsg /\ DataLen[m] \in Nat /\ m \in started
      /\ msg.total_len = DataLen[m]
      /\ msg.received_bytes \in Nat /\ msg.granted_to \in Nat
      /\ msg.granted_to <= DataLen[m]
      /\ SentAll(m) \/ (Edge(m, msg.granted_to) /\ OnGrid(msg.received_bytes))
      /\ GrantIncrement \in Nat /\ OnGrid(GrantIncrement)
  BY WireAssumption, ReceiverConstants DEF GoodReceiving, InMsg, Aligned
<1>2. to \in Nat /\ to <= DataLen[m]
  BY <1>1 DEF GrantTarget, Lesser, Greater
<1>3. SentAll(m) \/ Edge(m, to)
  <2> SUFFICES ASSUME ~SentAll(m) PROVE Edge(m, to)
    OBVIOUS
  <2>1. OnGrid(msg.received_bytes + GrantIncrement)
    BY <1>1, GridSum
  <2>2. Edge(m, Lesser(msg.received_bytes + GrantIncrement, DataLen[m]))
    BY <1>1, <2>1 DEF Lesser, Edge
  <2> QED BY <1>1, <2>2 DEF GrantTarget, Greater
<1> HIDE DEF to
<1>4. GoodPacket(Grant(m, to))
  BY <1>1, <1>3 DEF GoodPacket, GoodControl, Grant
<1>5. CASE IssuesGrant(msg, force)
  <2> DEFINE new == [msg EXCEPT !.granted_to = to]
  <2>1. IssueGrant(msg, force) = new
    BY <1>5 DEF IssueGrant, to
  <2>2. /\ new \in InMsg /\ new.total_len = msg.total_len /\ new.buf = msg.buf
        /\ new.received = msg.received /\ new.received_bytes = msg.received_bytes
        /\ new.granted_to = to
    BY <1>1, <1>2 DEF InMsg
  <2> HIDE DEF new
  <2>3. GoodReceiving(m, new)
    BY <1>1, <1>2, <1>3, <2>2 DEF GoodReceiving
  <2> QED BY <1>4, <2>1, <2>2, <2>3 DEF Complete, to
<1>6. CASE ~IssuesGrant(msg, force)
  BY <1>4, <1>6 DEF IssueGrant, to
<1> QED BY <1>5, <1>6

LEMMA ScheduleGood ==
  ASSUME Aligned, NEW msgs, NEW starved, NEW underWay, DOMAIN msgs \subseteq Msgs,
         \A m \in DOMAIN msgs : GoodReceiving(m, msgs[m]) /\ ~Complete(msgs[m]),
         \A p \in underWay \ net : GoodPacket(p),
         Schedule(msgs, starved, underWay)
  PROVE  /\ \A m \in DOMAIN incoming' :
              GoodReceiving(m, incoming'[m]) /\ ~Complete(incoming'[m])
         /\ \A p \in net' \ net : GoodPacket(p)
<1>1. PICK chosen \in SUBSET Candidates(msgs) :
        LET selected == chosen \cup (starved \cap Candidates(msgs))
        IN  /\ IsShortest(chosen, msgs)
            /\ granting' = selected
            /\ incoming' = [m \in DOMAIN msgs |->
                              IF m \in selected THEN IssueGrant(msgs[m], FALSE) ELSE msgs[m]]
            /\ net' = underWay \cup {Grant(m, GrantTarget(msgs[m])) :
                                        m \in {n \in selected : IssuesGrant(msgs[n], FALSE)}}
  BY DEF Schedule
<1> DEFINE selected == chosen \cup (starved \cap Candidates(msgs))
<1>2. selected \subseteq DOMAIN msgs
  BY DEF Candidates
<1>3. \A m \in DOMAIN msgs :
        /\ GoodPacket(Grant(m, GrantTarget(msgs[m])))
        /\ GoodReceiving(m, IssueGrant(msgs[m], FALSE))
        /\ ~Complete(IssueGrant(msgs[m], FALSE))
  BY IssueGrantGood
<1>4. \A p \in net' \ net : GoodPacket(p)
  BY <1>1, <1>2, <1>3
<1> QED BY <1>1, <1>3, <1>4

LEMMA ResendForGood ==
  ASSUME Aligned, NEW m \in Msgs, m \in DOMAIN incoming, GoodReceiving(m, incoming[m]),
         GapInWindow(incoming[m])
  PROVE  GoodPacket(ResendFor(m))
<1> DEFINE msg == incoming[m]
           off == FirstMissing(msg) * PacketSize
           len == Lesser(msg.granted_to - off, GrantIncrement)
<1>1. /\ msg \in InMsg /\ DataLen[m] \in Nat /\ m \in started
      /\ msg.granted_to \in Nat /\ msg.granted_to <= DataLen[m]
      /\ SentAll(m) \/ Edge(m, msg.granted_to)
      /\ GrantIncrement \in Nat /\ OnGrid(GrantIncrement)
  BY WireAssumption, ReceiverConstants DEF GoodReceiving, InMsg, Aligned
<1>2. Missing(msg) # {} /\ off < msg.granted_to
  BY DEF GapInWindow
<1>3. FirstMissing(msg) \in Nat /\ off \in Nat
  BY <1>1, <1>2, FirstMissingType
<1>4. OnGrid(off)
  BY <1>3, GridPoint
<1> HIDE DEF off, msg
<1>5. SentAll(m) \/ Edge(m, off + len)
  <2>1. CASE len = GrantIncrement
    <3>1. OnGrid(off + len)
      BY <1>1, <1>3, <1>4, <2>1, GridSum
    <3>2. off + len \in Nat /\ off + len <= DataLen[m]
      BY <1>1, <1>2, <1>3, <2>1 DEF Lesser
    <3> QED BY <1>1, <3>1, <3>2 DEF Edge
  <2>2. CASE len = msg.granted_to - off
    BY <1>1, <1>3, <2>2
  <2> QED BY <2>1, <2>2 DEF Lesser
<1> HIDE DEF len
<1>6. ResendFor(m) = Resend(m, off, len)
  BY DEF ResendFor, off, len, msg
<1> QED BY <1>1, <1>5, <1>6 DEF GoodPacket, GoodControl, Resend

-----------------------------------------------------------------------------
(***************************************************************************)
(* Both halves together.                                                   *)
(***************************************************************************)
LEMMA GridInit == Init => GridInv
<1> SUFFICES ASSUME Init PROVE GridInv
  OBVIOUS
<1>1. net = {} /\ DOMAIN out = {} /\ DOMAIN incoming = {} /\ inbox = <<>>
  BY DEF Init, SenderInit, ReceiverInit, EmptyMap
<1> QED BY <1>1 DEF GridInv

LEMMA RecvDataGrid ==
  ASSUME Aligned, BooksOK, GridInv, NEW p \in net, RecvData(p)
  PROVE  GridInv'
<1> DEFINE m   == p.msg_id
           msg == Absorb(p)
<1>1. p.type = "DATA" /\ UNCHANGED senderSide
  BY DEF RecvData
<1>2. m \in Msgs /\ p.msg_len # 0 /\ GoodReceiving(m, msg) /\ m \in started
  BY <1>1, AbsorbGood DEF GoodReceiving
<1>3. CASE RefuseData(p)
  <2>1. net' \subseteq net \cup {Busy(m)} /\ incoming' = incoming /\ inbox' = inbox
    BY <1>3 DEF RefuseData, Answer, Without, receiverVars
  <2>2. GoodPacket(Busy(m))
    BY <1>2 DEF GoodPacket, GoodControl, Busy
  <2> QED BY <1>1, <2>1, <2>2, ReceiverStep DEF GridInv
<1>4. ASSUME NEW starved \in SUBSET DOMAIN incoming, HandleData(p, starved)
      PROVE  GridInv'
  <2>1. CASE Complete(msg)
    <3> DEFINE msgs == Drop(incoming, {m})
    <3>1. /\ inbox' = Append(inbox, [msg_id |-> m, buf |-> msg.buf])
          /\ Schedule(msgs, starved, Without(p))
      BY <1>2, <1>4, <2>1 DEF HandleData, Deliver
    <3>2. /\ DOMAIN msgs \subseteq Msgs
          /\ \A n \in DOMAIN msgs : GoodReceiving(n, msgs[n]) /\ ~Complete(msgs[n])
      BY DEF BooksOK, TypeOK, GridInv, Drop
    <3>3. /\ \A n \in DOMAIN incoming' :
               GoodReceiving(n, incoming'[n]) /\ ~Complete(incoming'[n])
          /\ \A q \in net' \ net : GoodPacket(q)
      <4>1. Without(p) \subseteq net
        BY DEF Without
      <4> HIDE DEF msgs
      <4> QED BY <3>1, <3>2, <4>1, ScheduleGood
    <3>4. msg.buf = 0 .. DataLen[m] - 1 /\ SentAll(m)
      BY <1>2, <2>1, CompleteIsWhole, CompleteIsGood
    <3>5. \A i \in DOMAIN inbox' : GoodDelivery(inbox'[i])
      <4> DEFINE last == [msg_id |-> m, buf |-> msg.buf]
      <4>1. GoodDelivery(last)
        BY <3>4 DEF GoodDelivery
      <4>2. inbox \in Seq([msg_id : Msgs, buf : SUBSET Nat])
        BY DEF BooksOK, TypeOK
      <4>3. inbox' = Append(inbox, last)
        BY <3>1
      <4> HIDE DEF last
      <4>4. \A i \in DOMAIN inbox' : inbox'[i] = last \/ (i \in DOMAIN inbox /\ inbox'[i] = inbox[i])
        BY <4>2, <4>3
      <4> QED BY <4>1, <4>4 DEF GridInv
    <3> QED BY <1>1, <3>3, <3>5, ReceiverStep
  <2>2. CASE ~Complete(msg)
    <3> DEFINE msgs == Put(incoming, m, msg)
    <3>1. Schedule(msgs, starved, Without(p)) /\ inbox' = inbox
      BY <1>2, <1>4, <2>2 DEF HandleData
    <3>2. /\ DOMAIN msgs \subseteq Msgs
          /\ \A n \in DOMAIN msgs : GoodReceiving(n, msgs[n]) /\ ~Complete(msgs[n])
      BY <1>2, <2>2 DEF BooksOK, TypeOK, GridInv, Put
    <3>3. /\ \A n \in DOMAIN incoming' :
               GoodReceiving(n, incoming'[n]) /\ ~Complete(incoming'[n])
          /\ \A q \in net' \ net : GoodPacket(q)
      <4>1. Without(p) \subseteq net
        BY DEF Without
      <4> HIDE DEF msgs
      <4> QED BY <3>1, <3>2, <4>1, ScheduleGood
    <3> QED BY <1>1, <3>1, <3>3, ReceiverStep DEF GridInv
  <2> QED BY <2>1, <2>2
<1> QED BY <1>3, <1>4 DEF RecvData

LEMMA TickReceiverGrid ==
  ASSUME Aligned, BooksOK, GridInv, TickReceiver
  PROVE  GridInv'
<1>1. PICK stalled \in SUBSET DOMAIN incoming, hung \in SUBSET DOMAIN incoming,
           starved \in SUBSET DOMAIN incoming :
        ReceiverTick(stalled, hung, starved) /\ UNCHANGED senderSide
  BY DEF TickReceiver
<1> DEFINE gaps      == {m \in stalled : GapInWindow(incoming[m])}
           abandoned == {m \in gaps : incoming[m].unanswered >= MaxUnansweredResends}
           regrants  == (hung \cap granting) \ gaps
           ticked    == [m \in DOMAIN incoming \ abandoned |->
                           IF m \in gaps THEN [incoming[m] EXCEPT !.unanswered = @ + 1]
                           ELSE IF m \in regrants THEN IssueGrant(incoming[m], TRUE)
                           ELSE incoming[m]]
           packets   == net \cup {ResendFor(m) : m \in gaps}
                            \cup {Grant(m, GrantTarget(incoming[m])) : m \in regrants}
<1>2. Schedule(ticked, starved \ regrants, packets) /\ UNCHANGED <<completed, inbox>>
  BY <1>1 DEF ReceiverTick
<1>3. \A m \in DOMAIN incoming :
        m \in Msgs /\ GoodReceiving(m, incoming[m]) /\ ~Complete(incoming[m])
  BY DEF BooksOK, TypeOK, GridInv
<1>4. \A q \in packets \ net : GoodPacket(q)
  <2>1. \A m \in gaps : GoodPacket(ResendFor(m))
    BY <1>3, ResendForGood
  <2>2. \A m \in regrants : GoodPacket(Grant(m, GrantTarget(incoming[m])))
    BY <1>3, IssueGrantGood
  <2> QED BY <2>1, <2>2
<1>5. \A m \in DOMAIN ticked : GoodReceiving(m, ticked[m]) /\ ~Complete(ticked[m])
  <2> TAKE m \in DOMAIN ticked
  <2>1. m \in Msgs /\ GoodReceiving(m, incoming[m]) /\ ~Complete(incoming[m])
    BY <1>3
  <2>2. CASE m \in gaps
    <3> DEFINE new == [incoming[m] EXCEPT !.unanswered = @ + 1]
    <3>1. ticked[m] = new
      BY <2>2
    <3>2. incoming[m] \in InMsg
      BY <2>1 DEF GoodReceiving
    <3>3. /\ new \in InMsg /\ new.total_len = incoming[m].total_len
          /\ new.buf = incoming[m].buf /\ new.received = incoming[m].received
          /\ new.received_bytes = incoming[m].received_bytes
          /\ new.granted_to = incoming[m].granted_to
      BY <3>2 DEF InMsg
    <3> HIDE DEF new, ticked
    <3> QED BY <2>1, <3>1, <3>3 DEF GoodReceiving, Complete
  <2>3. CASE m \notin gaps /\ m \in regrants
    <3>1. ticked[m] = IssueGrant(incoming[m], TRUE)
      BY <2>3
    <3>2. /\ GoodReceiving(m, IssueGrant(incoming[m], TRUE))
          /\ Complete(IssueGrant(incoming[m], TRUE)) <=> Complete(incoming[m])
      BY <2>1, IssueGrantGood
    <3> HIDE DEF ticked
    <3> QED BY <2>1, <3>1, <3>2
  <2>4. CASE m \notin gaps /\ m \notin regrants
    <3>1. ticked[m] = incoming[m]
      BY <2>4
    <3> QED BY <2>1, <3>1
  <2> QED BY <2>2, <2>3, <2>4
<1>6. DOMAIN ticked \subseteq Msgs
  BY <1>3
<1> HIDE DEF ticked, packets
<1>7. /\ \A m \in DOMAIN incoming' :
           GoodReceiving(m, incoming'[m]) /\ ~Complete(incoming'[m])
      /\ \A q \in net' \ net : GoodPacket(q)
  BY <1>2, <1>4, <1>5, <1>6, ScheduleGood
<1> QED BY <1>1, <1>2, <1>7, ReceiverStep DEF GridInv

LEMMA GridStep ==
  ASSUME Aligned, BooksOK, BooksOK', GridInv, [Next]_vars
  PROVE  GridInv'
<1>1. ASSUME NEW m \in Msgs, SendTo(m) PROVE GridInv'
  BY <1>1, SendToGrid
<1>2. ASSUME NEW m \in Msgs, TimeOut(m) PROVE GridInv'
  BY <1>2, TimeOutGrid
<1>3. ASSUME NEW p \in net, RecvGrant(p) PROVE GridInv'
  BY <1>3, RecvGrantGrid
<1>4. ASSUME NEW p \in net, RecvResend(p) PROVE GridInv'
  BY <1>4, RecvResendGrid
<1>5. ASSUME NEW p \in net, RecvBusy(p) PROVE GridInv'
  <2>1. net' \subseteq net /\ UNCHANGED <<senderSide, receiverVars>>
    BY <1>5 DEF RecvBusy, HandleBusy, Answer, Without, senderSide
  <2> QED BY <2>1, ReceiverStep DEF GridInv, receiverVars
<1>6. ASSUME NEW p \in net, RecvData(p) PROVE GridInv'
  BY <1>6, RecvDataGrid
<1>7. CASE TickSender
  BY <1>7, TickSenderGrid
<1>8. CASE TickReceiver
  BY <1>8, TickReceiverGrid
<1>9. CASE LosePacket
  <2>1. net' \subseteq net /\ UNCHANGED <<senderSide, receiverVars>>
    BY <1>9 DEF LosePacket, Lose
  <2> QED BY <2>1, ReceiverStep DEF GridInv, receiverVars
<1>10. CASE UNCHANGED vars
  <2>1. UNCHANGED <<net, senderSide, receiverVars>>
    BY <1>10 DEF vars, senderSide, receiverVars
  <2> QED BY <2>1, ReceiverStep DEF GridInv, receiverVars
<1> QED BY <1>1, <1>2, <1>3, <1>4, <1>5, <1>6, <1>7, <1>8, <1>9, <1>10 DEF Next, Receive

-----------------------------------------------------------------------------
\* Sender, network, receiver and inbox agree on the grid in every reachable
\* state of an aligned exchange.
THEOREM GridInvariant == ASSUME Aligned PROVE Spec => []GridInv
<1>1. BooksOK /\ BooksOK' /\ GridInv /\ [Next]_vars => GridInv'
  BY GridStep
<1> QED BY <1>1, GridInit, BooksInvariant, PTL DEF Spec

\* An aligned exchange hands messages up whole or not at all (send_to).
THEOREM DeliveryIsWhole == ASSUME Aligned PROVE Spec => []WholeMessages
<1>1. GridInv => WholeMessages
  BY DEF GridInv, GoodDelivery, WholeMessages
<1> QED BY <1>1, GridInvariant, PTL

\* A delivered message is done at its sender (handle_resend's bookkeeping).
THEOREM DeliveryIsKnown == ASSUME Aligned PROVE Spec => []DeliveredIsDone
<1>1. GridInv => DeliveredIsDone
  BY DEF GridInv, GoodDelivery, SentAll, DeliveredIsDone, Delivered
<1> QED BY <1>1, GridInvariant, PTL

\* Every reassembly has a slot to ask for (handle_data, tick).
THEOREM NothingWedged == ASSUME Aligned PROVE Spec => []NeverWedged
<1>1. BooksOK /\ GridInv => NeverWedged
  <2> SUFFICES ASSUME BooksOK, GridInv, NEW m \in DOMAIN incoming
               PROVE  Missing(incoming[m]) # {}
    BY DEF NeverWedged
  <2> QED BY FullIsComplete DEF BooksOK, TypeOK, GridInv
<1> QED BY <1>1, GridInvariant, BooksInvariant, PTL

(***************************************************************************)
(* A stalled message of the grant set is always repaired by a RESEND: what *)
(* it was granted and has not received begins with a gap.  (With an        *)
(* increment below 2 schedule never grants, and tick does it by force.)    *)
(***************************************************************************)
THEOREM StallsAskForChunks ==
  ASSUME Aligned, GrantIncrement >= 2 PROVE Spec => []GrantedHaveGap
<1>1. BooksOK /\ GridInv /\ NeverWedged /\ GrantSetHasCredit => GrantedHaveGap
  <2> SUFFICES ASSUME BooksOK, GridInv, NeverWedged, GrantSetHasCredit, NEW m \in granting,
                      ~GapInWindow(incoming[m])
               PROVE  FALSE
    BY DEF GrantedHaveGap
  <2> DEFINE msg == incoming[m]
             first == FirstMissing(msg)
  <2>1. m \in Msgs /\ m \in DOMAIN incoming /\ GoodReceiving(m, msg) /\ ~Complete(msg)
    BY DEF BooksOK, TypeOK, GridInv
  <2> HIDE DEF msg
  <2>2. /\ DataLen[m] \in Nat /\ msg \in InMsg /\ msg.total_len = DataLen[m]
        /\ msg.granted_to \in Nat /\ msg.granted_to <= DataLen[m]
        /\ msg.received_bytes = Cardinality(msg.buf)
        /\ msg.buf = {b \in 0 .. DataLen[m] - 1 : b \div PacketSize \in msg.received}
    BY <2>1, WireAssumption DEF GoodReceiving, InMsg
  <2>3. Missing(msg) # {}
    BY <2>1 DEF NeverWedged, msg
  <2>4. /\ first \in Nat /\ first * PacketSize >= msg.granted_to
        /\ \A i \in Missing(msg) : first <= i
    <3>1. first \in Nat /\ \A i \in Missing(msg) : first <= i
      BY <2>2, <2>3, FirstMissingType
    <3>2. first * PacketSize \in Nat
      BY <3>1, ReceiverConstants
    <3>3. ~(first * PacketSize < msg.granted_to)
      BY <2>3 DEF GapInWindow, msg
    <3> QED BY <2>2, <3>1, <3>2, <3>3
  <2> HIDE DEF first
  <2>5. \A b \in 0 .. msg.granted_to - 1 : b \in msg.buf
    <3> SUFFICES ASSUME NEW b \in 0 .. msg.granted_to - 1 PROVE b \div PacketSize \in msg.received
      BY <2>2
    <3>1. /\ b \in 0 .. DataLen[m] - 1 /\ b \div PacketSize \in Nat
          /\ (b \div PacketSize) * PacketSize <= b
      BY <2>2, ReceiverConstants, DivBounds
    <3>2. b \div PacketSize < first
      <4> SUFFICES ASSUME first <= b \div PacketSize PROVE FALSE
        BY <2>4, <3>1
      <4>1. first * PacketSize <= (b \div PacketSize) * PacketSize
        BY <2>4, <3>1, ReceiverConstants, MulMono
      <4> QED BY <2>2, <2>4, <3>1, <4>1, ReceiverConstants, MulMono
    <3>3. b \div PacketSize \notin Missing(msg)
      BY <2>4, <3>1, <3>2
    <3> QED BY <2>1, <2>2, <3>1, <3>3, SlotInBitmap DEF Missing
  <2>6. msg.received_bytes \in Nat /\ msg.received_bytes >= msg.granted_to
    <3>1. 0 \in Int /\ msg.granted_to - 1 \in Int /\ DataLen[m] - 1 \in Int
      BY <2>2
    <3>2. IsFiniteSet(0 .. DataLen[m] - 1) /\ Cardinality(0 .. msg.granted_to - 1) = msg.granted_to
      <4>1. IsFiniteSet(0 .. DataLen[m] - 1)
        BY <3>1, FS_Interval
      <4>2. Cardinality(0 .. msg.granted_to - 1)
              = IF 0 > msg.granted_to - 1 THEN 0 ELSE (msg.granted_to - 1) - 0 + 1
        BY <3>1, FS_Interval
      <4> QED BY <2>2, <4>1, <4>2
    <3>3. IsFiniteSet(msg.buf)
      BY <2>2, <3>2, FS_Subset
    <3>4. 0 .. msg.granted_to - 1 \subseteq msg.buf
      BY <2>5
    <3> QED BY <2>2, <3>2, <3>3, <3>4, FS_Subset, FS_CardinalityType
  <2>7. CASE msg.granted_to = msg.total_len
    <3>1. msg.buf = 0 .. DataLen[m] - 1
      BY <2>2, <2>5, <2>7
    <3> QED BY <2>1, <3>1, CompleteIsWhole
  <2>8. CASE Outstanding(msg) >= GrantIncrement \div 2
    <3>1. Outstanding(msg) = 0
      BY <2>2, <2>6 DEF Outstanding, Greater
    <3>2. GrantIncrement \div 2 >= 1
      BY ReceiverConstants
    <3> QED BY <2>8, <3>1, <3>2, ReceiverConstants
  <2> QED BY <2>7, <2>8 DEF GrantSetHasCredit, msg
<1> QED BY <1>1, GridInvariant, NothingWedged, GrantedHaveCredit, BooksInvariant, PTL

-----------------------------------------------------------------------------
(***************************************************************************)
(* A cache with room for every message: its keys are pairwise different,   *)
(* so it never gets full without holding all of them, and m, whose key is  *)
(* not in it, has not been delivered.                                      *)
(***************************************************************************)
LEMMA FreshDelivery ==
  ASSUME Recent, IsFiniteSet(Msgs), Cardinality(Msgs) <= CompletedCache,
         NEW m \in Msgs, m \notin KeysIn(completed)
  PROVE  \A i \in DOMAIN inbox : inbox[i].msg_id # m
<1> DEFINE slots == 1 .. Len(completed)
           gone  == Len(inbox) - Len(completed)
<1>1. /\ Len(completed) \in Nat /\ DOMAIN completed = slots
      /\ Len(inbox) \in Nat /\ DOMAIN inbox = 1 .. Len(inbox)
  BY DEF Recent
<1>2. CompletedCache \in Nat /\ Len(completed) = Lesser(Len(inbox), CompletedCache)
  BY ReceiverAssumption DEF Recent
<1>3. gone \in Nat /\ \A i \in slots : completed[i] = inbox[gone + i].msg_id
  <2>1. gone \in Nat
    BY <1>1, <1>2 DEF Lesser
  <2>2. \A i \in slots : completed[i] = inbox[gone + i].msg_id
    BY <1>1 DEF Recent
  <2>3. QED
    BY <2>1, <2>2
<1>4. completed \in [slots -> Msgs \ {m}]
  BY <1>1 DEF Recent, KeysIn
<1>5. \A i, j \in slots : i # j => completed[i] # completed[j]
  <2>1. \A i, j \in slots : i < j => completed[i] # completed[j]
    <3> SUFFICES ASSUME NEW i \in slots, NEW j \in slots, i < j, completed[i] = completed[j]
                 PROVE  FALSE
      OBVIOUS
    <3>1. gone + i \in DOMAIN inbox /\ gone + j \in DOMAIN inbox /\ gone + i < gone + j
      BY <1>1, <1>3
    <3>2. (gone + j) - (gone + i) > CompletedCache
      BY <1>3, <3>1 DEF Recent, RedeliveryNeedsEviction
    <3>3. (gone + j) - (gone + i) <= CompletedCache
      BY <1>1, <1>2, <1>3 DEF Lesser
    <3> QED BY <1>1, <1>2, <1>3, <3>2, <3>3
  <2> QED BY <1>1, <2>1
<1>6. Len(completed) < CompletedCache
  <2>1. IsFiniteSet(Msgs \ {m}) /\ Cardinality(Msgs \ {m}) = Cardinality(Msgs) - 1
    BY FS_RemoveElement
  <2>2. IsFiniteSet(slots) /\ Cardinality(slots) = Len(completed)
    <3>1. 1 \in Int /\ Len(completed) \in Int
      BY <1>1
    <3>2. /\ IsFiniteSet(1 .. Len(completed))
          /\ Cardinality(1 .. Len(completed)) =
               IF 1 > Len(completed) THEN 0 ELSE Len(completed) - 1 + 1
      BY <3>1, FS_Interval
    <3> QED BY <1>1, <3>2
  <2>3. Cardinality(Msgs) \in Nat
    BY FS_CardinalityType
  <2>4. ~(Cardinality(Msgs \ {m}) < Cardinality(slots))
    BY <1>4, <1>5, <2>1, <2>2, FS_PigeonHole
  <2> QED BY <1>1, <1>2, <2>1, <2>2, <2>3, <2>4
<1>7. Len(completed) = Len(inbox)
  <2>1. Len(completed) = IF Len(inbox) <= CompletedCache THEN Len(inbox) ELSE CompletedCache
    BY <1>2 DEF Lesser
  <2>2. Len(inbox) <= CompletedCache
    BY <1>1, <1>2, <1>6, <2>1
  <2> QED BY <2>1, <2>2
<1>8. \A i \in DOMAIN inbox : inbox[i].msg_id = completed[i]
  <2>1. \A i \in slots : gone + i = i
    BY <1>1, <1>7
  <2> QED BY <1>1, <1>3, <1>7, <2>1
<1> QED BY <1>1, <1>4, <1>7, <1>8

\* With room for every message in its cache, an aligned exchange is the
\* service its users are promised: whole messages, at most once.
THEOREM ServiceIsImplemented ==
  ASSUME Aligned, IsFiniteSet(Msgs), Cardinality(Msgs) <= CompletedCache
  PROVE  Spec => ImplementsService
<1>1. Init => Service!Init
  BY DEF Init, ReceiverInit, Service!Init
<1>2. BooksOK /\ GridInv' /\ Recent /\ [Next]_vars => [Service!Next]_<<started, inbox>>
  <2> SUFFICES ASSUME BooksOK, GridInv', Recent, [Next]_vars
               PROVE  [Service!Next]_<<started, inbox>>
    OBVIOUS
  <2>1. ASSUME NEW m \in Msgs, m \notin started, started' = started \cup {m}, inbox' = inbox
        PROVE  Service!Next
    BY <2>1 DEF Service!Next, Service!Send
  <2>2. ASSUME NEW m \in Msgs, NEW buf, m \notin KeysIn(completed), Deliver(m, buf),
               started' = started
        PROVE  Service!Next
    <3> DEFINE last == [msg_id |-> m, buf |-> buf]
    <3>1. inbox' = Append(inbox, last)
      BY <2>2 DEF Deliver
    <3>2. GoodDelivery(last)'
      <4>1. Len(inbox) + 1 \in DOMAIN inbox' /\ inbox'[Len(inbox) + 1] = last
        BY <3>1 DEF Recent
      <4> QED BY <4>1 DEF GridInv
    <3>3. m \in started /\ last = [msg_id |-> m, buf |-> 0 .. DataLen[m] - 1]
      BY <2>2, <3>2 DEF GoodDelivery, SentAll
    <3>4. \A i \in DOMAIN inbox : inbox[i].msg_id # m
      BY <2>2, FreshDelivery
    <3> QED BY <2>2, <3>1, <3>3, <3>4 DEF Service!Next, Service!Deliver
  <2> QED BY <2>1, <2>2, VisibleSteps
<1> QED BY <1>1, <1>2, BooksInvariant, GridInvariant, RecentInvariant, PTL
        DEF Spec, ImplementsService, Service!Spec
=============================================================================
