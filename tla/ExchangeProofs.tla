--------------------------- MODULE ExchangeProofs ---------------------------
(***************************************************************************)
(* Properties of Exchange that hold for every value of the constants:      *)
(* types, the two bounds on credit, when a message is delivered again, and *)
(* the grant set.                                                          *)
(***************************************************************************)
EXTENDS Exchange, NatLemmas, SequenceTheorems, FiniteSetTheorems

\* What the books of one message must satisfy for the bounds to be inductive.
SendingOK(m, msg) ==
  /\ msg \in OutMsg
  /\ msg.next_send <= DataLen[m]
  /\ msg.granted_to <= DataLen[m]
  /\ msg.next_send < msg.granted_to + PacketSize

ReceivingOK(msg) ==
  /\ msg \in InMsg
  /\ msg.granted_to <= Greater(UnscheduledBytes, msg.received_bytes + GrantIncrement)

BooksOK ==
  /\ TypeOK
  /\ \A m \in DOMAIN out : SendingOK(m, out[m])
  /\ \A m \in DOMAIN incoming : ReceivingOK(incoming[m])

-----------------------------------------------------------------------------
(***************************************************************************)
(* The fragments that pump and chunk_range cut are packets.                *)
(***************************************************************************)
LEMMA SliceType ==
  ASSUME NEW m \in Msgs, NEW off \in 0 .. DataLen[m]
  PROVE  Slice(m, off) \in DataPacket
<1>1. DataLen[m] \in Nat /\ off \in Nat /\ DataLen[m] - off \in Nat /\ PacketSize \in Nat
  BY WireAssumption
<1>2. AsU32(DataLen[m]) \in Nat /\ AsU32(off) \in Nat
  BY <1>1, WireAssumption DEF AsU32
<1>3. Lesser(PacketSize, DataLen[m] - off) \in Nat
  BY <1>1 DEF Lesser
<1> QED BY <1>1, <1>2, <1>3 DEF Slice, Data, DataPacket

LEMMA ChunkType ==
  ASSUME NEW m \in Msgs, NEW off \in 0 .. DataLen[m]
  PROVE  Chunk(m, off) \in DataPacket
<1>1. PacketSize \in Nat \ {0} /\ DataLen[m] \in Nat /\ off \in Nat
  BY WireAssumption
<1>2. (off \div PacketSize) * PacketSize \in 0 .. DataLen[m]
  BY <1>1, DivBounds
<1> QED BY <1>2, SliceType DEF Chunk

(***************************************************************************)
(* The loop of pump stops less than a packet past its limit.               *)
(***************************************************************************)
LEMMA RoundsBound ==
  ASSUME NEW from \in Nat, NEW to \in Nat
  PROVE  /\ Rounds(from, to) \in Nat
         /\ Rounds(from, to) * PacketSize \in Nat
         /\ from >= to => Rounds(from, to) = 0
         /\ from < to => /\ from + Rounds(from, to) * PacketSize < to + PacketSize
                         /\ to <= from + Rounds(from, to) * PacketSize
         /\ \A i \in 0 .. Rounds(from, to) - 1 :
              /\ i * PacketSize \in Nat
              /\ from + i * PacketSize < to
<1>0. PacketSize \in Nat \ {0}
  BY WireAssumption
<1>1. CASE from >= to
  BY <1>0, <1>1 DEF Rounds
<1>2. CASE from < to
  <2> DEFINE n == to - from + PacketSize - 1
             r == Rounds(from, to)
  <2>1. n \in Nat /\ r = n \div PacketSize
    BY <1>0, <1>2 DEF Rounds
  <2>2. r \in Nat /\ r * PacketSize \in Nat /\ r * PacketSize <= n /\ n < r * PacketSize + PacketSize
    BY <1>0, <2>1, DivBounds
  <2>3. ASSUME NEW i \in 0 .. r - 1
        PROVE  i * PacketSize \in Nat /\ from + i * PacketSize < to
    <3>1. i \in Nat /\ i + 1 \in Nat /\ i + 1 <= r
      BY <2>2
    <3>2. i * PacketSize \in Nat /\ (i + 1) * PacketSize <= r * PacketSize
      BY <1>0, <2>2, <3>1, MulMono
    <3>3. (i + 1) * PacketSize = i * PacketSize + PacketSize
      BY <1>0, <3>1
    <3> QED BY <1>0, <2>2, <3>2, <3>3
  <2> QED BY <1>0, <1>2, <2>2, <2>3
<1> QED BY <1>1, <1>2

LEMMA PumpBooks ==
  ASSUME NEW m \in Msgs, NEW msg, SendingOK(m, msg), NEW limit \in Nat
  PROVE  /\ SendingOK(m, Pump(m, msg, limit))
         /\ PumpSends(m, msg, limit) \subseteq Packet
<1> DEFINE to   == Lesser(limit, DataLen[m])
           r    == Rounds(msg.next_send, to)
           sent == Lesser(msg.next_send + r * PacketSize, DataLen[m])
<1>0. /\ PacketSize \in Nat \ {0}
      /\ DataLen[m] \in Nat
      /\ msg.next_send \in Nat /\ msg.granted_to \in Nat /\ msg.done \in BOOLEAN
      /\ msg.next_send <= DataLen[m]
      /\ msg.granted_to <= DataLen[m]
      /\ msg.next_send < msg.granted_to + PacketSize
  BY WireAssumption DEF SendingOK, OutMsg
<1>1. to \in Nat /\ to <= DataLen[m]
  BY <1>0 DEF Lesser
<1>2. /\ r \in Nat /\ r * PacketSize \in Nat
      /\ msg.next_send >= to => r = 0
      /\ msg.next_send < to => msg.next_send + r * PacketSize < to + PacketSize
      /\ \A i \in 0 .. r - 1 : i * PacketSize \in Nat /\ msg.next_send + i * PacketSize < to
  BY <1>0, <1>1, RoundsBound
<1>3. SendingOK(m, Pump(m, msg, limit))
  <2>1. CASE msg.done
    BY <2>1 DEF Pump
  <2>2. CASE ~msg.done
    <3>1. Pump(m, msg, limit) = [granted_to |-> Greater(msg.granted_to, to),
                                 next_send  |-> sent,
                                 done       |-> sent >= DataLen[m]]
      BY <2>2 DEF Pump
    <3>2. /\ Greater(msg.granted_to, to) \in Nat
          /\ Greater(msg.granted_to, to) <= DataLen[m]
          /\ msg.granted_to <= Greater(msg.granted_to, to)
          /\ to <= Greater(msg.granted_to, to)
      BY <1>0, <1>1 DEF Greater
    <3>3. sent \in Nat /\ sent <= DataLen[m]
      BY <1>0, <1>2 DEF Lesser
    <3>4. sent < Greater(msg.granted_to, to) + PacketSize
      <4>1. CASE msg.next_send >= to
        <5>1. r * PacketSize = 0
          BY <1>0, <1>2, <4>1
        <5> QED BY <1>0, <3>2, <5>1 DEF Lesser
      <4>2. CASE msg.next_send < to
        BY <1>0, <1>1, <1>2, <3>2, <4>2 DEF Lesser
      <4> QED BY <1>0, <1>1, <4>1, <4>2
    <3> QED BY <3>1, <3>2, <3>3, <3>4 DEF SendingOK, OutMsg
  <2> QED BY <1>0, <2>1, <2>2
<1>4. PumpSends(m, msg, limit) \subseteq Packet
  <2> SUFFICES ASSUME NEW i \in 0 .. r - 1
               PROVE  Slice(m, msg.next_send + i * PacketSize) \in Packet
    BY DEF PumpSends
  <2>1. msg.next_send + i * PacketSize \in 0 .. DataLen[m]
    BY <1>0, <1>1, <1>2
  <2> QED BY <2>1, SliceType DEF Packet
<1> QED BY <1>3, <1>4

-----------------------------------------------------------------------------
(***************************************************************************)
(* The receiver's operators.                                               *)
(***************************************************************************)
LEMMA ReceiverConstants ==
  /\ PacketSize \in Nat \ {0}
  /\ UnscheduledBytes \in Nat
  /\ GrantIncrement \in Nat
  /\ MaxUnansweredResends \in Nat
  /\ CompletedCache \in Nat \ {0}
BY WireAssumption, ReceiverAssumption

LEMMA ChunksType ==
  ASSUME NEW n \in Nat
  PROVE  Chunks(n) \in Nat \ {0}
<1>1. (n + PacketSize - 1) \in Nat
  BY ReceiverConstants
<1>2. (n + PacketSize - 1) \div PacketSize \in Nat
  BY <1>1, ReceiverConstants, DivBounds
<1> QED BY <1>2 DEF Chunks, Greater

\* position returns the least index of a free slot.
LEMMA FirstMissingType ==
  ASSUME NEW msg \in InMsg, Missing(msg) # {}
  PROVE  /\ FirstMissing(msg) \in Missing(msg)
         /\ \A j \in Missing(msg) : FirstMissing(msg) <= j
         /\ FirstMissing(msg) \in Nat
         /\ FirstMissing(msg) * PacketSize \in Nat
<1>1. Missing(msg) \subseteq Nat
  BY ChunksType DEF Missing, InMsg
<1>3. \E i \in Missing(msg) : \A j \in Missing(msg) : i <= j
  BY <1>1, LeastNat
<1>4. FirstMissing(msg) \in Missing(msg) /\ \A j \in Missing(msg) : FirstMissing(msg) <= j
  BY <1>3 DEF FirstMissing
<1> QED BY <1>1, <1>4, ReceiverConstants

LEMMA NewInMsgBooks ==
  ASSUME NEW total \in Nat
  PROVE  ReceivingOK(NewInMsg(total))
BY ReceiverConstants DEF ReceivingOK, NewInMsg, InMsg, Lesser, Greater

LEMMA AbsorbBooks ==
  ASSUME NEW p \in DataPacket,
         p.msg_id \in DOMAIN incoming => ReceivingOK(incoming[p.msg_id])
  PROVE  ReceivingOK(Absorb(p))
<1> DEFINE msg  == Current(p)
           span == p.offset .. p.offset + p.length - 1
<1>0. p.offset \in Nat /\ p.length \in Nat /\ p.msg_len \in Nat /\ p.source \in Nat
  BY DEF DataPacket
<1>1. ReceivingOK(msg)
  BY <1>0, NewInMsgBooks DEF Current
<1>2. CASE Fits(p, msg)
  <2>1. Absorb(p) =
          [total_len |-> msg.total_len,
           buf |-> (msg.buf \ span) \cup (IF p.source = p.offset THEN span ELSE {}),
           received |-> msg.received \cup {p.offset \div PacketSize},
           received_bytes |-> msg.received_bytes + p.length,
           granted_to |-> msg.granted_to,
           unanswered |-> 0]
    BY <1>2 DEF Absorb, Write
  <2>2. p.offset \div PacketSize \in Nat /\ span \subseteq Nat
    BY <1>0, ReceiverConstants, DivBounds
  <2>3. Absorb(p) \in InMsg
    BY <1>0, <1>1, <2>1, <2>2 DEF ReceivingOK, InMsg
  <2>4. /\ Absorb(p).granted_to = msg.granted_to
        /\ Absorb(p).received_bytes = msg.received_bytes + p.length
    BY <1>1, <2>1 DEF ReceivingOK, InMsg
  <2> QED BY <1>0, <1>1, <2>3, <2>4, ReceiverConstants DEF ReceivingOK, InMsg, Greater
<1>3. CASE ~Fits(p, msg)
  BY <1>1, <1>3 DEF Absorb
<1> QED BY <1>2, <1>3

LEMMA IssueGrantBooks ==
  ASSUME NEW msg, ReceivingOK(msg), NEW force \in BOOLEAN
  PROVE  /\ GrantTarget(msg) \in Nat
         /\ ReceivingOK(IssueGrant(msg, force))
<1>1. msg \in InMsg /\ msg.granted_to \in Nat /\ msg.received_bytes \in Nat /\ msg.total_len \in Nat
  BY DEF ReceivingOK, InMsg
<1>2. /\ GrantTarget(msg) \in Nat
      /\ GrantTarget(msg) <= Greater(UnscheduledBytes, msg.received_bytes + GrantIncrement)
  BY <1>1, ReceiverConstants DEF ReceivingOK, GrantTarget, Lesser, Greater
<1>3. CASE IssuesGrant(msg, force)
  BY <1>1, <1>2, <1>3 DEF IssueGrant, ReceivingOK, InMsg
<1>4. CASE ~IssuesGrant(msg, force)
  <2>1. IssueGrant(msg, force) = msg
    BY <1>4 DEF IssueGrant
  <2> QED BY <1>2, <2>1
<1> QED BY <1>2, <1>3, <1>4

(***************************************************************************)
(* One run of schedule on messages whose books are in order.               *)
(***************************************************************************)
LEMMA ScheduleBooks ==
  ASSUME NEW msgs, NEW starved, NEW underWay, underWay \subseteq Packet,
         DOMAIN msgs \subseteq Msgs,
         \A m \in DOMAIN msgs : ReceivingOK(msgs[m]),
         Schedule(msgs, starved, underWay)
  PROVE  /\ net' \subseteq Packet
         /\ DOMAIN incoming' = DOMAIN msgs
         /\ \A m \in DOMAIN incoming' : ReceivingOK(incoming'[m])
         /\ granting' \subseteq DOMAIN incoming'
<1>1. PICK chosen \in SUBSET Candidates(msgs) :
        LET selected == chosen \cup (starved \cap Candidates(msgs))
        IN  /\ IsShortest(chosen, msgs)
            /\ granting' = selected
            /\ incoming' = [m \in DOMAIN msgs |->
                              IF m \in selected THEN IssueGrant(msgs[m], FALSE) ELSE msgs[m]]
            /\ net' = underWay \cup {Grant(m, GrantTarget(msgs[m])) :
                                        m \in {n \in selected : IssuesGrant(msgs[n], FALSE)}}
  BY DEF Schedule
<1> DEFINE selected == chosen \cup (starved \cap Candidates(msgs))
<1>2. selected \subseteq DOMAIN msgs
  BY DEF Candidates
<1>3. \A m \in selected : Grant(m, GrantTarget(msgs[m])) \in Packet
  <2> TAKE m \in selected
  <2>1. GrantTarget(msgs[m]) \in Nat
    BY <1>2, IssueGrantBooks
  <2> QED BY <1>2, <2>1 DEF Grant, Packet, GrantPacket
<1>4. net' \subseteq Packet
  BY <1>1, <1>3
<1>5. \A m \in DOMAIN msgs : ReceivingOK(IssueGrant(msgs[m], FALSE))
  BY IssueGrantBooks
<1> QED BY <1>1, <1>2, <1>4, <1>5

-----------------------------------------------------------------------------
(***************************************************************************)
(* The invariant, action by action.                                        *)
(***************************************************************************)
LEMMA BooksInit == Init => BooksOK
<1> SUFFICES ASSUME Init PROVE BooksOK
  OBVIOUS
<1>1. net = {} /\ DOMAIN out = {} /\ DOMAIN incoming = {} /\ granting = {} /\ started = {} /\ timedOut = {}
  BY DEF Init, SenderInit, ReceiverInit, EmptyMap
<1>2. completed = <<>> /\ inbox = <<>>
  BY DEF Init, ReceiverInit
<1>3. completed \in Seq(Msgs) /\ inbox \in Seq([msg_id : Msgs, buf : SUBSET Nat])
  BY <1>2, EmptySeq
<1> QED BY <1>1, <1>3 DEF BooksOK, TypeOK

LEMMA SendToBooks ==
  ASSUME BooksOK, NEW m \in Msgs, SendTo(m)
  PROVE  BooksOK'
<1> DEFINE unscheduled == Lesser(UnscheduledBytes, DataLen[m])
           msg == [granted_to |-> unscheduled, next_send |-> 0, done |-> FALSE]
<1>1. DataLen[m] \in Nat /\ unscheduled \in Nat /\ unscheduled <= DataLen[m]
  BY WireAssumption DEF Lesser
<1>2. SendingOK(m, msg)
  BY <1>1, ReceiverConstants DEF SendingOK, OutMsg
<1>3. /\ SendingOK(m, Pump(m, msg, unscheduled))
      /\ PumpSends(m, msg, unscheduled) \subseteq Packet
  BY <1>1, <1>2, PumpBooks
<1>4. /\ out' = Put(out, m, Pump(m, msg, unscheduled))
      /\ net' = net \cup PumpSends(m, msg, unscheduled)
      /\ started' = started \cup {m}
      /\ UNCHANGED <<timedOut, receiverVars>>
  BY DEF SendTo, Start, Emit
<1>5. /\ DOMAIN out' = DOMAIN out \cup {m}
      /\ \A n \in DOMAIN out' : SendingOK(n, out'[n])
  BY <1>3, <1>4 DEF Put, BooksOK
<1> QED BY <1>3, <1>4, <1>5 DEF BooksOK, TypeOK, SendingOK, receiverVars

LEMMA TimeOutBooks ==
  ASSUME BooksOK, NEW m \in Msgs, TimeOut(m)
  PROVE  BooksOK'
<1>1. /\ out' = [k \in DOMAIN out \ {m} |-> out[k]]
      /\ m \in started /\ timedOut' = timedOut \cup {m}
      /\ UNCHANGED <<net, started, receiverVars>>
  BY DEF TimeOut, Finish, Drop
<1> QED BY <1>1 DEF BooksOK, TypeOK, receiverVars

LEMMA RecvGrantBooks ==
  ASSUME BooksOK, NEW p \in net, RecvGrant(p)
  PROVE  BooksOK'
<1> DEFINE m     == p.msg_id
           limit == Lesser(p.offset, DataLen[m])
<1>1. p \in GrantPacket
  BY DEF RecvGrant, BooksOK, TypeOK, Packet, DataPacket, ResendPacket, BusyPacket
<1>2. m \in DOMAIN out /\ m \in Msgs /\ SendingOK(m, out[m])
  BY DEF RecvGrant, HandleGrant, BooksOK, TypeOK
<1>3. limit \in Nat
  BY <1>1, <1>2, WireAssumption DEF GrantPacket, Lesser
<1>4. /\ SendingOK(m, Pump(m, out[m], limit))
      /\ PumpSends(m, out[m], limit) \subseteq Packet
  BY <1>2, <1>3, PumpBooks
<1>5. /\ out' = [out EXCEPT ![m] = Pump(m, out[m], limit)]
      /\ net' \subseteq net \cup PumpSends(m, out[m], limit)
      /\ UNCHANGED <<started, timedOut, receiverVars>>
  BY DEF RecvGrant, HandleGrant, Answer, Without
<1>6. DOMAIN out' = DOMAIN out /\ \A n \in DOMAIN out' : SendingOK(n, out'[n])
  BY <1>2, <1>4, <1>5 DEF BooksOK
<1> QED BY <1>4, <1>5, <1>6 DEF BooksOK, TypeOK, SendingOK, receiverVars

LEMMA RecvResendBooks ==
  ASSUME BooksOK, NEW p \in net, RecvResend(p)
  PROVE  BooksOK'
<1> DEFINE m     == p.msg_id
           msg   == Catchup(m, out[m], ResendEnd(p))
<1>1. p \in ResendPacket
  BY DEF RecvResend, BooksOK, TypeOK, Packet, DataPacket, GrantPacket, BusyPacket
<1>2. m \in DOMAIN out /\ m \in Msgs /\ SendingOK(m, out[m]) /\ DataLen[m] \in Nat
  BY WireAssumption DEF RecvResend, HandleResend, BooksOK, TypeOK
<1>3. ResendStart(p) \in Nat /\ ResendEnd(p) \in Nat /\ ResendEnd(p) <= DataLen[m]
  BY <1>1, <1>2 DEF ResendPacket, ResendStart, ResendEnd, Lesser
<1>4. SendingOK(m, msg)
  BY <1>2, <1>3, ReceiverConstants DEF SendingOK, OutMsg, Catchup, Greater
<1>5. \A off \in ResendStart(p) .. ResendEnd(p) - 1 : Chunk(m, off) \in Packet
  BY <1>2, <1>3, ChunkType DEF Packet
<1>6. /\ out' = [out EXCEPT ![m] = msg]
      /\ net' \subseteq net \cup {Chunk(m, off) : off \in ResendStart(p) .. ResendEnd(p) - 1}
      /\ UNCHANGED <<started, timedOut, receiverVars>>
  BY DEF RecvResend, HandleResend, Answer, Without
<1>7. DOMAIN out' = DOMAIN out /\ \A n \in DOMAIN out' : SendingOK(n, out'[n])
  BY <1>2, <1>4, <1>6 DEF BooksOK
<1>8. net' \subseteq Packet
  BY <1>5, <1>6 DEF BooksOK, TypeOK
<1> QED BY <1>6, <1>7, <1>8 DEF BooksOK, TypeOK, SendingOK, receiverVars

LEMMA TickSenderBooks ==
  ASSUME BooksOK, TickSender
  PROVE  BooksOK'
<1>1. PICK lingered \in SUBSET DOMAIN out, stalled \in SUBSET DOMAIN out :
        SenderTick(lingered, stalled) /\ UNCHANGED <<started, timedOut, receiverVars>>
  BY DEF TickSender
<1>2. \A m \in stalled : Probe(m) \in Packet
  <2> TAKE m \in stalled
  <2>1. m \in Msgs /\ SendingOK(m, out[m]) /\ DataLen[m] \in Nat
    BY WireAssumption DEF BooksOK, TypeOK
  <2>2. (IF out[m].next_send = 0 THEN 0 ELSE out[m].next_send - 1) \in 0 .. DataLen[m]
    BY <2>1 DEF SendingOK, OutMsg
  <2> QED BY <2>1, <2>2, ChunkType DEF Probe, Packet
<1>3. /\ out' = [k \in DOMAIN out \ lingered |-> out[k]]
      /\ net' = net \cup {Probe(m) : m \in stalled}
  BY <1>1 DEF SenderTick, Emit, Drop
<1> QED BY <1>1, <1>2, <1>3 DEF BooksOK, TypeOK, receiverVars

LEMMA RecvDataBooks ==
  ASSUME BooksOK, NEW p \in net, RecvData(p)
  PROVE  BooksOK'
<1> DEFINE m   == p.msg_id
           msg == Absorb(p)
<1>1. p \in DataPacket /\ m \in Msgs
  BY DEF RecvData, BooksOK, TypeOK, Packet, DataPacket, GrantPacket, ResendPacket, BusyPacket
<1>2. UNCHANGED senderSide
  BY DEF RecvData
<1>3. ReceivingOK(msg)
  BY <1>1, AbsorbBooks DEF BooksOK
<1>4. CASE RefuseData(p)
  <2>1. net' \subseteq net \cup {Busy(m)} /\ UNCHANGED receiverVars
    BY <1>4 DEF RefuseData, Answer, Without
  <2>2. Busy(m) \in Packet
    BY <1>1 DEF Busy, Packet, BusyPacket
  <2> QED BY <1>2, <2>1, <2>2 DEF BooksOK, TypeOK, SendingOK, senderSide, receiverVars
<1>5. ASSUME NEW starved \in SUBSET DOMAIN incoming, HandleData(p, starved)
      PROVE  BooksOK'
  <2> DEFINE whole == IF p.msg_len = 0 THEN {} ELSE msg.buf
  <2>1. CASE p.msg_len = 0 \/ Complete(msg)
    <3> DEFINE msgs == Drop(incoming, {m})
    <3>1. Deliver(m, whole) /\ Schedule(msgs, starved, Without(p))
      BY <1>5, <2>1 DEF HandleData
    <3>2. /\ DOMAIN msgs \subseteq Msgs
          /\ \A n \in DOMAIN msgs : ReceivingOK(msgs[n])
      BY DEF BooksOK, TypeOK, Drop
    <3>3. /\ net' \subseteq Packet
          /\ DOMAIN incoming' = DOMAIN msgs
          /\ \A n \in DOMAIN incoming' : ReceivingOK(incoming'[n])
          /\ granting' \subseteq DOMAIN incoming'
      <4>1. Without(p) \subseteq Packet
        BY DEF Without, BooksOK, TypeOK
      <4> HIDE DEF msgs
      <4> QED BY <3>1, <3>2, <4>1, ScheduleBooks
    <3>4. completed' \in Seq(Msgs)
      <4>1. completed \in Seq(Msgs) /\ Len(completed) \in Nat
        BY LenProperties DEF BooksOK, TypeOK
      <4>2. CASE Len(completed) >= CompletedCache
        <5>1. completed # <<>>
          BY <4>2, EmptySeq, ReceiverConstants
        <5>2. Tail(completed) \in Seq(Msgs)
          BY <4>1, <5>1, HeadTailProperties
        <5> QED BY <1>1, <3>1, <4>2, <5>2 DEF Deliver
      <4>3. CASE ~(Len(completed) >= CompletedCache)
        BY <1>1, <3>1, <4>1, <4>3 DEF Deliver
      <4> QED BY <4>2, <4>3
    <3>5. inbox' \in Seq([msg_id : Msgs, buf : SUBSET Nat])
      <4>1. whole \in SUBSET Nat
        BY <1>3 DEF ReceivingOK, InMsg
      <4>2. [msg_id |-> m, buf |-> whole] \in [msg_id : Msgs, buf : SUBSET Nat]
        BY <1>1, <4>1
      <4>3. inbox' = Append(inbox, [msg_id |-> m, buf |-> whole])
        BY <3>1 DEF Deliver
      <4> HIDE DEF whole
      <4> QED BY <4>2, <4>3 DEF BooksOK, TypeOK
    <3> QED BY <1>2, <3>2, <3>3, <3>4, <3>5 DEF BooksOK, TypeOK, SendingOK, ReceivingOK, senderSide
  <2>2. CASE ~(p.msg_len = 0 \/ Complete(msg))
    <3> DEFINE msgs == Put(incoming, m, msg)
    <3>1. Schedule(msgs, starved, Without(p)) /\ UNCHANGED <<completed, inbox>>
      BY <1>5, <2>2 DEF HandleData
    <3>2. /\ DOMAIN msgs \subseteq Msgs
          /\ \A n \in DOMAIN msgs : ReceivingOK(msgs[n])
      BY <1>1, <1>3 DEF BooksOK, TypeOK, Put
    <3>3. /\ net' \subseteq Packet
          /\ DOMAIN incoming' = DOMAIN msgs
          /\ \A n \in DOMAIN incoming' : ReceivingOK(incoming'[n])
          /\ granting' \subseteq DOMAIN incoming'
      <4>1. Without(p) \subseteq Packet
        BY DEF Without, BooksOK, TypeOK
      <4> HIDE DEF msgs
      <4> QED BY <3>1, <3>2, <4>1, ScheduleBooks
    <3> QED BY <1>2, <3>1, <3>2, <3>3 DEF BooksOK, TypeOK, SendingOK, ReceivingOK, senderSide
  <2> QED BY <2>1, <2>2
<1> QED BY <1>4, <1>5 DEF RecvData

\* What tick leaves of the reassemblies before it reschedules.
LEMMA TickedBooks ==
  ASSUME BooksOK, NEW gaps, NEW abandoned, NEW regrants
  PROVE  LET ticked == [m \in DOMAIN incoming \ abandoned |->
                          IF m \in gaps THEN [incoming[m] EXCEPT !.unanswered = @ + 1]
                          ELSE IF m \in regrants THEN IssueGrant(incoming[m], TRUE)
                          ELSE incoming[m]]
         IN  \A m \in DOMAIN ticked : ReceivingOK(ticked[m])
<1> DEFINE ticked == [m \in DOMAIN incoming \ abandoned |->
                        IF m \in gaps THEN [incoming[m] EXCEPT !.unanswered = @ + 1]
                        ELSE IF m \in regrants THEN IssueGrant(incoming[m], TRUE)
                        ELSE incoming[m]]
<1> SUFFICES ASSUME NEW m \in DOMAIN ticked PROVE ReceivingOK(ticked[m])
  OBVIOUS
<1>1. ReceivingOK(incoming[m])
  BY DEF BooksOK
<1>2. CASE m \in gaps
  <2>1. ticked[m] = [incoming[m] EXCEPT !.unanswered = @ + 1]
    BY <1>2
  <2> HIDE DEF ticked
  <2> QED BY <1>1, <2>1 DEF ReceivingOK, InMsg
<1>3. CASE m \notin gaps /\ m \in regrants
  <2>1. ticked[m] = IssueGrant(incoming[m], TRUE)
    BY <1>3
  <2> QED BY <1>1, <2>1, IssueGrantBooks
<1>4. CASE m \notin gaps /\ m \notin regrants
  <2>1. ticked[m] = incoming[m]
    BY <1>4
  <2> QED BY <1>1, <2>1
<1> QED BY <1>2, <1>3, <1>4

LEMMA TickReceiverBooks ==
  ASSUME BooksOK, TickReceiver
  PROVE  BooksOK'
<1>1. PICK stalled \in SUBSET DOMAIN incoming, hung \in SUBSET DOMAIN incoming,
           starved \in SUBSET DOMAIN incoming :
        ReceiverTick(stalled, hung, starved) /\ UNCHANGED senderSide
  BY DEF TickReceiver
<1> DEFINE gaps      == {m \in stalled : GapInWindow(incoming[m])}
           abandoned == {m \in gaps : incoming[m].unanswered >= MaxUnansweredResends}
           regrants  == (hung \cap granting) \ gaps
           ticked    == [m \in DOMAIN incoming \ abandoned |->
                           IF m \in gaps THEN [incoming[m] EXCEPT !.unanswered = @ + 1]
                           ELSE IF m \in regrants THEN IssueGrant(incoming[m], TRUE)
                           ELSE incoming[m]]
           packets   == net \cup {ResendFor(m) : m \in gaps}
                            \cup {Grant(m, GrantTarget(incoming[m])) : m \in regrants}
<1>2. Schedule(ticked, starved \ regrants, packets) /\ UNCHANGED <<completed, inbox>>
  BY <1>1 DEF ReceiverTick
<1>3. \A m \in gaps : ResendFor(m) \in Packet
  <2> TAKE m \in gaps
  <2>1. /\ m \in Msgs /\ incoming[m] \in InMsg
        /\ Missing(incoming[m]) # {}
        /\ FirstMissing(incoming[m]) * PacketSize < incoming[m].granted_to
    BY DEF BooksOK, TypeOK, GapInWindow
  <2>2. FirstMissing(incoming[m]) * PacketSize \in Nat
    BY <2>1, FirstMissingType
  <2>3. Lesser(incoming[m].granted_to - FirstMissing(incoming[m]) * PacketSize, GrantIncrement) \in Nat
    BY <2>1, <2>2, ReceiverConstants DEF InMsg, Lesser
  <2> QED BY <2>1, <2>2, <2>3 DEF ResendFor, Resend, Packet, ResendPacket
<1>4. \A m \in regrants : Grant(m, GrantTarget(incoming[m])) \in Packet
  BY IssueGrantBooks DEF BooksOK, TypeOK, Grant, Packet, GrantPacket
<1>5. \A m \in DOMAIN ticked : ReceivingOK(ticked[m])
  <2> HIDE DEF gaps, abandoned, regrants
  <2> QED BY TickedBooks
<1>6. DOMAIN ticked \subseteq Msgs /\ packets \subseteq Packet
  BY <1>3, <1>4 DEF BooksOK, TypeOK
<1> HIDE DEF ticked, packets
<1>7. /\ net' \subseteq Packet
      /\ DOMAIN incoming' = DOMAIN ticked
      /\ \A n \in DOMAIN incoming' : ReceivingOK(incoming'[n])
      /\ granting' \subseteq DOMAIN incoming'
  BY <1>2, <1>5, <1>6, ScheduleBooks DEF BooksOK, TypeOK
<1> QED BY <1>1, <1>2, <1>6, <1>7 DEF BooksOK, TypeOK, SendingOK, ReceivingOK, senderSide

LEMMA BooksStep == BooksOK /\ [Next]_vars => BooksOK'
<1> SUFFICES ASSUME BooksOK, [Next]_vars PROVE BooksOK'
  OBVIOUS
<1>1. ASSUME NEW m \in Msgs, SendTo(m) PROVE BooksOK'
  BY <1>1, SendToBooks
<1>2. ASSUME NEW m \in Msgs, TimeOut(m) PROVE BooksOK'
  BY <1>2, TimeOutBooks
<1>3. ASSUME NEW p \in net, RecvGrant(p) PROVE BooksOK'
  BY <1>3, RecvGrantBooks
<1>4. ASSUME NEW p \in net, RecvResend(p) PROVE BooksOK'
  BY <1>4, RecvResendBooks
<1>5. ASSUME NEW p \in net, RecvBusy(p) PROVE BooksOK'
  BY <1>5 DEF RecvBusy, HandleBusy, Answer, Without, receiverVars, BooksOK, TypeOK, SendingOK
<1>6. ASSUME NEW p \in net, RecvData(p) PROVE BooksOK'
  BY <1>6, RecvDataBooks
<1>7. CASE TickSender
  BY <1>7, TickSenderBooks
<1>8. CASE TickReceiver
  BY <1>8, TickReceiverBooks
<1>9. CASE LosePacket
  BY <1>9 DEF LosePacket, Lose, senderSide, receiverVars, BooksOK, TypeOK, SendingOK
<1>10. CASE UNCHANGED vars
  BY <1>10 DEF vars, BooksOK, TypeOK, SendingOK
<1> QED BY <1>1, <1>2, <1>3, <1>4, <1>5, <1>6, <1>7, <1>8, <1>9, <1>10 DEF Next, Receive

LEMMA BooksInvariant == Spec => []BooksOK
BY BooksInit, BooksStep, PTL DEF Spec

-----------------------------------------------------------------------------
\* Every variable keeps its type, whatever the packets are and in whatever
\* order, and however often, they arrive.
THEOREM TypeCorrect == Spec => []TypeOK
<1>1. BooksOK => TypeOK
  BY DEF BooksOK
<1> QED BY <1>1, BooksInvariant, PTL

\* The receiver never lets more than one increment, or the unscheduled
\* window, be outstanding for a message (issue_grant).
THEOREM CreditIsBounded == Spec => []CreditBounded
<1>1. BooksOK => CreditBounded
  BY DEF BooksOK, ReceivingOK, CreditBounded
<1> QED BY <1>1, BooksInvariant, PTL

\* The sender is never a whole packet past its credit, even when grants end
\* in the middle of a packet (pump, handle_resend).
THEOREM OvershootIsBounded == Spec => []OvershootBounded
<1>1. BooksOK => OvershootBounded
  BY DEF BooksOK, SendingOK, OvershootBounded
<1> QED BY <1>1, BooksInvariant, PTL

-----------------------------------------------------------------------------
(***************************************************************************)
(* Deliveries.  completed holds the keys of the newest messages of inbox,  *)
(* as many as fit.                                                         *)
(***************************************************************************)
Recent ==
  /\ completed \in Seq(Msgs)
  /\ inbox \in Seq([msg_id : Msgs, buf : SUBSET Nat])
  /\ Len(completed) = Lesser(Len(inbox), CompletedCache)
  /\ \A i \in DOMAIN completed :
       completed[i] = inbox[Len(inbox) - Len(completed) + i].msg_id
  /\ RedeliveryNeedsEviction

\* What a step can do to what the users of the exchange see.
LEMMA VisibleSteps ==
  ASSUME BooksOK, [Next]_vars
  PROVE  \/ UNCHANGED <<started, completed, inbox>>
         \/ /\ \E m \in Msgs : m \notin started /\ started' = started \cup {m}
            /\ UNCHANGED <<completed, inbox>>
         \/ /\ \E m \in Msgs : \E buf : m \notin KeysIn(completed) /\ Deliver(m, buf)
            /\ UNCHANGED started
<1>1. ASSUME NEW m \in Msgs, SendTo(m)
      PROVE  /\ m \notin started /\ started' = started \cup {m}
             /\ UNCHANGED <<completed, inbox>>
  BY <1>1 DEF SendTo, receiverVars
<1>2. ASSUME NEW p \in net, RecvData(p)
      PROVE  \/ UNCHANGED <<started, completed, inbox>>
             \/ /\ \E m \in Msgs : \E buf : m \notin KeysIn(completed) /\ Deliver(m, buf)
                /\ UNCHANGED started
  <2>1. p.msg_id \in Msgs
    BY <1>2 DEF RecvData, BooksOK, TypeOK, Packet, DataPacket, GrantPacket, ResendPacket, BusyPacket
  <2>2. CASE RefuseData(p)
    BY <1>2, <2>2 DEF RecvData, RefuseData, receiverVars, senderSide
  <2>3. ASSUME NEW starved \in SUBSET DOMAIN incoming, HandleData(p, starved)
        PROVE  \/ UNCHANGED <<completed, inbox>>
               \/ \E m \in Msgs : \E buf : m \notin KeysIn(completed) /\ Deliver(m, buf)
    BY <2>1, <2>3 DEF HandleData
  <2> QED BY <1>2, <2>2, <2>3 DEF RecvData, senderSide
<1>3. ASSUME NEW m \in Msgs, TimeOut(m) PROVE UNCHANGED <<started, completed, inbox>>
  BY <1>3 DEF TimeOut, receiverVars
<1>4. ASSUME NEW p \in net, RecvGrant(p) \/ RecvResend(p) \/ RecvBusy(p)
      PROVE  UNCHANGED <<started, completed, inbox>>
  BY <1>4 DEF RecvGrant, RecvResend, RecvBusy, receiverVars
<1>5. CASE TickSender
  BY <1>5 DEF TickSender, receiverVars
<1>6. CASE TickReceiver
  BY <1>6 DEF TickReceiver, ReceiverTick, senderSide
<1>7. CASE LosePacket \/ UNCHANGED vars
  BY <1>7 DEF LosePacket, vars, senderSide, receiverVars
<1> QED BY <1>1, <1>2, <1>3, <1>4, <1>5, <1>6, <1>7 DEF Next, Receive

LEMMA DeliverIsRecent ==
  ASSUME Recent, TypeOK', NEW m \in Msgs, NEW buf, m \notin KeysIn(completed), Deliver(m, buf)
  PROVE  Recent'
<1> DEFINE kept == IF Len(completed) >= CompletedCache THEN Tail(completed) ELSE completed
           last == [msg_id |-> m, buf |-> buf]
           gone == Len(inbox) - Len(completed)
<1>1. /\ completed' = Append(kept, m) /\ inbox' = Append(inbox, last)
      /\ CompletedCache \in Nat \ {0} /\ kept \in Seq(Msgs)
  BY ReceiverAssumption DEF Deliver, Recent
<1>2. /\ completed' \in Seq(Msgs) /\ inbox' \in Seq([msg_id : Msgs, buf : SUBSET Nat])
      /\ Len(completed') = Len(kept) + 1 /\ Len(inbox') = Len(inbox) + 1
      /\ inbox'[Len(inbox) + 1].msg_id = m /\ completed'[Len(kept) + 1] = m
      /\ \A i \in 1 .. Len(inbox) : inbox'[i] = inbox[i]
      /\ \A i \in 1 .. Len(kept) : completed'[i] = kept[i]
  BY <1>1 DEF Recent, TypeOK
<1>3. /\ Len(completed) \in Nat /\ Len(inbox) \in Nat /\ gone \in Nat
      /\ DOMAIN completed = 1 .. Len(completed) /\ DOMAIN inbox = 1 .. Len(inbox)
      /\ Len(completed) = Lesser(Len(inbox), CompletedCache)
      /\ \A i \in 1 .. Len(completed) : completed[i] = inbox[gone + i].msg_id
  <2>1. /\ Len(completed) \in Nat /\ DOMAIN completed = 1 .. Len(completed)
        /\ Len(inbox) \in Nat /\ DOMAIN inbox = 1 .. Len(inbox)
    BY DEF Recent
  <2>2. Len(completed) = Lesser(Len(inbox), CompletedCache)
    BY DEF Recent
  <2>3. gone \in Nat
    BY <1>1, <2>1, <2>2 DEF Lesser
  <2>4. \A i \in 1 .. Len(completed) : completed[i] = inbox[gone + i].msg_id
    BY <2>1 DEF Recent
  <2> QED BY <2>1, <2>2, <2>3, <2>4
<1> DEFINE evicted == Len(completed) - Len(kept)
<1>4. /\ evicted = IF Len(completed) >= CompletedCache THEN 1 ELSE 0
      /\ Len(kept) \in Nat
      /\ \A i \in 1 .. Len(kept) : kept[i] = completed[i + evicted]
  <2>1. CASE Len(completed) >= CompletedCache
    <3>1. kept = Tail(completed) /\ Len(completed) > 0
      BY <1>1, <1>3, <2>1
    <3>2. /\ Len(kept) = Len(completed) - 1
          /\ \A i \in 1 .. Len(kept) : kept[i] = completed[i + 1]
      BY <3>1 DEF Recent
    <3> HIDE DEF kept
    <3> QED BY <1>3, <2>1, <3>2
  <2>2. CASE ~(Len(completed) >= CompletedCache)
    <3>1. Len(kept) = Len(completed) /\ \A i \in 1 .. Len(kept) : kept[i] = completed[i]
      BY <2>2, Zenon
    <3> HIDE DEF kept
    <3> QED BY <1>3, <2>2, <3>1
  <2> QED BY <2>1, <2>2
<1> HIDE DEF kept, last, gone, evicted
<1>5. /\ Len(completed') = Lesser(Len(inbox'), CompletedCache)
      /\ \A i \in DOMAIN completed' :
           completed'[i] = inbox'[Len(inbox') - Len(completed') + i].msg_id
  <2>1. Len(kept) = Len(completed) - evicted
    BY <1>3, <1>4 DEF evicted
  <2>2. Len(completed') = Lesser(Len(inbox'), CompletedCache)
    <3>1. Len(completed') = Len(completed) - evicted + 1 /\ Len(inbox') = Len(inbox) + 1
      BY <1>2, <2>1
    <3>2. evicted = IF Len(completed) >= CompletedCache THEN 1 ELSE 0
      BY <1>4
    <3>3. /\ Len(completed) \in Nat /\ Len(inbox) \in Nat /\ CompletedCache \in Nat \ {0}
          /\ Len(completed) = IF Len(inbox) <= CompletedCache THEN Len(inbox) ELSE CompletedCache
      BY <1>1, <1>3 DEF Lesser
    <3>4. CASE Len(inbox) < CompletedCache
      <4>1. Len(completed) = Len(inbox) /\ evicted = 0
        BY <3>2, <3>3, <3>4
      <4>2. Len(completed') = Len(inbox) + 1 /\ Len(inbox') = Len(inbox) + 1
        BY <3>1, <3>3, <4>1
      <4>3. Len(inbox) + 1 <= CompletedCache
        BY <3>3, <3>4
      <4> QED BY <4>2, <4>3 DEF Lesser
    <3>5. CASE Len(inbox) >= CompletedCache
      <4>1. Len(completed) = CompletedCache /\ evicted = 1
        BY <3>2, <3>3, <3>5
      <4>2. Len(completed') = CompletedCache /\ Len(inbox') = Len(inbox) + 1
        BY <3>1, <3>3, <4>1
      <4>3. Len(inbox) + 1 > CompletedCache
        BY <3>3, <3>5
      <4> QED BY <3>3, <4>2, <4>3 DEF Lesser
    <3> QED BY <3>3, <3>4, <3>5
  <2>3. Len(inbox') - Len(completed') = gone + evicted
    <3>1. /\ Len(completed') = Len(completed) - evicted + 1
          /\ Len(inbox') = Len(inbox) + 1 /\ evicted \in {0, 1}
      BY <1>2, <1>4, <2>1
    <3> QED BY <1>3, <3>1 DEF gone
  <2>4. \A i \in 1 .. Len(kept) : completed'[i] = inbox'[gone + evicted + i].msg_id
    <3> TAKE i \in 1 .. Len(kept)
    <3>1. i + evicted \in 1 .. Len(completed)
      BY <1>3, <1>4, <2>1
    <3>2. completed'[i] = inbox[gone + (i + evicted)].msg_id
      BY <1>2, <1>3, <1>4, <3>1
    <3>3. gone + (i + evicted) \in 1 .. Len(inbox)
      BY <1>3, <3>1 DEF gone
    <3>4. gone + evicted + i = gone + (i + evicted)
      BY <1>3, <1>4
    <3> QED BY <1>2, <3>2, <3>3, <3>4
  <2>5. gone + evicted + (Len(kept) + 1) = Len(inbox) + 1
    BY <1>3, <1>4, <2>1 DEF gone
  <2>6. DOMAIN completed' = 1 .. Len(kept) + 1
    <3>1. completed' \in Seq(Msgs) /\ Len(completed') = Len(kept) + 1
      BY <1>2
    <3> QED BY <3>1, LenProperties
  <2>7. \A i \in DOMAIN completed' : completed'[i] = inbox'[gone + evicted + i].msg_id
    <3> TAKE i \in DOMAIN completed'
    <3>1. CASE i \in 1 .. Len(kept)
      BY <2>4, <3>1
    <3>2. CASE i = Len(kept) + 1
      BY <1>2, <2>5, <3>2
    <3> QED BY <1>4, <2>6, <3>1, <3>2
  <2> QED BY <2>2, <2>3, <2>7
<1>6. \A i \in 1 .. Len(inbox) : inbox[i].msg_id = m => Len(inbox) + 1 - i > CompletedCache
  <2> SUFFICES ASSUME NEW i \in 1 .. Len(inbox), inbox[i].msg_id = m,
                      Len(inbox) + 1 - i <= CompletedCache
               PROVE  FALSE
    BY <1>1, <1>3
  <2>1. i - gone \in 1 .. Len(completed)
    BY <1>1, <1>3 DEF Lesser, gone
  <2>2. completed[i - gone] = m
    <3>1. gone + (i - gone) = i
      BY <1>3
    <3> QED BY <1>3, <2>1, <3>1
  <2> QED BY <2>1, <2>2 DEF KeysIn, Recent
<1>7. RedeliveryNeedsEviction'
  <2> SUFFICES ASSUME NEW i \in 1 .. Len(inbox) + 1, NEW j \in 1 .. Len(inbox) + 1,
                      i < j, inbox'[i].msg_id = inbox'[j].msg_id
               PROVE  j - i > CompletedCache
    BY <1>2, <1>3 DEF RedeliveryNeedsEviction
  <2>1. CASE j = Len(inbox) + 1
    <3>1. i \in 1 .. Len(inbox) /\ inbox'[i] = inbox[i]
      BY <1>2, <1>3, <2>1
    <3> QED BY <1>2, <1>3, <1>6, <2>1, <3>1
  <2>2. CASE j # Len(inbox) + 1
    <3>1. i \in DOMAIN inbox /\ j \in DOMAIN inbox
      BY <1>3, <2>2
    <3>2. inbox'[i] = inbox[i] /\ inbox'[j] = inbox[j]
      BY <1>2, <1>3, <3>1
    <3> QED BY <3>1, <3>2 DEF RedeliveryNeedsEviction, Recent
  <2> QED BY <2>1, <2>2
<1> QED BY <1>2, <1>5, <1>7 DEF Recent

LEMMA RecentInvariant == Spec => []Recent
<1>1. Init => Recent
  BY ReceiverAssumption DEF Init, ReceiverInit, Recent, RedeliveryNeedsEviction, Lesser
<1>2. BooksOK /\ BooksOK' /\ Recent /\ [Next]_vars => Recent'
  <2> SUFFICES ASSUME BooksOK, BooksOK', Recent, [Next]_vars PROVE Recent'
    OBVIOUS
  <2>1. CASE UNCHANGED <<completed, inbox>>
    BY <2>1 DEF Recent, RedeliveryNeedsEviction
  <2>2. ASSUME NEW m \in Msgs, NEW buf, m \notin KeysIn(completed), Deliver(m, buf)
        PROVE  Recent'
    BY <2>2, DeliverIsRecent DEF BooksOK
  <2> QED BY <2>1, <2>2, VisibleSteps
<1> QED BY <1>1, <1>2, BooksInvariant, PTL DEF Spec

\* Only CompletedCache further deliveries open the way to a second delivery
\* of a message (the cache in deliver and the look-up in handle_data).
THEOREM CacheKeepsCopiesOut == Spec => []RedeliveryNeedsEviction
<1>1. Recent => RedeliveryNeedsEviction
  BY DEF Recent
<1> QED BY <1>1, RecentInvariant, PTL

-----------------------------------------------------------------------------
Scheduled ==
  /\ IsFiniteSet(DOMAIN incoming)
  /\ GrantSetHasCredit
  /\ KeptOutByShorter

\* issue_grant leaves a message that needs a grant with credit.
LEMMA IssueGrantCredit ==
  ASSUME NEW msg, ReceivingOK(msg), NeedsGrant(msg)
  PROVE  LET new == IssueGrant(msg, FALSE) IN
         /\ Remaining(new) = Remaining(msg)
         /\ new.granted_to = new.total_len \/ Outstanding(new) >= GrantIncrement \div 2
<1> DEFINE half == GrantIncrement \div 2
           new  == IssueGrant(msg, FALSE)
<1>1. /\ msg \in InMsg /\ msg.granted_to \in Nat /\ msg.received_bytes \in Nat
      /\ msg.total_len \in Nat /\ msg.granted_to < msg.total_len
      /\ GrantIncrement \in Nat
  BY ReceiverConstants DEF ReceivingOK, InMsg, NeedsGrant
<1>2. half \in Nat /\ half <= GrantIncrement
  BY <1>1, ReceiverConstants
<1> HIDE DEF half
<1>3. CASE IssuesGrant(msg, FALSE)
  <2>1. /\ new.granted_to = GrantTarget(msg) /\ new.total_len = msg.total_len
        /\ new.received_bytes = msg.received_bytes
    BY <1>1, <1>3 DEF IssueGrant, InMsg
  <2>2. GrantTarget(msg) # msg.granted_to
    BY <1>3 DEF IssuesGrant
  <2> HIDE DEF new
  <2>3. new.granted_to = new.total_len \/ Outstanding(new) >= half
    BY <1>1, <1>2, <2>1, <2>2 DEF GrantTarget, Outstanding, Greater, Lesser
  <2> QED BY <2>1, <2>3 DEF Remaining, new, half
<1>4. CASE ~IssuesGrant(msg, FALSE)
  <2>1. new = msg
    BY <1>4 DEF IssueGrant
  <2>2. Outstanding(msg) >= half \/ GrantTarget(msg) = msg.granted_to
    BY <1>1, <1>2, <1>4 DEF IssuesGrant, Outstanding, Greater, half
  <2>3. Outstanding(msg) >= half
    BY <1>1, <1>2, <2>2 DEF GrantTarget, Outstanding, Greater, Lesser
  <2> QED BY <2>1, <2>3 DEF half
<1> QED BY <1>3, <1>4

LEMMA ScheduleSchedules ==
  ASSUME NEW msgs, NEW starved, NEW underWay, IsFiniteSet(DOMAIN msgs),
         \A m \in DOMAIN msgs : ReceivingOK(msgs[m]),
         Schedule(msgs, starved, underWay)
  PROVE  Scheduled'
<1>1. PICK chosen \in SUBSET Candidates(msgs) :
        LET selected == chosen \cup (starved \cap Candidates(msgs))
        IN  /\ IsShortest(chosen, msgs)
            /\ granting' = selected
            /\ incoming' = [m \in DOMAIN msgs |->
                              IF m \in selected THEN IssueGrant(msgs[m], FALSE) ELSE msgs[m]]
            /\ net' = underWay \cup {Grant(m, GrantTarget(msgs[m])) :
                                        m \in {n \in selected : IssuesGrant(msgs[n], FALSE)}}
  BY DEF Schedule
<1> DEFINE cands == Candidates(msgs)
           limit == Greater(Overcommit, 1)
<1>2. /\ DOMAIN incoming' = DOMAIN msgs
      /\ chosen \subseteq granting' /\ granting' \subseteq cands /\ cands \subseteq DOMAIN msgs
      /\ \A m \in granting' : incoming'[m] = IssueGrant(msgs[m], FALSE)
      /\ \A m \in DOMAIN msgs \ granting' : incoming'[m] = msgs[m]
  BY <1>1 DEF Candidates
<1>3. \A m \in granting' :
        /\ Remaining(incoming'[m]) = Remaining(msgs[m])
        /\ \/ incoming'[m].granted_to = incoming'[m].total_len
           \/ Outstanding(incoming'[m]) >= GrantIncrement \div 2
  BY <1>2, IssueGrantCredit DEF Candidates
<1>4. GrantSetHasCredit'
  BY <1>3 DEF GrantSetHasCredit, Outstanding
<1>5. /\ IsFiniteSet(cands) /\ Cardinality(cands) \in Nat
      /\ IsFiniteSet(granting')
      /\ limit \in Nat
  BY <1>2, FS_Subset, FS_CardinalityType, ReceiverAssumption DEF Greater
<1>6. /\ Cardinality(chosen) = Lesser(limit, Cardinality(cands))
      /\ \A m \in chosen, n \in cands \ chosen : Remaining(msgs[m]) <= Remaining(msgs[n])
  BY <1>1 DEF IsShortest
<1>7. ASSUME NEW m \in Candidates(incoming') \ granting'
      PROVE  Cardinality({n \in granting' : Remaining(incoming'[n]) <= Remaining(incoming'[m])})
               >= limit
  <2> DEFINE shorter == {n \in granting' : Remaining(incoming'[n]) <= Remaining(incoming'[m])}
  <2>1. m \in cands \ chosen /\ incoming'[m] = msgs[m]
    BY <1>2, <1>7 DEF Candidates
  <2>2. chosen \in SUBSET shorter
    BY <1>2, <1>3, <1>6, <2>1
  <2>3. IsFiniteSet(shorter) /\ Cardinality(shorter) \in Nat
    BY <1>5, FS_Subset, FS_CardinalityType
  <2>4. Cardinality(chosen) <= Cardinality(shorter)
    BY <2>2, <2>3, FS_Subset
  <2>5. Cardinality(chosen) # Cardinality(cands)
    BY <1>5, <2>1, FS_Subset
  <2> HIDE DEF shorter, limit, cands
  <2>6. Cardinality(chosen) = limit
    BY <1>6, <2>5 DEF Lesser
  <2>7. Cardinality(shorter) >= limit
    BY <1>5, <2>3, <2>4, <2>6
  <2> QED BY <2>7 DEF shorter
<1>8. KeptOutByShorter'
  BY <1>7 DEF KeptOutByShorter, Candidates, Remaining, NeedsGrant, Complete
<1> QED BY <1>2, <1>4, <1>8 DEF Scheduled

-----------------------------------------------------------------------------
LEMMA ScheduledInit == Init => Scheduled
<1> SUFFICES ASSUME Init PROVE Scheduled
  OBVIOUS
<1>1. DOMAIN incoming = {} /\ granting = {}
  BY DEF Init, ReceiverInit, EmptyMap
<1> QED BY <1>1, FS_EmptySet DEF Scheduled, GrantSetHasCredit, KeptOutByShorter, Candidates

\* A handler that leaves the reassemblies and the grant set alone.
LEMMA ScheduledStays ==
  ASSUME Scheduled, UNCHANGED <<incoming, granting>>
  PROVE  Scheduled'
BY DEF Scheduled, GrantSetHasCredit, KeptOutByShorter, Candidates, Remaining, NeedsGrant,
       Complete, Outstanding

LEMMA RecvDataSchedules ==
  ASSUME BooksOK, Scheduled, NEW p \in net, RecvData(p)
  PROVE  Scheduled'
<1> DEFINE m   == p.msg_id
           msg == Absorb(p)
<1>1. p \in DataPacket
  BY DEF RecvData, BooksOK, TypeOK, Packet, DataPacket, GrantPacket, ResendPacket, BusyPacket
<1>2. ReceivingOK(msg)
  BY <1>1, AbsorbBooks DEF BooksOK
<1>3. CASE RefuseData(p)
  BY <1>3, ScheduledStays DEF RefuseData, receiverVars
<1>4. ASSUME NEW starved \in SUBSET DOMAIN incoming, HandleData(p, starved)
      PROVE  Scheduled'
  <2>1. CASE p.msg_len = 0 \/ Complete(msg)
    <3> DEFINE msgs == Drop(incoming, {m})
    <3>1. Schedule(msgs, starved, Without(p))
      BY <1>4, <2>1 DEF HandleData
    <3>2. DOMAIN msgs = DOMAIN incoming \ {m}
      BY DEF Drop
    <3>3. \A n \in DOMAIN msgs : ReceivingOK(msgs[n])
      BY DEF BooksOK, Drop
    <3> HIDE DEF msgs
    <3>4. IsFiniteSet(DOMAIN msgs)
      BY <3>2, FS_RemoveElement DEF Scheduled
    <3> QED BY <3>1, <3>3, <3>4, ScheduleSchedules
  <2>2. CASE ~(p.msg_len = 0 \/ Complete(msg))
    <3> DEFINE msgs == Put(incoming, m, msg)
    <3>1. Schedule(msgs, starved, Without(p))
      BY <1>4, <2>2 DEF HandleData
    <3>2. DOMAIN msgs = DOMAIN incoming \cup {m}
      BY DEF Put
    <3>3. \A n \in DOMAIN msgs : ReceivingOK(msgs[n])
      BY <1>2 DEF BooksOK, Put
    <3> HIDE DEF msgs
    <3>4. IsFiniteSet(DOMAIN msgs)
      BY <3>2, FS_AddElement DEF Scheduled
    <3> QED BY <3>1, <3>3, <3>4, ScheduleSchedules
  <2> QED BY <2>1, <2>2
<1> QED BY <1>3, <1>4 DEF RecvData

LEMMA TickReceiverSchedules ==
  ASSUME BooksOK, Scheduled, TickReceiver
  PROVE  Scheduled'
<1>1. PICK stalled \in SUBSET DOMAIN incoming, hung \in SUBSET DOMAIN incoming,
           starved \in SUBSET DOMAIN incoming :
        ReceiverTick(stalled, hung, starved) /\ UNCHANGED senderSide
  BY DEF TickReceiver
<1> DEFINE gaps      == {m \in stalled : GapInWindow(incoming[m])}
           abandoned == {m \in gaps : incoming[m].unanswered >= MaxUnansweredResends}
           regrants  == (hung \cap granting) \ gaps
           ticked    == [m \in DOMAIN incoming \ abandoned |->
                           IF m \in gaps THEN [incoming[m] EXCEPT !.unanswered = @ + 1]
                           ELSE IF m \in regrants THEN IssueGrant(incoming[m], TRUE)
                           ELSE incoming[m]]
           packets   == net \cup {ResendFor(m) : m \in gaps}
                            \cup {Grant(m, GrantTarget(incoming[m])) : m \in regrants}
<1>2. Schedule(ticked, starved \ regrants, packets)
  BY <1>1 DEF ReceiverTick
<1>3. \A m \in DOMAIN ticked : ReceivingOK(ticked[m])
  <2> HIDE DEF gaps, abandoned, regrants
  <2> QED BY TickedBooks
<1>4. DOMAIN ticked \in SUBSET DOMAIN incoming
  OBVIOUS
<1> HIDE DEF ticked, packets
<1>5. IsFiniteSet(DOMAIN ticked)
  BY <1>4, FS_Subset DEF Scheduled
<1> QED BY <1>2, <1>3, <1>5, ScheduleSchedules

LEMMA ScheduledStep ==
  ASSUME BooksOK, Scheduled, [Next]_vars
  PROVE  Scheduled'
<1>1. ASSUME NEW p \in net, RecvData(p) PROVE Scheduled'
  BY <1>1, RecvDataSchedules
<1>2. CASE TickReceiver
  BY <1>2, TickReceiverSchedules
<1>3. CASE \/ \E m \in Msgs : SendTo(m) \/ TimeOut(m)
           \/ \E p \in net : RecvGrant(p) \/ RecvResend(p) \/ RecvBusy(p)
           \/ TickSender \/ LosePacket \/ UNCHANGED vars
  <2>1. UNCHANGED <<incoming, granting>>
    BY <1>3 DEF SendTo, TimeOut, RecvGrant, RecvResend, RecvBusy, TickSender, LosePacket,
                receiverVars, vars
  <2> QED BY <2>1, ScheduledStays
<1> QED BY <1>1, <1>2, <1>3 DEF Next, Receive

LEMMA ScheduledInvariant == Spec => []Scheduled
<1>1. BooksOK /\ Scheduled /\ [Next]_vars => Scheduled'
  BY ScheduledStep
<1> QED BY <1>1, ScheduledInit, BooksInvariant, PTL DEF Spec

-----------------------------------------------------------------------------
\* A message is outside the grant set only because overcommit shorter ones
\* are inside: completion, refusal, abandonment and ticks all leave the
\* schedule up to date.
THEOREM ScheduleIsUpToDate == Spec => []KeptOutByShorter
<1>1. Scheduled => KeptOutByShorter
  BY DEF Scheduled
<1> QED BY <1>1, ScheduledInvariant, PTL

\* No message in the grant set waits for credit (schedule, issue_grant).
THEOREM GrantedHaveCredit == Spec => []GrantSetHasCredit
<1>1. Scheduled => GrantSetHasCredit
  BY DEF Scheduled
<1> QED BY <1>1, ScheduledInvariant, PTL
=============================================================================
