-------------------------- MODULE TransportProofs ---------------------------
(***************************************************************************)
(* Proofs about the threads of the transport, for any number of messages   *)
(* and readers, any sizes, levels and budgets.                             *)
(***************************************************************************)
EXTENDS Transport, QueueProofs, FiniteSetTheorems, TLAPS

\* A step of a thread or an io_loop is a step of the exchange, or none.
LEMMA StepRefines == ASSUME [Next]_vars PROVE [X!Next]_xvars
<1> SUFFICES X!Next \/ UNCHANGED xvars
  OBVIOUS
<1>1. ASSUME NEW m \in Msgs, SendTo(m) \/ SendStep(m) PROVE X!Next \/ UNCHANGED xvars
  <2>1. X!SendTo(m) \/ X!TimeOut(m) => X!Next
    BY DEF X!Next
  <2>2. QED
    BY <1>1, <2>1 DEF SendTo, SendStep, Dispatch, Return, GiveUp, Sleep, Rouse
<1>2. ASSUME NEW r \in Readers, Recv(r) \/ TakeMsg(r) \/ RecvNothing(r) \/ RouseReader(r)
      PROVE  UNCHANGED xvars
  BY <1>2 DEF Recv, TakeMsg, RecvNothing, RouseReader, MoveReader
<1>3. CASE SenderLoop
  <2>1. ASSUME NEW p \in net, X!RecvGrant(p) \/ X!RecvResend(p) \/ X!RecvBusy(p) PROVE X!Next
    BY <2>1 DEF X!Next, X!Receive
  <2>2. TickSender => X!Next
    BY DEF TickSender, X!TickSender, X!receiverVars, X!Next
  <2>3. QED
    BY <1>3, <2>1, <2>2 DEF SenderLoop, RecvGrant, RecvResend, RecvBusy, IgnoreGrant, IgnoreControl
<1>4. CASE ReceiverLoop
  BY <1>4 DEF ReceiverLoop, RecvData, X!Next, X!Receive
<1>5. ASSUME NEW e, Shutdown(e) PROVE UNCHANGED xvars
  BY <1>5 DEF Shutdown
<1>6. CASE UNCHANGED vars
  BY <1>6 DEF vars
<1>7. QED
  BY <1>1, <1>2, <1>3, <1>4, <1>5, <1>6 DEF Next

(***************************************************************************)
(* The endpoints with their threads, locks and queues implement Exchange:  *)
(* what is proved of Exchange holds of them.                               *)
(***************************************************************************)
THEOREM TransportImplements == Spec => ImplementsExchange
<1>1. Init => X!Init
  BY DEF Init
<1>2. [Next]_vars => [X!Next]_X!vars
  BY StepRefines DEF xvars, X!vars
<1>3. QED
  BY <1>1, <1>2, PTL DEF Spec, ImplementsExchange, X!Spec

-----------------------------------------------------------------------------
ReadersTyped == reading \in [Readers -> {"idle", "check", "asleep"}]

\* Only the receiver's io_loop delivers, and it notifies; only a thread in
\* recv goes to sleep, and it has looked.
LEMMA StrandsNone ==
  ASSUME ReadersTyped, NoneStranded, [Next]_vars
  PROVE  ReadersTyped' /\ NoneStranded'
<1> USE DEF ReadersTyped, NoneStranded
<1>1. CASE UNCHANGED <<inbox, reading, taken>>
  BY <1>1
<1>2. ASSUME NEW r \in Readers, Recv(r) \/ RouseReader(r)
      PROVE  ReadersTyped' /\ NoneStranded'
  <2>1. inbox' = inbox /\ taken' = taken /\ reading' = [reading EXCEPT ![r] = "check"]
    BY <1>2 DEF Recv, RouseReader, MoveReader, xvars
  <2>2. QED
    BY <2>1
<1>3. ASSUME NEW r \in Readers, TakeMsg(r) PROVE ReadersTyped' /\ NoneStranded'
  <2>1. taken < Len(inbox) /\ reading' = [reading EXCEPT ![r] = "idle"]
    BY <1>3 DEF TakeMsg, MoveReader
  <2>2. QED
    BY <2>1
<1>4. ASSUME NEW r \in Readers, RecvNothing(r) PROVE ReadersTyped' /\ NoneStranded'
  <2>1. /\ taken = Len(inbox) /\ inbox' = inbox /\ taken' = taken
        /\ reading' = [reading EXCEPT ![r] = "idle"] \/ reading' = [reading EXCEPT ![r] = "asleep"]
    BY <1>4 DEF RecvNothing, MoveReader, xvars
  <2>2. ~(taken' < Len(inbox'))
    BY <2>1
  <2>3. QED
    BY <2>1, <2>2
<1>5. ASSUME NEW p, RecvData(p), taken' = taken PROVE ReadersTyped' /\ NoneStranded'
  BY <1>5 DEF RecvData, Notified
<1>6. CASE ReceiverLoop
  <2>1. taken' = taken
    BY <1>6 DEF ReceiverLoop
  <2>2. CASE X!TickReceiver /\ UNCHANGED reading
    BY <1>1, <2>1, <2>2 DEF X!TickReceiver, X!ReceiverTick
  <2>3. QED
    BY <1>5, <1>6, <2>1, <2>2 DEF ReceiverLoop
<1>7. ASSUME NEW m \in Msgs, SendTo(m) \/ SendStep(m) PROVE UNCHANGED <<inbox, reading, taken>>
  BY <1>7 DEF SendTo, SendStep, Dispatch, Return, GiveUp, Sleep, Rouse, xvars, X!SendTo,
              X!TimeOut, X!receiverVars
<1>8. ASSUME SenderLoop PROVE UNCHANGED <<inbox, reading, taken>>
  BY <1>8 DEF SenderLoop, RecvGrant, RecvResend, RecvBusy, IgnoreGrant, IgnoreControl,
              TickSender, xvars, X!RecvGrant, X!RecvResend, X!RecvBusy, X!receiverVars
<1>9. ASSUME (\E e \in DOMAIN up : Shutdown(e)) \/ UNCHANGED vars
      PROVE  UNCHANGED <<inbox, reading, taken>>
  BY <1>9 DEF Shutdown, vars, xvars
<1>10. QED
  BY <1>1, <1>2, <1>3, <1>4, <1>6, <1>7, <1>8, <1>9 DEF Next

(***************************************************************************)
(* No thread sleeps in recv while a message waits for it, for any number   *)
(* of threads and any interleaving of deliveries, deadlines and shutdown.  *)
(***************************************************************************)
THEOREM NoWakeupIsLost == Spec => []NoneStranded
<1>1. Init => ReadersTyped /\ NoneStranded
  BY DEF Init, ReadersTyped, NoneStranded
<1>2. QED
  BY <1>1, StrandsNone, PTL DEF Spec
-----------------------------------------------------------------------------
(***************************************************************************)
(* drain: what the queues hold are packets of net with a level, and a      *)
(* packet a handler produced is queued or goes out.  N stands for net.     *)
(***************************************************************************)
EntryOf(N) == [priority : Levels, packet : N]

LEMMA EntriesGrow ==
  ASSUME NEW N, NEW M, N \subseteq M, NEW q \in QueuesOf(EntryOf(N))
  PROVE  q \in QueuesOf(EntryOf(M))
<1>1. EntryOf(N) \subseteq EntryOf(M)
  BY DEF EntryOf
<1>2. ASSUME NEW A, NEW B, A \subseteq B, q \in QueuesOf(A) PROVE q \in QueuesOf(B)
  BY <1>2 DEF QueuesOf
<1>3. QED
  BY <1>1, <1>2

LEMMA PacketsInContents ==
  ASSUME NEW seqs
  PROVE  PacketsIn(seqs) = {e.packet : e \in Contents(seqs)}
BY DEF PacketsIn, Contents

LEMMA ContentsBehind ==
  ASSUME NEW P, NEW front \in QueuesOf(P), NEW back \in QueuesOf(P)
  PROVE  Contents(Behind(front, back)) = Contents(front) \cup Contents(back)
<1>1. ASSUME NEW l \in Levels
      PROVE  /\ \A i \in DOMAIN front[l] : front[l][i] \in Contents(Behind(front, back))
             /\ \A i \in DOMAIN back[l] : back[l][i] \in Contents(Behind(front, back))
             /\ \A i \in DOMAIN Behind(front, back)[l] :
                  Behind(front, back)[l][i] \in Contents(front) \cup Contents(back)
  <2>1. PICK f \in Seq(P), b \in Seq(P) : f = front[l] /\ b = back[l]
    BY DEF QueuesOf
  <2>2. Behind(front, back)[l] = f \o b
    BY <2>1 DEF Behind
  <2>3. /\ Len(f) \in Nat /\ DOMAIN f = 1 .. Len(f)
        /\ Len(b) \in Nat /\ DOMAIN b = 1 .. Len(b)
        /\ DOMAIN (f \o b) = 1 .. Len(f) + Len(b)
        /\ \A i \in 1 .. Len(f) + Len(b) :
             (f \o b)[i] = IF i <= Len(f) THEN f[i] ELSE b[i - Len(f)]
    BY ConcatProperties
  <2>4. \A i \in DOMAIN f : i \in DOMAIN (f \o b) /\ (f \o b)[i] = f[i]
    BY <2>3
  <2>5. \A i \in DOMAIN b : Len(f) + i \in DOMAIN (f \o b) /\ (f \o b)[Len(f) + i] = b[i]
    BY <2>3
  <2>6. \A i \in DOMAIN (f \o b) : \/ i \in DOMAIN f /\ (f \o b)[i] = f[i]
                                   \/ i - Len(f) \in DOMAIN b /\ (f \o b)[i] = b[i - Len(f)]
    BY <2>3
  <2>7. \A i \in DOMAIN (f \o b) : (f \o b)[i] \in Contents(Behind(front, back))
    BY <2>2 DEF Contents
  <2>8. \A i \in DOMAIN f : f[i] \in Contents(front)
    BY <2>1 DEF Contents
  <2>9. \A i \in DOMAIN b : b[i] \in Contents(back)
    BY <2>1 DEF Contents
  <2>10. \A i \in DOMAIN f : f[i] \in Contents(Behind(front, back))
    BY <2>4, <2>7
  <2>11. \A i \in DOMAIN b : b[i] \in Contents(Behind(front, back))
    BY <2>5, <2>7
  <2>12. \A i \in DOMAIN (f \o b) : (f \o b)[i] \in Contents(front) \cup Contents(back)
    BY <2>6, <2>8, <2>9
  <2>13. QED
    BY <2>1, <2>2, <2>10, <2>11, <2>12
<1>2. Contents(front) \cup Contents(back) \subseteq Contents(Behind(front, back))
  <2> DEFINE both == Contents(Behind(front, back))
  <2> HIDE DEF both
  <2>1. \A l \in Levels : /\ \A i \in DOMAIN front[l] : front[l][i] \in both
                          /\ \A i \in DOMAIN back[l] : back[l][i] \in both
    BY <1>1 DEF both
  <2>2. Contents(front) \cup Contents(back) \subseteq both
    BY <2>1 DEF Contents
  <2>3. QED
    BY <2>2 DEF both
<1>3. Contents(Behind(front, back)) \subseteq Contents(front) \cup Contents(back)
  <2> DEFINE both  == Behind(front, back)
             parts == Contents(front) \cup Contents(back)
  <2> HIDE DEF both, parts
  <2>1. \A l \in Levels : \A i \in DOMAIN both[l] : both[l][i] \in parts
    BY <1>1 DEF both, parts
  <2>2. Contents(both) \subseteq parts
    BY <2>1 DEF Contents
  <2>3. QED
    BY <2>2 DEF both, parts
<1>4. QED
  BY <1>2, <1>3

LEMMA EntriesTyped ==
  ASSUME NEW N, NEW packets \in SUBSET N, \A p \in packets : p.msg_id \in Msgs,
         NEW burst \in Bursts(packets)
  PROVE  /\ Entries(burst) \in BurstOf(EntryOf(N))
         /\ {Entries(burst)[i].packet : i \in DOMAIN Entries(burst)} = packets
<1> DEFINE n == Cardinality(packets)
<1>1. /\ n \in Nat /\ burst \in [1 .. n -> packets]
      /\ packets = {burst[i] : i \in 1 .. n}
  BY FS_CardinalityType DEF Bursts
<1> HIDE DEF n
<1>2. ASSUME NEW i \in 1 .. n PROVE PriorityForLen(DataLen[burst[i].msg_id]) \in Levels
  <2>1. burst[i].msg_id \in Msgs
    BY <1>1
  <2>2. DataLen[burst[i].msg_id] \in Nat
    BY <2>1, TransportAssumption DEF X!WireAssumption
  <2>3. QED
    BY <2>2, PriorityIsLevel
<1> DEFINE all == Entries(burst)
<1>3. /\ DOMAIN all = 1 .. n
      /\ \A i \in 1 .. n : all[i] = [priority |-> PriorityForLen(DataLen[burst[i].msg_id]),
                                     packet |-> burst[i]]
      /\ all = [i \in 1 .. n |-> all[i]]
  BY <1>1 DEF Entries
<1> HIDE DEF all
<1>4. \A i \in 1 .. n : all[i] \in EntryOf(N) /\ all[i].priority \in Levels /\ all[i].packet = burst[i]
  BY <1>1, <1>2, <1>3 DEF EntryOf
<1>5. all \in Seq(EntryOf(N))
  <2>1. all \in [1 .. n -> EntryOf(N)]
    BY <1>3, <1>4
  <2>2. QED
    BY <1>1, <2>1, SeqDef
<1>6. {all[i].packet : i \in DOMAIN all} = packets
  BY <1>1, <1>3, <1>4
<1>7. all \in BurstOf(EntryOf(N))
  BY <1>3, <1>4, <1>5 DEF BurstOf
<1>8. QED
  BY <1>6, <1>7 DEF all

LEMMA DrainAccounts ==
  ASSUME NEW N, NEW packets \in SUBSET N, \A p \in packets : p.msg_id \in Msgs,
         queues \in QueuesOf(EntryOf(N)), Drain(packets)
  PROVE  /\ queues' \in QueuesOf(EntryOf(N))
         /\ wire' \cup PacketsIn(queues') = wire \cup PacketsIn(queues) \cup packets
         /\ wire \subseteq wire'
<1>1. PICK burst \in Bursts(packets) :
        /\ queues' = Kept(Enqueue(queues, Entries(burst)))
        /\ wire' = wire \cup PacketsIn(Popped(Enqueue(queues, Entries(burst))))
  BY DEF Drain
<1> DEFINE E   == EntryOf(N)
           new == Entries(burst)
           all == Enqueue(queues, new)
<1>2. new \in BurstOf(E) /\ {new[i].packet : i \in DOMAIN new} = packets
  BY EntriesTyped
<1> HIDE DEF E, new
<1>3. all \in QueuesOf(E) /\ Contents(all) = Contents(queues) \cup {new[i] : i \in DOMAIN new}
  <2>1. queues \in QueuesOf(E)
    BY DEF E
  <2>2. QED
    BY <1>2, <2>1, EnqueueType, EnqueueContents
<1>4. queues' = Kept(all) /\ wire' = wire \cup PacketsIn(Popped(all))
  BY <1>1 DEF new
<1> HIDE DEF all
<1>5. /\ Popped(all) \in QueuesOf(E) /\ Kept(all) \in QueuesOf(E)
      /\ Behind(Popped(all), Kept(all)) = all
  BY <1>3, BatchSplits
<1>6. Contents(all) = Contents(Popped(all)) \cup Contents(Kept(all))
  BY <1>5, ContentsBehind
<1>7. PacketsIn(Popped(all)) \cup PacketsIn(Kept(all)) = PacketsIn(queues) \cup packets
  <2>1. PacketsIn(Popped(all)) \cup PacketsIn(Kept(all)) = {e.packet : e \in Contents(all)}
    BY <1>6, PacketsInContents
  <2>2. {e.packet : e \in Contents(all)} = PacketsIn(queues) \cup packets
    BY <1>2, <1>3, PacketsInContents
  <2>3. QED
    BY <2>1, <2>2
<1>8. QED
  BY <1>4, <1>5, <1>7 DEF E
-----------------------------------------------------------------------------
(***************************************************************************)
(* What a handler produces, from the books and packets of a state in which *)
(* messages are keys of Msgs: DATA packets of such a message.              *)
(***************************************************************************)
DataIn(N) == {p \in N : p.type = "DATA"}

Keyed == /\ DOMAIN out \subseteq Msgs
         /\ \A p \in DataIn(net) : p.msg_id \in Msgs

\* A set of DATA packets of known messages.
Produced(packets) == \A p \in packets : p.type = "DATA" /\ p.msg_id \in Msgs

LEMMA SliceIsData == \A m, off : X!Slice(m, off).type = "DATA" /\ X!Slice(m, off).msg_id = m
BY DEF X!Slice, X!Data

LEMMA PumpProduces ==
  ASSUME NEW m \in Msgs, NEW msg, NEW limit
  PROVE  Produced(X!PumpSends(m, msg, limit))
BY SliceIsData DEF Produced, X!PumpSends

\* The sender's side: net grows by what the handler hands to drain.
LEMMA SenderProduces ==
  ASSUME Keyed, NEW p, NEW packets,
         \/ X!RecvGrant(p) /\ packets = GrantSends(p)
         \/ X!RecvResend(p) /\ packets = ResendSends(p)
         \/ X!RecvBusy(p) /\ packets = {}
  PROVE  /\ Produced(packets) /\ net' = net \cup packets /\ DOMAIN out' = DOMAIN out
         /\ inbox' = inbox
<1>1. X!Without(p) = net
  BY TransportAssumption DEF X!Without
<1>2. CASE X!RecvGrant(p) /\ packets = GrantSends(p)
  <2>1. /\ p.msg_id \in Msgs /\ net' = X!Without(p) \cup packets
        /\ DOMAIN out' = DOMAIN out /\ inbox' = inbox
    BY <1>2 DEF Keyed, X!RecvGrant, X!HandleGrant, X!Answer, GrantSends, X!receiverVars
  <2>2. Produced(packets)
    BY <1>2, <2>1, PumpProduces DEF GrantSends
  <2>3. QED
    BY <1>1, <2>1, <2>2
<1>3. CASE X!RecvResend(p) /\ packets = ResendSends(p)
  <2>1. /\ p.msg_id \in Msgs /\ net' = X!Without(p) \cup packets
        /\ DOMAIN out' = DOMAIN out /\ inbox' = inbox
    BY <1>3 DEF Keyed, X!RecvResend, X!HandleResend, X!Answer, ResendSends, X!receiverVars
  <2>2. Produced(packets)
    BY <1>3, <2>1, SliceIsData DEF Produced, ResendSends, X!Chunk
  <2>3. QED
    BY <1>1, <2>1, <2>2
<1>4. CASE X!RecvBusy(p) /\ packets = {}
  BY <1>1, <1>4 DEF X!RecvBusy, X!HandleBusy, X!Answer, X!receiverVars, Produced
<1>5. QED
  BY <1>2, <1>3, <1>4

LEMMA TickProduces ==
  ASSUME Keyed, NEW lingered, NEW stalled \in SUBSET DOMAIN out, X!SenderTick(lingered, stalled)
  PROVE  /\ Produced({X!Probe(m) : m \in stalled})
         /\ net' = net \cup {X!Probe(m) : m \in stalled}
         /\ DOMAIN out' \subseteq DOMAIN out
<1>1. /\ net' = net \cup {X!Probe(m) : m \in stalled}
      /\ DOMAIN out' \subseteq DOMAIN out
  BY DEF X!SenderTick, X!Emit, X!Drop
<1>2. \A m \in stalled : X!Probe(m).type = "DATA" /\ X!Probe(m).msg_id \in Msgs
  BY SliceIsData DEF X!Probe, X!Chunk, Keyed
<1>3. QED
  BY <1>1, <1>2 DEF Produced

\* The receiver's side adds control packets, and delivers at the end of inbox.
LEMMA ScheduleControls ==
  ASSUME NEW msgs, NEW starved, NEW underWay, X!Schedule(msgs, starved, underWay)
  PROVE  underWay \subseteq net' /\ DataIn(net') = DataIn(underWay)
<1>1. PICK S : net' = underWay \cup {X!Grant(m, X!GrantTarget(msgs[m])) : m \in S}
  BY DEF X!Schedule
<1>2. \A m, off : X!Grant(m, off).type = "GRANT"
  BY DEF X!Grant
<1>3. QED
  BY <1>1, <1>2 DEF DataIn

LEMMA ReceiverControls ==
  ASSUME (\E p : X!RecvData(p)) \/ X!TickReceiver
  PROVE  /\ net \subseteq net' /\ DataIn(net') = DataIn(net)
         /\ out' = out
         /\ inbox' = inbox \/ \E e : inbox' = Append(inbox, e)
<1>1. ASSUME NEW p, X!RefuseData(p), UNCHANGED X!senderSide
      PROVE  /\ net \subseteq net' /\ DataIn(net') = DataIn(net)
             /\ out' = out /\ inbox' = inbox
  <2>1. X!Busy(p.msg_id).type = "BUSY" /\ X!Without(p) = net
    BY TransportAssumption DEF X!Busy, X!Without
  <2>2. QED
    BY <1>1, <2>1 DEF X!RefuseData, X!Answer, X!receiverVars, X!senderSide, DataIn
<1>2. ASSUME NEW p, NEW starved, X!HandleData(p, starved), UNCHANGED X!senderSide
      PROVE  /\ net \subseteq net' /\ DataIn(net') = DataIn(net)
             /\ out' = out /\ (inbox' = inbox \/ \E e : inbox' = Append(inbox, e))
  <2>1. X!Without(p) = net
    BY TransportAssumption DEF X!Without
  <2>2. \E msgs : X!Schedule(msgs, starved, net)
    BY <1>2, <2>1 DEF X!HandleData
  <2>3. inbox' = inbox \/ \E e : inbox' = Append(inbox, e)
    BY <1>2 DEF X!HandleData, X!Deliver
  <2>4. QED
    BY <1>2, <2>2, <2>3, ScheduleControls DEF X!senderSide
<1>3. ASSUME X!TickReceiver
      PROVE  /\ net \subseteq net' /\ DataIn(net') = DataIn(net)
             /\ out' = out /\ inbox' = inbox
  <2>1. PICK stalled, hung, starved : X!ReceiverTick(stalled, hung, starved) /\ UNCHANGED X!senderSide
    BY <1>3 DEF X!TickReceiver
  <2>2. PICK msgs, waiting, A, B :
          X!Schedule(msgs, waiting, net \cup {X!ResendFor(m) : m \in A}
                                        \cup {X!Grant(m, X!GrantTarget(incoming[m])) : m \in B})
    BY <2>1 DEF X!ReceiverTick
  <2>3. /\ \A m : X!ResendFor(m).type = "RESEND"
        /\ \A m, off : X!Grant(m, off).type = "GRANT"
    BY DEF X!ResendFor, X!Resend, X!Grant
  <2>4. net \subseteq net' /\ DataIn(net') = DataIn(net)
    BY <2>2, <2>3, ScheduleControls DEF DataIn
  <2>5. inbox' = inbox
    BY <2>1 DEF X!ReceiverTick
  <2>6. QED
    BY <2>1, <2>4, <2>5 DEF X!senderSide
<1>4. QED
  BY <1>1, <1>2, <1>3 DEF X!RecvData
-----------------------------------------------------------------------------
(***************************************************************************)
(* The packets, and where they are.                                        *)
(***************************************************************************)
\* Where a thread in send_to is.
Places == {"idle", "dispatch", "check", "asleep", "ok", "timedOut"}

PacketsInv ==
  /\ Keyed
  /\ wire \subseteq DataIn(net)
  /\ pending \in [Msgs -> SUBSET net]
  /\ queues \in QueuesOf(EntryOf(net))
  /\ AccountedFor
  /\ \A m \in Msgs : sending[m] = "idle" => pending[m] = {}

\* A handler, or none, and drain of what it produced.
LEMMA HandlerAccounts ==
  ASSUME PacketsInv, NEW packets, Produced(packets), Drain(packets),
         net' = net \cup packets, DOMAIN out' \subseteq DOMAIN out,
         pending' = pending, \A m \in Msgs : sending'[m] = "idle" => sending[m] = "idle"
  PROVE  PacketsInv'
<1>1. /\ net \subseteq net' /\ packets \in SUBSET net'
      /\ DataIn(net') = DataIn(net) \cup packets
      /\ \A p \in packets : p.msg_id \in Msgs
  BY DEF Produced, DataIn
<1>2. queues \in QueuesOf(EntryOf(net'))
  BY <1>1, EntriesGrow DEF PacketsInv
<1>3. /\ queues' \in QueuesOf(EntryOf(net'))
      /\ wire' \cup PacketsIn(queues') = wire \cup PacketsIn(queues) \cup packets
  BY <1>1, <1>2, DrainAccounts
<1>4. DataIn(net) = wire \cup PacketsIn(queues) \cup UNION {pending[m] : m \in Msgs}
  BY DEF PacketsInv, AccountedFor, Queued, DataIn
<1>5. DataIn(net') = wire' \cup PacketsIn(queues') \cup UNION {pending[m] : m \in Msgs}
  BY <1>1, <1>3, <1>4
<1>6. AccountedFor'
  BY <1>5 DEF AccountedFor, Queued, DataIn
<1>7. Keyed'
  BY <1>1 DEF PacketsInv, Keyed
<1>8. pending' \in [Msgs -> SUBSET net']
  BY <1>1 DEF PacketsInv
<1>9. \A m \in Msgs : sending'[m] = "idle" => pending'[m] = {}
  BY DEF PacketsInv
<1>10. wire' \subseteq DataIn(net')
  BY <1>5
<1>11. QED
  BY <1>3, <1>6, <1>7, <1>8, <1>9, <1>10 DEF PacketsInv

\* Where start puts its packets, and dispatch takes them from.
Waiting(f) == UNION {f[m] : m \in Msgs}

LEMMA PendingMoves ==
  ASSUME NEW without, NEW with, NEW m \in Msgs, without[m] = {},
         \A n \in Msgs \ {m} : with[n] = without[n]
  PROVE  Waiting(with) = Waiting(without) \cup with[m]
<1>1. ASSUME NEW n \in Msgs PROVE with[n] \subseteq Waiting(without) \cup with[m]
  <2>1. CASE n = m
    BY <2>1
  <2>2. CASE n # m
    BY <2>2 DEF Waiting
  <2>3. QED
    BY <2>1, <2>2
<1>2. ASSUME NEW n \in Msgs PROVE without[n] \subseteq Waiting(with)
  <2>1. CASE n = m
    BY <2>1
  <2>2. CASE n # m
    BY <2>2 DEF Waiting
  <2>3. QED
    BY <2>1, <2>2
<1>3. Waiting(with) \subseteq Waiting(without) \cup with[m]
  <2> DEFINE rest == Waiting(without) \cup with[m]
  <2> HIDE DEF rest
  <2>1. \A n \in Msgs : with[n] \subseteq rest
    BY <1>1 DEF rest
  <2>2. Waiting(with) \subseteq rest
    BY <2>1 DEF Waiting
  <2>3. QED
    BY <2>2 DEF rest
<1>4. Waiting(without) \subseteq Waiting(with)
  <2> DEFINE all == Waiting(with)
  <2> HIDE DEF all
  <2>1. \A n \in Msgs : without[n] \subseteq all
    BY <1>2 DEF all
  <2>2. Waiting(without) \subseteq all
    BY <2>1 DEF Waiting
  <2>3. QED
    BY <2>2 DEF all
<1>5. with[m] \subseteq Waiting(with)
  BY DEF Waiting
<1>6. QED
  BY <1>3, <1>4, <1>5

LEMMA SendToAccounts ==
  ASSUME PacketsInv, sending \in [Msgs -> Places], NEW m \in Msgs, SendTo(m)
  PROVE  PacketsInv'
<1>1. PICK packets : Produced(packets) /\ net' = net \cup packets
  BY PumpProduces DEF SendTo, X!SendTo, X!Start, X!Emit
<1>2. DOMAIN out' \subseteq Msgs
  BY DEF SendTo, X!SendTo, X!Start, X!Put, PacketsInv, Keyed
<1>3. /\ pending' = [pending EXCEPT ![m] = net' \ net] /\ pending[m] = {}
      /\ wire' = wire /\ queues' = queues
      /\ sending' = [sending EXCEPT ![m] = "dispatch"]
  BY DEF SendTo, MoveSender, PacketsInv
<1>4. /\ net \subseteq net' /\ DataIn(net') = DataIn(net) \cup (net' \ net)
      /\ \A p \in DataIn(net') : p.msg_id \in Msgs
  BY <1>1 DEF Produced, DataIn, PacketsInv, Keyed
<1>5. Waiting(pending') = Waiting(pending) \cup (net' \ net)
  <2>1. pending'[m] = net' \ net /\ \A n \in Msgs \ {m} : pending'[n] = pending[n]
    BY <1>3 DEF PacketsInv
  <2>2. pending[m] = {}
    BY <1>3
  <2>3. Waiting(pending') = Waiting(pending) \cup pending'[m]
    BY <2>1, <2>2, PendingMoves
  <2>4. QED
    BY <2>1, <2>3
<1>6. DataIn(net) = wire \cup PacketsIn(queues) \cup Waiting(pending)
  BY DEF PacketsInv, AccountedFor, Queued, DataIn, Waiting
<1>7. DataIn(net') = wire' \cup PacketsIn(queues') \cup Waiting(pending')
  BY <1>3, <1>4, <1>5, <1>6
<1>8. AccountedFor'
  BY <1>7 DEF AccountedFor, Queued, DataIn, Waiting
<1>9. queues' \in QueuesOf(EntryOf(net'))
  BY <1>3, <1>4, EntriesGrow DEF PacketsInv
<1>10. pending' \in [Msgs -> SUBSET net']
  BY <1>3, <1>4 DEF PacketsInv
<1>11. \A n \in Msgs : sending'[n] = "idle" => pending'[n] = {}
  BY <1>3 DEF PacketsInv
<1>12. QED
  BY <1>2, <1>4, <1>7, <1>8, <1>9, <1>10, <1>11 DEF PacketsInv, Keyed

LEMMA DispatchAccounts ==
  ASSUME PacketsInv, sending \in [Msgs -> Places], NEW m \in Msgs, Dispatch(m)
  PROVE  PacketsInv'
<1>1. /\ pending' = [pending EXCEPT ![m] = {}] /\ net' = net /\ out' = out
      /\ sending' = [sending EXCEPT ![m] = "check"] /\ Drain(pending[m])
  BY DEF Dispatch, MoveSender, xvars
<1>2. DataIn(net) = wire \cup PacketsIn(queues) \cup Waiting(pending)
  BY DEF PacketsInv, AccountedFor, Queued, DataIn, Waiting
<1>3. pending[m] \in SUBSET net /\ \A p \in pending[m] : p.msg_id \in Msgs
  <2>1. pending[m] \subseteq DataIn(net)
    BY <1>2 DEF Waiting
  <2>2. QED
    BY <2>1 DEF PacketsInv, Keyed, DataIn
<1>4. /\ queues' \in QueuesOf(EntryOf(net))
      /\ wire' \cup PacketsIn(queues') = wire \cup PacketsIn(queues) \cup pending[m]
  BY <1>1, <1>3, DrainAccounts DEF PacketsInv
<1>5. Waiting(pending) = Waiting(pending') \cup pending[m]
  <2>1. pending'[m] = {} /\ \A n \in Msgs \ {m} : pending[n] = pending'[n]
    BY <1>1 DEF PacketsInv
  <2>2. QED
    BY <2>1, PendingMoves
<1>6. DataIn(net') = wire' \cup PacketsIn(queues') \cup Waiting(pending')
  BY <1>1, <1>2, <1>4, <1>5
<1>7. AccountedFor'
  BY <1>6 DEF AccountedFor, Queued, DataIn, Waiting
<1>8. pending' \in [Msgs -> SUBSET net']
  BY <1>1 DEF PacketsInv
<1>9. \A n \in Msgs : sending'[n] = "idle" => pending'[n] = {}
  BY <1>1 DEF PacketsInv
<1>10. Keyed'
  BY <1>1 DEF PacketsInv, Keyed
<1>11. wire' \subseteq DataIn(net')
  BY <1>6
<1>12. QED
  BY <1>1, <1>4, <1>7, <1>8, <1>9, <1>10, <1>11 DEF PacketsInv

LEMMA ReceiverAccounts ==
  ASSUME PacketsInv, ReceiverLoop
  PROVE  PacketsInv'
<1>1. /\ net \subseteq net' /\ DataIn(net') = DataIn(net) /\ out' = out
      /\ UNCHANGED <<wire, pending, queues, sending>>
  BY ReceiverControls DEF ReceiverLoop, RecvData
<1>2. queues' \in QueuesOf(EntryOf(net'))
  BY <1>1, EntriesGrow DEF PacketsInv
<1>3. pending' \in [Msgs -> SUBSET net']
  BY <1>1 DEF PacketsInv
<1>4. AccountedFor'
  BY <1>1 DEF PacketsInv, AccountedFor, Queued, DataIn
<1>5. QED
  BY <1>1, <1>2, <1>3, <1>4 DEF PacketsInv, Keyed

LEMMA SenderLoopAccounts ==
  ASSUME PacketsInv, sending \in [Msgs -> Places], SenderLoop
  PROVE  PacketsInv'
<1>1. pending' = pending
  BY DEF SenderLoop
<1>2. \A m \in Msgs : Notified(sending)[m] = "idle" => sending[m] = "idle"
  BY DEF Notified
<1>3. ASSUME NEW p, RecvGrant(p) \/ RecvResend(p) \/ RecvBusy(p) PROVE PacketsInv'
  <2>1. PICK packets : /\ Drain(packets)
                       /\ \/ X!RecvGrant(p) /\ packets = GrantSends(p)
                          \/ X!RecvResend(p) /\ packets = ResendSends(p)
                          \/ X!RecvBusy(p) /\ packets = {}
    BY <1>3 DEF RecvGrant, RecvResend, RecvBusy
  <2>2. sending' = sending \/ sending' = Notified(sending)
    BY <1>3 DEF RecvGrant, RecvResend, RecvBusy
  <2>3. Produced(packets) /\ net' = net \cup packets /\ DOMAIN out' = DOMAIN out
    BY <2>1, SenderProduces DEF PacketsInv
  <2>4. QED
    BY <1>1, <1>2, <2>1, <2>2, <2>3, HandlerAccounts
<1>4. ASSUME NEW p, IgnoreGrant(p) \/ IgnoreControl(p) PROVE PacketsInv'
  <2>1. /\ Drain({}) /\ net' = net /\ out' = out
        /\ sending' = sending \/ sending' = Notified(sending)
    BY <1>4 DEF IgnoreGrant, IgnoreControl, xvars
  <2>2. Produced({})
    BY DEF Produced
  <2>3. QED
    BY <1>1, <1>2, <2>1, <2>2, HandlerAccounts
<1>5. CASE TickSender
  <2>1. PICK lingered, stalled \in SUBSET DOMAIN out :
          X!SenderTick(lingered, stalled) /\ Drain({X!Probe(m) : m \in stalled})
    BY <1>5 DEF TickSender
  <2>2. sending' = sending
    BY <1>5 DEF TickSender
  <2>3. /\ Produced({X!Probe(m) : m \in stalled})
        /\ net' = net \cup {X!Probe(m) : m \in stalled} /\ DOMAIN out' \subseteq DOMAIN out
    BY <2>1, TickProduces DEF PacketsInv
  <2>4. QED
    BY <1>1, <2>1, <2>2, <2>3, HandlerAccounts
<1>6. QED
  BY <1>3, <1>4, <1>5 DEF SenderLoop
LEMMA PacketsStep ==
  ASSUME PacketsInv, sending \in [Msgs -> Places], [Next]_vars
  PROVE  PacketsInv'
<1>1. ASSUME UNCHANGED <<xvars, wire, pending, queues>>,
             \A m \in Msgs : sending'[m] = "idle" => sending[m] = "idle"
      PROVE  PacketsInv'
  BY <1>1 DEF xvars, PacketsInv, Keyed, AccountedFor, Queued
<1>2. ASSUME NEW m \in Msgs, Return(m) \/ Sleep(m) \/ Rouse(m) PROVE PacketsInv'
  <2>1. /\ UNCHANGED <<xvars, wire, pending, queues>>
        /\ \E s \in {"ok", "asleep", "check"} : sending' = [sending EXCEPT ![m] = s]
    BY <1>2 DEF Return, Sleep, Rouse, MoveSender
  <2>2. QED
    BY <1>1, <2>1
<1>3. ASSUME NEW m \in Msgs, GiveUp(m) PROVE PacketsInv'
  <2>1. /\ net' = net /\ UNCHANGED <<wire, pending, queues>> /\ DOMAIN out' \subseteq DOMAIN out
        /\ sending' = [sending EXCEPT ![m] = "timedOut"]
    BY <1>3 DEF GiveUp, MoveSender, X!TimeOut, X!Finish, X!Drop
  <2>2. QED
    BY <2>1 DEF PacketsInv, Keyed, AccountedFor, Queued
<1>4. ASSUME NEW r \in Readers, Recv(r) \/ TakeMsg(r) \/ RecvNothing(r) \/ RouseReader(r)
      PROVE  PacketsInv'
  BY <1>1, <1>4 DEF Recv, TakeMsg, RecvNothing, RouseReader, MoveReader
<1>5. ASSUME NEW e, Shutdown(e) PROVE PacketsInv'
  BY <1>1, <1>5 DEF Shutdown
<1>6. CASE UNCHANGED vars
  BY <1>1, <1>6 DEF vars
<1>7. QED
  BY <1>2, <1>3, <1>4, <1>5, <1>6, SendToAccounts, DispatchAccounts, SenderLoopAccounts,
     ReceiverAccounts DEF Next, SendStep

-----------------------------------------------------------------------------
(***************************************************************************)
(* The threads, and the messages that recv has taken.                      *)
(***************************************************************************)
ThreadsInv ==
  /\ sending \in [Msgs -> Places]
  /\ ReadersTyped
  /\ \E S : inbox \in Seq(S)
  /\ taken \in 0 .. Len(inbox)
  /\ up \in [{"sender", "receiver"} -> BOOLEAN]

\* Only the receiver's io_loop adds to inbox, at its end.
LEMMA InboxGrows ==
  ASSUME \E S : inbox \in Seq(S), taken \in 0 .. Len(inbox), taken' = taken,
         inbox' = inbox \/ \E e : inbox' = Append(inbox, e)
  PROVE  (\E S : inbox' \in Seq(S)) /\ taken' \in 0 .. Len(inbox')
<1>1. PICK S : inbox \in Seq(S)
  OBVIOUS
<1>2. ASSUME NEW e, inbox' = Append(inbox, e)
      PROVE  (\E T : inbox' \in Seq(T)) /\ taken' \in 0 .. Len(inbox')
  <2>1. inbox \in Seq(S \cup {e})
    BY <1>1, SeqMonotonic
  <2>2. /\ Append(inbox, e) \in Seq(S \cup {e})
        /\ Len(inbox) \in Nat /\ Len(Append(inbox, e)) = Len(inbox) + 1
    BY <2>1, AppendProperties
  <2>3. QED
    BY <1>2, <2>2
<1>3. QED
  BY <1>2

LEMMA ThreadsStep ==
  ASSUME ThreadsInv, Keyed, [Next]_vars
  PROVE  ThreadsInv'
<1>1. ASSUME NEW m \in Msgs, NEW from, NEW to \in {"dispatch", "check", "asleep", "ok", "timedOut"},
             MoveSender(m, from, to), UNCHANGED <<inbox, reading, taken, up>>
      PROVE  ThreadsInv'
  BY <1>1 DEF MoveSender, ThreadsInv, ReadersTyped, Places
<1>2. ASSUME NEW m \in Msgs, SendTo(m) \/ SendStep(m) PROVE ThreadsInv'
  <2>1. UNCHANGED <<inbox, reading, taken, up>>
    BY <1>2 DEF SendTo, SendStep, Dispatch, Return, GiveUp, Sleep, Rouse, xvars, X!SendTo,
                X!TimeOut, X!receiverVars
  <2>2. \E from, to : /\ to \in {"dispatch", "check", "asleep", "ok", "timedOut"}
                      /\ MoveSender(m, from, to)
    BY <1>2 DEF SendTo, SendStep, Dispatch, Return, GiveUp, Sleep, Rouse
  <2>3. QED
    BY <1>1, <2>1, <2>2
<1>3. ASSUME NEW r \in Readers, NEW from, NEW to \in {"idle", "check", "asleep"},
             MoveReader(r, from, to), taken' \in 0 .. Len(inbox)
      PROVE  ThreadsInv'
  BY <1>3 DEF MoveReader, xvars, ThreadsInv, ReadersTyped
<1>4. ASSUME NEW r \in Readers, Recv(r) \/ RouseReader(r) \/ RecvNothing(r) PROVE ThreadsInv'
  <2>1. /\ taken' = taken
        /\ \E from, to : to \in {"idle", "check", "asleep"} /\ MoveReader(r, from, to)
    BY <1>4 DEF Recv, RouseReader, RecvNothing
  <2>2. QED
    BY <1>3, <2>1 DEF ThreadsInv
<1>5. ASSUME NEW r \in Readers, TakeMsg(r) PROVE ThreadsInv'
  <2>1. Len(inbox) \in Nat
    BY DEF ThreadsInv
  <2>2. taken' \in 0 .. Len(inbox)
    BY <1>5, <2>1 DEF TakeMsg, ThreadsInv
  <2>3. QED
    BY <1>3, <1>5, <2>2 DEF TakeMsg
<1>6. CASE SenderLoop
  <2>1. UNCHANGED <<inbox, reading, taken, up>>
    BY <1>6 DEF SenderLoop, RecvGrant, RecvResend, RecvBusy, IgnoreGrant, IgnoreControl,
                TickSender, xvars, X!RecvGrant, X!RecvResend, X!RecvBusy, X!receiverVars
  <2>2. sending' = sending \/ sending' = Notified(sending)
    BY <1>6 DEF SenderLoop, RecvGrant, RecvResend, RecvBusy, IgnoreGrant, IgnoreControl, TickSender
  <2>3. Notified(sending) \in [Msgs -> Places]
    BY DEF ThreadsInv, Notified, Places
  <2>4. QED
    BY <2>1, <2>2, <2>3 DEF ThreadsInv, ReadersTyped
<1>7. CASE ReceiverLoop
  <2>1. /\ UNCHANGED <<sending, taken, up>>
        /\ inbox' = inbox \/ \E e : inbox' = Append(inbox, e)
        /\ reading' = reading \/ reading' = Notified(reading)
    BY <1>7, ReceiverControls DEF ReceiverLoop, RecvData
  <2>2. ReadersTyped'
    BY <2>1 DEF ThreadsInv, ReadersTyped, Notified
  <2>3. QED
    BY <2>1, <2>2, InboxGrows DEF ThreadsInv
<1>8. ASSUME NEW e \in DOMAIN up, Shutdown(e) PROVE ThreadsInv'
  BY <1>8 DEF Shutdown, xvars, ThreadsInv, ReadersTyped
<1>9. CASE UNCHANGED vars
  BY <1>9 DEF vars, xvars, ThreadsInv, ReadersTyped
<1>10. QED
  BY <1>2, <1>4, <1>5, <1>6, <1>7, <1>8, <1>9 DEF Next

TransportInv == PacketsInv /\ ThreadsInv

LEMMA TransportInvariant == Spec => []TransportInv
<1>1. Init => TransportInv
  <2> SUFFICES ASSUME Init PROVE TransportInv
    OBVIOUS
  <2>1. /\ net = {} /\ out = X!EmptyMap /\ inbox = <<>> /\ wire = {} /\ taken = 0
        /\ pending = [m \in Msgs |-> {}] /\ queues = NoQueues
    BY DEF Init, X!Init, X!SenderInit, X!ReceiverInit
  <2>2. NoQueues \in QueuesOf(EntryOf(net)) /\ PacketsIn(NoQueues) = {}
    BY DEF NoQueues, QueuesOf, PacketsIn
  <2>3. PacketsInv
    BY <2>1, <2>2 DEF PacketsInv, Keyed, AccountedFor, Queued, DataIn, X!EmptyMap
  <2>4. ThreadsInv
    <3>1. <<>> \in Seq({}) /\ Len(<<>>) = 0
      OBVIOUS
    <3>2. QED
      BY <2>1, <3>1 DEF Init, ThreadsInv, ReadersTyped, Places
  <2>5. QED
    BY <2>3, <2>4 DEF TransportInv
<1>2. TransportInv /\ [Next]_vars => TransportInv'
  <2> SUFFICES ASSUME TransportInv, [Next]_vars PROVE TransportInv'
    OBVIOUS
  <2>1. sending \in [Msgs -> Places]
    BY DEF TransportInv, ThreadsInv
  <2>2. QED
    BY <2>1, PacketsStep, ThreadsStep DEF TransportInv, PacketsInv
<1>3. QED
  BY <1>1, <1>2, PTL DEF Spec

(***************************************************************************)
(* The threads, queues and sockets stay within their types, and what is in *)
(* a queue is a packet that a handler produced.  (That the books of sender *)
(* and receiver keep theirs is in TransportSchedules, module EndToEnd.)    *)
(***************************************************************************)
THEOREM TransportTyped == Spec => []TypeOK
<1>1. TransportInv => TypeOK
  BY DEF TransportInv, PacketsInv, ThreadsInv, ReadersTyped, DataIn, QueuesOf, EntryOf, Places,
     TypeOK
<1>2. QED
  BY <1>1, TransportInvariant, PTL

(***************************************************************************)
(* No packet a handler produced is forgotten on its way to the socket, for *)
(* any number of messages, any priorities and any flush budget (start,     *)
(* dispatch and drain in mod.rs, classify and pop_batch in txqueue.rs).    *)
(***************************************************************************)
THEOREM NoPacketForgotten == Spec => []AccountedFor
<1>1. TransportInv => AccountedFor
  BY DEF TransportInv, PacketsInv
<1>2. QED
  BY <1>1, TransportInvariant, PTL
=============================================================================
