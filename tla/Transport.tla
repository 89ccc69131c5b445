----------------------------- MODULE Transport ------------------------------
(***************************************************************************)
(* The threads of src/transport/mod.rs around the state machines: at one   *)
(* endpoint a thread in send_to per message and an io_loop, at the other   *)
(* an io_loop and threads in recv, and between them the sending queues.    *)
(*                                                                         *)
(* Every action is one critical section of the State mutex, and performs   *)
(* one action of module Exchange (X below) or none.  net holds what the    *)
(* state machines have handed out.  Control packets go to the socket at    *)
(* once.  A DATA packet is first pending, between the critical sections    *)
(* of start and dispatch, or queued, and in wire when it has been written  *)
(* to the socket.  Datagrams may be duplicated and need not be received.   *)
(***************************************************************************)
EXTENDS TxQueues, FiniteSetsExt

CONSTANTS
  Msgs, DataLen, U32, PacketSize, UnscheduledBytes, GrantIncrement, MaxIncoming,
  Overcommit, MaxUnansweredResends, CompletedCache, Lossy, Duplicating,
  Readers,    \* threads that call recv
  MaxBacklog  \* most packets in the queues (bound)

VARIABLES
  net, out, incoming, granting, completed, inbox, started, timedOut,
  wire,     \* DATA packets that have been written to the socket
  pending,  \* pending[m]: the actions of start that dispatch will drain
  queues,   \* State.tx of the sender
  sending,  \* sending[m]: where the thread in send_to is
  reading,  \* reading[r]: where the thread in recv is
  taken,    \* how many messages of inbox recv has popped
  up        \* up[e]: the io_loop of endpoint e runs

xvars == <<net, out, incoming, granting, completed, inbox, started, timedOut>>
vars == <<xvars, wire, pending, queues, sending, reading, taken, up>>

X == INSTANCE Exchange

ASSUME TransportAssumption ==
  /\ X!WireAssumption /\ X!ReceiverAssumption
  /\ Duplicating /\ ~Lossy
  /\ MaxBacklog \in Nat

Init ==
  /\ X!Init
  /\ wire = {}
  /\ pending = [m \in Msgs |-> {}]
  /\ queues = NoQueues
  /\ sending = [m \in Msgs |-> "idle"]
  /\ reading = [r \in Readers |-> "idle"]
  /\ taken = 0
  /\ up = [e \in {"sender", "receiver"} |-> TRUE]

-----------------------------------------------------------------------------
\* The DATA packets of a set in the order in which handlers produce them:
\* ascending in one message; the order of messages is that of a HashMap.
\* (A handler produces finitely many: an infinite set has no such order.)
Bursts(packets) ==
  {s \in [1 .. Cardinality(packets) -> packets] :
     /\ IsFiniteSet(packets)
     /\ packets = {s[i] : i \in DOMAIN s}
     /\ \A i, j \in DOMAIN s : i < j /\ s[i].msg_id = s[j].msg_id => s[i].source < s[j].source}

Entries(burst) ==
  [i \in DOMAIN burst |->
     [priority |-> PriorityForLen(DataLen[burst[i].msg_id]), packet |-> burst[i]]]

PacketsIn(seqs) == UNION {{seqs[l][i].packet : i \in DOMAIN seqs[l]} : l \in Levels}

(***************************************************************************)
(* drain: the packets of the handler that ran join the queues, and one     *)
(* batch leaves them for the socket.                                       *)
(***************************************************************************)
\* Mutant of Drain: a handler that sent nothing flushes nothing.
Drain_IfSending(packets) ==
  \E burst \in Bursts(packets) :
    LET all == Enqueue(queues, Entries(burst))
    IN  /\ queues' = IF packets = {} THEN queues ELSE Kept(all)
        /\ wire' = IF packets = {} THEN wire ELSE wire \cup PacketsIn(Popped(all))
        /\ MapThenSumSet(LAMBDA l : Len(Kept(all)[l]), Levels) <= MaxBacklog

Drain(packets) ==
  \E burst \in Bursts(packets) :
    LET all == Enqueue(queues, Entries(burst))
    IN  /\ queues' = Kept(all)
        /\ wire' = wire \cup PacketsIn(Popped(all))
        /\ MapThenSumSet(LAMBDA l : Len(Kept(all)[l]), Levels) <= MaxBacklog

\* notify_all
Notified(threads) ==
  [t \in DOMAIN threads |-> IF threads[t] = "asleep" THEN "check" ELSE threads[t]]

-----------------------------------------------------------------------------
(***************************************************************************)
(* send_to.  start runs in one critical section and dispatch in another;   *)
(* then the loop looks at is_done, gives up when the deadline has passed,  *)
(* and otherwise sleeps until it is notified or roused by the deadline.    *)
(***************************************************************************)
MoveSender(m, from, to) == sending[m] = from /\ sending' = [sending EXCEPT ![m] = to]

SendTo(m) ==
  /\ MoveSender(m, "idle", "dispatch")
  /\ X!SendTo(m)
  /\ pending' = [pending EXCEPT ![m] = net' \ net]
  /\ UNCHANGED <<wire, queues, reading, taken, up>>

Dispatch(m) ==
  /\ MoveSender(m, "dispatch", "check")
  /\ Drain(pending[m])
  /\ pending' = [pending EXCEPT ![m] = {}]
  /\ UNCHANGED <<xvars, reading, taken, up>>

Return(m) ==
  /\ X!IsDone(m)
  /\ MoveSender(m, "check", "ok")
  /\ UNCHANGED <<xvars, wire, pending, queues, reading, taken, up>>

\* Mutant of GiveUp: the deadline is looked at before is_done.
GiveUp_First(m) ==
  /\ MoveSender(m, "check", "timedOut")
  /\ X!Finish(m)
  /\ timedOut' = timedOut \cup {m}
  /\ UNCHANGED <<incoming, granting, completed, inbox, started>>
  /\ UNCHANGED <<wire, pending, queues, reading, taken, up>>

GiveUp(m) ==
  /\ MoveSender(m, "check", "timedOut")
  /\ X!TimeOut(m)
  /\ UNCHANGED <<wire, pending, queues, reading, taken, up>>

Sleep(m) ==
  /\ ~X!IsDone(m)
  /\ MoveSender(m, "check", "asleep")
  /\ UNCHANGED <<xvars, wire, pending, queues, reading, taken, up>>

\* Mutant of Rouse: wait instead of wait_timeout.
Rouse_Never(m) == FALSE /\ UNCHANGED vars

Rouse(m) ==
  /\ MoveSender(m, "asleep", "check")
  /\ UNCHANGED <<xvars, wire, pending, queues, reading, taken, up>>

(***************************************************************************)
(* recv: take the oldest message, or return WouldBlock when the deadline   *)
(* has passed, or sleep.                                                   *)
(***************************************************************************)
MoveReader(r, from, to) ==
  /\ reading[r] = from
  /\ reading' = [reading EXCEPT ![r] = to]
  /\ UNCHANGED <<xvars, wire, pending, queues, sending, up>>

Recv(r) == MoveReader(r, "idle", "check") /\ UNCHANGED taken

\* Mutant of TakeMsg: pop without looking whether a message is there.
TakeMsg_Blind(r) == MoveReader(r, "check", "idle") /\ taken' = taken + 1

TakeMsg(r) ==
  /\ taken < Len(inbox)
  /\ taken' = taken + 1
  /\ MoveReader(r, "check", "idle")

RecvNothing(r) ==
  /\ taken = Len(inbox)
  /\ MoveReader(r, "check", "idle") \/ MoveReader(r, "check", "asleep")
  /\ UNCHANGED taken
RouseReader(r) == MoveReader(r, "asleep", "check") /\ UNCHANGED taken

-----------------------------------------------------------------------------
(***************************************************************************)
(* io_loop at the sender.  A GRANT notifies the threads when its message   *)
(* is done, a stale one and one of an unknown message too; a RESEND does   *)
(* not.  Whatever arrives, drain flushes a batch.                          *)
(***************************************************************************)
GrantSends(p) ==
  X!PumpSends(p.msg_id, out[p.msg_id], X!Lesser(p.offset, DataLen[p.msg_id]))
ResendSends(p) == {X!Chunk(p.msg_id, off) : off \in X!ResendStart(p) .. X!ResendEnd(p) - 1}

RecvGrant(p) ==
  /\ X!RecvGrant(p)
  /\ Drain(GrantSends(p))
  /\ sending' = IF X!IsDone(p.msg_id)' THEN Notified(sending) ELSE sending

IgnoreGrant(p) ==
  /\ p.type = "GRANT"
  /\ p.msg_id \in DOMAIN out =>
       X!Lesser(p.offset, DataLen[p.msg_id]) <= out[p.msg_id].granted_to
  /\ Drain({})
  /\ sending' = IF X!IsDone(p.msg_id) THEN Notified(sending) ELSE sending
  /\ UNCHANGED xvars

RecvResend(p) == X!RecvResend(p) /\ Drain(ResendSends(p)) /\ UNCHANGED sending
RecvBusy(p)   == X!RecvBusy(p) /\ Drain({}) /\ UNCHANGED sending

IgnoreControl(p) ==
  /\ p.type \in {"RESEND", "BUSY"} /\ p.msg_id \notin DOMAIN out
  /\ Drain({})
  /\ UNCHANGED <<sending, xvars>>

TickSender ==
  /\ \E lingered, stalled \in SUBSET DOMAIN out :
       /\ X!SenderTick(lingered, stalled)
       /\ Drain({X!Probe(m) : m \in stalled})
  /\ UNCHANGED <<incoming, granting, completed, inbox, started, timedOut, sending>>

SenderLoop ==
  /\ up["sender"]
  /\ \/ \E p \in net : \/ RecvGrant(p) \/ IgnoreGrant(p) \/ RecvResend(p)
                       \/ RecvBusy(p) \/ IgnoreControl(p)
     \/ TickSender
  /\ UNCHANGED <<pending, reading, taken, up>>

(***************************************************************************)
(* io_loop at the receiver: a delivery notifies the threads in recv.       *)
(***************************************************************************)
\* Mutant of RecvData: a delivery wakes nobody.
RecvData_NoNotify(p) == X!RecvData(p) /\ UNCHANGED reading

RecvData(p) ==
  /\ X!RecvData(p)
  /\ reading' = IF inbox' # inbox THEN Notified(reading) ELSE reading

ReceiverLoop ==
  /\ up["receiver"]
  /\ \/ \E p \in net \cap wire : RecvData(p)
     \/ X!TickReceiver /\ UNCHANGED reading
  /\ UNCHANGED <<wire, pending, queues, sending, taken, up>>

\* shutdown, also by Drop: the io_loop of one end stops.
Shutdown(e) ==
  /\ up[e]
  /\ up' = [up EXCEPT ![e] = FALSE]
  /\ UNCHANGED <<xvars, wire, pending, queues, sending, reading, taken>>

SendStep(m) == Dispatch(m) \/ Return(m) \/ GiveUp(m) \/ Sleep(m) \/ Rouse(m)

Next ==
  \/ \E m \in Msgs : SendTo(m) \/ SendStep(m)
  \/ \E r \in Readers : Recv(r) \/ TakeMsg(r) \/ RecvNothing(r) \/ RouseReader(r)
  \/ SenderLoop
  \/ ReceiverLoop
  \/ \E e \in DOMAIN up : Shutdown(e)

Spec == Init /\ [][Next]_vars

(***************************************************************************)
(* Fairness.  Threads run and send_timeout passes: a thread in send_to     *)
(* that looks at its deadline again and again finds it over in the end.    *)
(* The io_loop of the sender ticks while it runs.                          *)
(***************************************************************************)
Fairness ==
  /\ \A m \in Msgs : WF_vars(SendStep(m)) /\ SF_vars(GiveUp(m))
  /\ WF_vars(up["sender"] /\ TickSender /\ UNCHANGED <<pending, reading, taken, up>>)

FairSpec == Spec /\ Fairness

-----------------------------------------------------------------------------
Queued == PacketsIn(queues)

\* The threads' variables keep their types, and the queues hold packets that
\* a handler produced.  (The books of the endpoints are Exchange's: X!TypeOK.)
TypeOK ==
  /\ wire \subseteq {p \in net : p.type = "DATA"}
  /\ pending \in [Msgs -> SUBSET net]
  /\ queues \in [Levels -> Seq([priority : Levels, packet : net])]
  /\ sending \in [Msgs -> {"idle", "dispatch", "check", "asleep", "ok", "timedOut"}]
  /\ reading \in [Readers -> {"idle", "check", "asleep"}]
  /\ taken \in 0 .. Len(inbox)
  /\ up \in [{"sender", "receiver"} -> BOOLEAN]

(***************************************************************************)
(* Under threads, queues and split critical sections the endpoints still   *)
(* do what Exchange says: in particular send_to never reports TimedOut for *)
(* a message that is done.                                                 *)
(***************************************************************************)
ImplementsExchange == X!Spec

(***************************************************************************)
(* send_to never reports TimedOut for a message that the receiver has      *)
(* already handed up (handle_resend keeps the books so that it does not):  *)
(* an application that then sends it again would have it delivered twice.  *)
(***************************************************************************)
NoFalseTimeout == [][\A m \in timedOut' \ timedOut : m \notin X!Delivered]_vars

(***************************************************************************)
(* No packet a handler produced is forgotten between the handler and the   *)
(* socket: it has been written, is queued, or waits for dispatch.          *)
(***************************************************************************)
AccountedFor ==
  {p \in net : p.type = "DATA"} = wire \cup Queued \cup UNION {pending[m] : m \in Msgs}

(***************************************************************************)
(* No lost wake-up: while a message waits in completed, no thread sleeps   *)
(* in recv.                                                                *)
(***************************************************************************)
NoneStranded == taken < Len(inbox) => \A r \in Readers : reading[r] # "asleep"

(***************************************************************************)
(* send_to returns, whatever the other end does and also when io_loop has  *)
(* stopped.                                                                *)
(***************************************************************************)
SendReturns ==
  \A m \in Msgs : sending[m] = "dispatch" ~> sending[m] \in {"ok", "timedOut"}

(***************************************************************************)
(* A packet that a full budget left in the queue is written to the socket  *)
(* without waiting for an answer of the peer, unless the endpoint is shut  *)
(* down first: drain flushes on every tick, when there is nothing to send  *)
(* too.                                                                    *)
(***************************************************************************)
QueuedIsSent ==
  \A m \in Msgs : \A off \in {x \in 0 .. DataLen[m] - 1 : x % PacketSize = 0} :
    X!Chunk(m, off) \in Queued ~> (X!Chunk(m, off) \in wire \/ ~up["sender"])
=============================================================================
