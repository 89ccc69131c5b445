------------------------------ MODULE Exchange ------------------------------
(***************************************************************************)
(* One endpoint sends messages to another over UDP: SenderCore on one      *)
(* side, ReceiverCore on the other, and the network between them.  Each    *)
(* action is one critical section of the State mutex                       *)
(* (src/transport/mod.rs): a send_to call, one datagram taken by io_loop,  *)
(* or one tick.                                                            *)
(***************************************************************************)
EXTENDS SenderCore, ReceiverCore

VARIABLES
  started,   \* messages whose id msg_counter has handed out
  timedOut   \* messages whose send_to returned TimedOut

vars == <<net, out, incoming, granting, completed, inbox, started, timedOut>>
senderSide == <<out, started, timedOut>>

Init ==
  /\ net = {}
  /\ SenderInit
  /\ ReceiverInit
  /\ started = {}
  /\ timedOut = {}

\* send_to: a fresh id, then SenderCore::start.
SendTo(m) ==
  /\ m \notin started
  /\ started' = started \cup {m}
  /\ Start(m)
  /\ UNCHANGED <<timedOut, receiverVars>>

\* send_to's deadline passes while is_done is still false.
TimeOut(m) ==
  /\ m \in started
  /\ ~IsDone(m)
  /\ Finish(m)
  /\ timedOut' = timedOut \cup {m}
  /\ UNCHANGED <<started, receiverVars>>

\* io_loop at the sender takes a control packet.
RecvGrant(p) ==
  p.type = "GRANT" /\ HandleGrant(p) /\ UNCHANGED <<started, timedOut, receiverVars>>
RecvResend(p) ==
  p.type = "RESEND" /\ HandleResend(p) /\ UNCHANGED <<started, timedOut, receiverVars>>
RecvBusy(p) ==
  p.type = "BUSY" /\ HandleBusy(p) /\ UNCHANGED <<started, timedOut, receiverVars>>

\* io_loop at the receiver takes a DATA packet.
RecvData(p) ==
  /\ p.type = "DATA"
  /\ \/ RefuseData(p)
     \/ \E starved \in SUBSET DOMAIN incoming : HandleData(p, starved)
  /\ UNCHANGED senderSide

\* io_loop's periodic tick, at either end.
TickSender ==
  \E lingered, stalled \in SUBSET DOMAIN out :
    SenderTick(lingered, stalled) /\ UNCHANGED <<started, timedOut, receiverVars>>
TickReceiver ==
  \E stalled \in SUBSET DOMAIN incoming :
    \E hung \in SUBSET stalled, starved \in SUBSET DOMAIN incoming :
      ReceiverTick(stalled, hung, starved) /\ UNCHANGED senderSide

\* io_loop takes one datagram, at the end it is addressed to.
Receive(p) == RecvGrant(p) \/ RecvResend(p) \/ RecvBusy(p) \/ RecvData(p)

LosePacket ==
  /\ \E p \in net : Lose(p)
  /\ UNCHANGED <<senderSide, receiverVars>>

Next ==
  \/ \E m \in Msgs : SendTo(m) \/ TimeOut(m)
  \/ \E p \in net : Receive(p)
  \/ TickSender
  \/ TickReceiver
  \/ LosePacket

Spec == Init /\ [][Next]_vars

(***************************************************************************)
(* Fairness.  The network may lose any copy of a packet, not every copy of *)
(* one that still matters and is sent again and again: a chunk that is     *)
(* missing, a grant that is not stale, a RESEND for the first gap.  io_loop *)
(* ticks every 5 ms whatever arrives, and timeouts elapse: a sending       *)
(* message that makes no progress is probed, and a message being received  *)
(* that makes none is looked at by a tick for which all its timeouts have  *)
(* elapsed.  Nothing is assumed of linger and of send_timeout.             *)
(***************************************************************************)
Useful(p) ==
  CASE p.type = "DATA"   -> incoming' # incoming \/ inbox' # inbox
    [] p.type = "RESEND" -> /\ p.msg_id \in DOMAIN incoming
                            /\ Missing(incoming[p.msg_id]) # {}
                            /\ p.offset = FirstMissing(incoming[p.msg_id]) * PacketSize
    [] OTHER             -> TRUE

GetsThrough(type, m) ==
  \E p \in net : p.type = type /\ p.msg_id = m /\ Receive(p) /\ Useful(p)

ProbedBy(m) ==
  \E lingered, stalled \in SUBSET DOMAIN out :
    m \in stalled /\ SenderTick(lingered, stalled) /\ UNCHANGED <<started, timedOut, receiverVars>>

LookedAtBy(m) ==
  \E stalled \in SUBSET DOMAIN incoming :
    \E hung \in SUBSET stalled, starved \in SUBSET DOMAIN incoming :
      m \in hung \cap starved /\ ReceiverTick(stalled, hung, starved) /\ UNCHANGED senderSide

Fairness ==
  \A m \in Msgs :
    /\ \A type \in {"DATA", "GRANT", "RESEND"} : SF_vars(GetsThrough(type, m))
    /\ WF_vars(ProbedBy(m))
    /\ WF_vars(LookedAtBy(m))

FairSpec == Spec /\ Fairness

-----------------------------------------------------------------------------
Delivered == {inbox[i].msg_id : i \in DOMAIN inbox}

\* Every variable keeps its type.
TypeOK ==
  /\ net \subseteq Packet
  /\ DOMAIN out \subseteq started /\ \A m \in DOMAIN out : out[m] \in OutMsg
  /\ DOMAIN incoming \subseteq Msgs /\ \A m \in DOMAIN incoming : incoming[m] \in InMsg
  /\ granting \subseteq DOMAIN incoming
  /\ completed \in Seq(Msgs)
  /\ inbox \in Seq([msg_id : Msgs, buf : SUBSET Nat])
  /\ started \subseteq Msgs
  /\ timedOut \subseteq started

(***************************************************************************)
(* A message is handed up whole or not at all: every byte of it, each in   *)
(* its place (the promise of Transport::send_to).                          *)
(***************************************************************************)
WholeMessages ==
  \A i \in DOMAIN inbox : inbox[i].buf = 0 .. DataLen[inbox[i].msg_id] - 1

(***************************************************************************)
(* Once the receiver has delivered a message, the sender's books say that  *)
(* all of it was sent: send_to cannot go on to report TimedOut for it (the *)
(* stall that handle_resend's bookkeeping is there to prevent).            *)
(***************************************************************************)
DeliveredIsDone == \A m \in Delivered : IsDone(m)

(***************************************************************************)
(* A message still being reassembled has a chunk that is missing, so that  *)
(* a RESEND or a GRANT can ask for it: none is wedged with a full bitmap.  *)
(***************************************************************************)
NeverWedged == \A m \in DOMAIN incoming : Missing(incoming[m]) # {}

(***************************************************************************)
(* Between two handlers, a message that needs a grant is outside the grant *)
(* set only because overcommit others, none longer than it, are inside:    *)
(* every path that changes incoming reschedules.                           *)
(***************************************************************************)
KeptOutByShorter ==
  \A m \in Candidates(incoming) \ granting :
    Cardinality({n \in granting : Remaining(incoming[n]) <= Remaining(incoming[m])})
      >= Greater(Overcommit, 1)

(***************************************************************************)
(* A message in the grant set never waits for credit: it is granted to its *)
(* end or has half an increment outstanding.                               *)
(***************************************************************************)
GrantSetHasCredit ==
  \A m \in granting :
    \/ incoming[m].granted_to = incoming[m].total_len
    \/ Outstanding(incoming[m]) >= GrantIncrement \div 2

(***************************************************************************)
(* A message in the grant set has a gap in the window it was granted.  So  *)
(* when its GRANT is lost, or the chunks it called for, tick takes the     *)
(* RESEND arm, and handle_resend takes the RESEND for the lost authority:  *)
(* the arm that repeats the GRANT by force is for other configurations     *)
(* (an increment below 2, or windows off the packet grid).                 *)
(***************************************************************************)
GrantedHaveGap == \A m \in granting : GapInWindow(incoming[m])

(***************************************************************************)
(* The credit a message has not used up is bounded by one increment, or by *)
(* the unscheduled window, also after it was abandoned and rebuilt by a    *)
(* probe: what limits how many bytes a sender can have under way.          *)
(***************************************************************************)
CreditBounded ==
  \A m \in DOMAIN incoming :
    incoming[m].granted_to <=
      Greater(UnscheduledBytes, incoming[m].received_bytes + GrantIncrement)

(***************************************************************************)
(* When its window ends inside a packet the sender sends the whole packet: *)
(* pump looks at where a packet starts.  (The head of sender.rs and        *)
(* WIRE.md say that bytes beyond the window wait.)  What keeps the excess  *)
(* below one packet is that it is booked: it does not add up over repeated *)
(* GRANTs and RESENDs.                                                     *)
(***************************************************************************)
OvershootBounded ==
  \A m \in DOMAIN out : out[m].next_send < out[m].granted_to + PacketSize

(***************************************************************************)
(* A message is handed up again only when CompletedCache others or more    *)
(* were handed up after it and pushed its key out of completed: that cache *)
(* is all that keeps late copies of its packets from rebuilding it.        *)
(***************************************************************************)
RedeliveryNeedsEviction ==
  \A i, j \in DOMAIN inbox :
    i < j /\ inbox[i].msg_id = inbox[j].msg_id => j - i > CompletedCache

\* The exchange implements the service its users are promised.
Service == INSTANCE MessageService
  WITH Msgs <- Msgs, DataLen <- DataLen, started <- started, inbox <- inbox
ImplementsService == Service!Spec

(***************************************************************************)
(* No message stays in reassembly for ever: it is delivered, or abandoned  *)
(* when its sender no longer answers.                                      *)
(***************************************************************************)
EveryReassemblyEnds ==
  \A m \in Msgs : m \in DOMAIN incoming ~> m \notin DOMAIN incoming

\* The receiver abandons m: it forgets it without having delivered it.
GivesUp(m) == m \in DOMAIN incoming /\ m \notin DOMAIN incoming' /\ inbox' = inbox

(***************************************************************************)
(* A sender that waits gets all its bytes out: probe, RESEND and GRANT     *)
(* between them repair every loss, whichever packet it hits, unless the    *)
(* receiver abandons the message again and again.                          *)
(***************************************************************************)
SendCompletes ==
  \A m \in Msgs : []<><<GivesUp(m)>>_vars \/ (m \in DOMAIN out ~> IsDone(m))

(***************************************************************************)
(* The behaviours in which the receiver abandons nothing: no sender stays  *)
(* silent for MAX_UNANSWERED_RESENDS timeouts.                             *)
(***************************************************************************)
PatientSpec ==
  /\ Init
  /\ [][Next /\ \A m \in Msgs : ~GivesUp(m)]_vars
  /\ Fairness

(***************************************************************************)
(* When the network loses nothing and the receiver abandons nothing, a     *)
(* message longer than the unscheduled window is delivered unless its      *)
(* sender times out: however often it is refused with BUSY, the probes of  *)
(* the sender's tick retry it.                                             *)
(***************************************************************************)
SentIsDelivered ==
  \A m \in {n \in Msgs : DataLen[n] > UnscheduledBytes} :
    m \in started ~> m \in Delivered \cup timedOut
=============================================================================
