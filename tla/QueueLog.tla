------------------------------ MODULE QueueLog ------------------------------
(***************************************************************************)
(* The queues by themselves, with a log: drain (src/transport/mod.rs) is   *)
(* called with bursts of DATA packets of messages of several lengths, and  *)
(* each call flushes one batch.  A packet is the message it belongs to,    *)
(* its number in that message and its priority.                            *)
(***************************************************************************)
EXTENDS TxQueues, FiniteSets

CONSTANTS
  Lengths,    \* Lengths[m]: the length of message m
  MaxBurst,   \* packets in one burst
  MaxPackets  \* packets of one message in a behaviour (bound)

ASSUME LogAssumption ==
  /\ \A m \in DOMAIN Lengths : Lengths[m] \in Nat
  /\ MaxBurst \in Nat
  /\ MaxPackets \in Nat

VARIABLES
  queues,  \* TxQueues.queues
  handed,  \* handed[l]: the packets of level l given to drain, in order
  sent,    \* sent[l]: those written to the socket, in order
  batch    \* batch[l]: how many of level l the last drain wrote

vars == <<queues, handed, sent, batch>>

Messages == DOMAIN Lengths
Init ==
  /\ queues = NoQueues
  /\ handed = NoQueues
  /\ sent = NoQueues
  /\ batch = [l \in Levels |-> 0]

\* Numbered on from the last packet of m.
HandedOf(m) ==
  LET level == handed[PriorityForLen(Lengths[m])]
  IN  Cardinality({i \in DOMAIN level : level[i].msg = m})
Burst(m, n) ==
  [i \in 1 .. n |-> [msg |-> m, number |-> HandedOf(m) + i, priority |-> PriorityForLen(Lengths[m])]]

\* Mutant of Drain: the flush happens only when something was queued.
Drain_IfQueued(burst) ==
  LET all == Enqueue(queues, burst)
      go  == burst # <<>>
  IN  /\ handed' = Enqueue(handed, burst)
      /\ queues' = IF go THEN Kept(all) ELSE all
      /\ sent' = IF go THEN [l \in Levels |-> sent[l] \o Popped(all)[l]] ELSE sent
      /\ batch' = [l \in Levels |-> IF go THEN PopCount(all, l) ELSE 0]

Drain(burst) ==
  LET all == Enqueue(queues, burst)
  IN  /\ handed' = Enqueue(handed, burst)
      /\ queues' = Kept(all)
      /\ sent' = [l \in Levels |-> sent[l] \o Popped(all)[l]]
      /\ batch' = [l \in Levels |-> PopCount(all, l)]

\* A handler of SenderCore produced packets of one message.
Handler ==
  \E m \in Messages, n \in 1 .. MaxBurst :
    HandedOf(m) + n <= MaxPackets /\ Drain(Burst(m, n))

\* A handler or tick that produced none: it flushes all the same.
Tick == Drain(<<>>)

Next == Handler \/ Tick
Spec == Init /\ [][Next]_vars
FairSpec == Spec /\ WF_vars(Tick)

-----------------------------------------------------------------------------
\* Every packet handed over was sent or is queued, first in, first out.
FifoPerLevel == \A l \in Levels : handed[l] = sent[l] \o queues[l]

(***************************************************************************)
(* A packet stays behind only when a whole budget of packets at least as   *)
(* urgent went out: a burst of a long message never blocks a short one     *)
(* (the head of txqueue.rs), and the budget is used up.                    *)
(***************************************************************************)
WentOut[l \in Levels] == batch[l] + (IF l = 0 THEN 0 ELSE WentOut[l - 1])

ShortNotBlocked == \A l \in Levels : queues[l] # <<>> => WentOut[l] = FlushBudget

(***************************************************************************)
(* When nothing more urgent is handed over (the load of a behaviour is     *)
(* finite here), the ticks alone flush what a burst left behind.           *)
(***************************************************************************)
BacklogDrains == \A l \in Levels : queues[l] # <<>> ~> queues[l] = <<>>
=============================================================================
