--------------------------- MODULE QueueLogProofs ---------------------------
(***************************************************************************)
(* Proofs about the sending queues under bursts of any messages, for any   *)
(* thresholds, budget and lengths.                                         *)
(***************************************************************************)
EXTENDS QueueLog, QueueProofs, FiniteSetTheorems

Packet == [msg : Messages, number : Nat, priority : Levels]

LogTyped ==
  /\ queues \in QueuesOf(Packet)
  /\ handed \in QueuesOf(Packet)
  /\ sent \in QueuesOf(Packet)
  /\ batch \in [Levels -> Nat]

\* The packets of a handler are packets of their level.
LEMMA BurstTyped ==
  ASSUME LogTyped, NEW m \in Messages, NEW n \in Nat
  PROVE  Burst(m, n) \in BurstOf(Packet)
<1>1. PriorityForLen(Lengths[m]) \in Levels
  BY PriorityIsLevel, LogAssumption DEF Messages
<1>2. HandedOf(m) \in Nat
  <2>1. PICK q \in Seq(Packet) : q = handed[PriorityForLen(Lengths[m])]
    BY <1>1 DEF LogTyped, QueuesOf
  <2>2. IsFiniteSet(1 .. Len(q))
    BY FS_Interval
  <2>3. IsFiniteSet({i \in DOMAIN q : q[i].msg = m})
    BY <2>2, FS_Subset
  <2>4. QED
    BY <2>1, <2>3, FS_CardinalityType DEF HandedOf
<1>3. \A i \in 1 .. n : [msg |-> m, number |-> HandedOf(m) + i, priority |-> PriorityForLen(Lengths[m])] \in Packet
  BY <1>1, <1>2 DEF Packet
<1>4. Burst(m, n) \in Seq(Packet) /\ \A i \in 1 .. n : Burst(m, n)[i].priority \in Levels
  BY <1>1, <1>3 DEF Burst
<1>5. DOMAIN Burst(m, n) = 1 .. n
  BY DEF Burst
<1>6. QED
  BY <1>4, <1>5 DEF BurstOf

\* drain keeps the order of each level.
LEMMA DrainFifo ==
  ASSUME LogTyped, FifoPerLevel, NEW burst \in BurstOf(Packet), Drain(burst)
  PROVE  LogTyped' /\ FifoPerLevel'
<1> DEFINE all == Enqueue(queues, burst)
<1>1. all \in QueuesOf(Packet) /\ handed' = Enqueue(handed, burst) /\ handed' \in QueuesOf(Packet)
  BY EnqueueType DEF LogTyped, Drain
<1>2. /\ queues' = Kept(all) /\ sent' = Behind(sent, Popped(all))
      /\ batch' = [l \in Levels |-> PopCount(all, l)]
  BY DEF Drain, Behind
<1>3. handed = Behind(sent, queues)
  BY DEF FifoPerLevel, Behind, LogTyped, QueuesOf
<1>4. handed' = Behind(sent, all)
  BY <1>1, <1>3, EnqueueBehind DEF LogTyped
<1> HIDE DEF all
<1>5. /\ Popped(all) \in QueuesOf(Packet) /\ Kept(all) \in QueuesOf(Packet)
      /\ Behind(Popped(all), Kept(all)) = all
      /\ \A l \in Levels : PopCount(all, l) \in Nat
  BY <1>1, BatchSplits
<1>6. ASSUME NEW l \in Levels
      PROVE  sent'[l] \in Seq(Packet) /\ handed'[l] = sent'[l] \o queues'[l]
  <2>1. PICK a \in Seq(Packet), b \in Seq(Packet), c \in Seq(Packet) :
          a = sent[l] /\ b = Popped(all)[l] /\ c = Kept(all)[l]
    BY <1>5 DEF LogTyped, QueuesOf
  <2>2. all[l] = b \o c /\ sent'[l] = a \o b /\ queues'[l] = c /\ handed'[l] = a \o all[l]
    BY <1>2, <1>4, <1>5, <2>1 DEF Behind
  <2>3. a \o b \in Seq(Packet) /\ (a \o b) \o c = a \o (b \o c)
    BY ConcatProperties, ConcatAssociative
  <2>4. QED
    BY <2>2, <2>3
<1>7. LogTyped'
  BY <1>1, <1>2, <1>5, <1>6 DEF LogTyped, QueuesOf, Behind
<1>8. QED
  BY <1>6, <1>7 DEF FifoPerLevel

-----------------------------------------------------------------------------
\* The sum that WentOut names exists.
SumUpTo(b, n, f) == f = [l \in 0 .. n |-> b[l] + (IF l = 0 THEN 0 ELSE f[l - 1])]

LEMMA SumExists ==
  ASSUME NEW b, NEW n \in Nat
  PROVE  \E f : SumUpTo(b, n, f)
<1> DEFINE S == {k \in 0 .. n : \E f : SumUpTo(b, k, f)}
<1>1. 0 \in S
  <2>1. SumUpTo(b, 0, [l \in 0 .. 0 |-> b[0] + 0])
    BY DEF SumUpTo
  <2>2. QED
    BY <2>1
<1>2. ASSUME NEW k \in S, k + 1 <= n PROVE k + 1 \in S
  <2>1. PICK f : SumUpTo(b, k, f)
    OBVIOUS
  <2> DEFINE g == [l \in 0 .. k + 1 |-> IF l = k + 1 THEN b[l] + f[k] ELSE f[l]]
  <2>2. k \in Nat /\ g[k + 1] = b[k + 1] + f[k] /\ \A l \in 0 .. k : g[l] = f[l]
    OBVIOUS
  <2>3. \A l \in 0 .. k + 1 : g[l] = b[l] + (IF l = 0 THEN 0 ELSE g[l - 1])
    <3> SUFFICES ASSUME NEW l \in 0 .. k + 1
                 PROVE  g[l] = b[l] + (IF l = 0 THEN 0 ELSE g[l - 1])
      OBVIOUS
    <3>1. CASE l = k + 1
      BY <2>2, <3>1
    <3>2. CASE l \in 0 .. k
      <4>1. f[l] = b[l] + (IF l = 0 THEN 0 ELSE f[l - 1])
        BY <2>1, <3>2 DEF SumUpTo
      <4>2. l # 0 => g[l - 1] = f[l - 1]
        BY <2>2, <3>2
      <4>3. QED
        BY <2>2, <3>2, <4>1, <4>2
    <3>3. QED
      BY <2>2, <3>1, <3>2
  <2>4. SumUpTo(b, k + 1, g)
    BY <2>3 DEF SumUpTo
  <2>5. QED
    BY <1>2, <2>4
<1>3. S \in SUBSET (0 .. n)
  OBVIOUS
<1> HIDE DEF S
<1>4. S = 0 .. n
  BY <1>1, <1>2, <1>3, Induction
<1>5. n \in S
  BY <1>4
<1>6. QED
  BY <1>5 DEF S

\* What went out of a level and the more urgent ones is what they took of
\* the budget.
LEMMA DrainSpends ==
  ASSUME NEW all \in QueuesOf(Packet), batch' = [l \in Levels |-> PopCount(all, l)],
         NEW l \in Levels
  PROVE  WentOut'[l] = FlushBudget - Room(all)[l] + PopCount(all, l)
<1> DEFINE n == Len(Thresholds)
           w == WentOut'
           Spent(k) == FlushBudget - Room(all)[k] + PopCount(all, k)
<1>1. n \in Nat /\ Levels = 0 .. n /\ FlushBudget \in Nat
  BY QueueAssumption DEF Levels
<1>2. w = [k \in Levels |-> batch'[k] + (IF k = 0 THEN 0 ELSE w[k - 1])]
  <2>1. \E f : SumUpTo(batch', n, f)
    BY <1>1, SumExists
  <2>2. QED
    BY <1>1, <2>1 DEF WentOut, SumUpTo
<1> HIDE DEF w, n
<1>3. /\ Room(all)[0] = FlushBudget
      /\ \A k \in Levels : Room(all)[k] \in Nat /\ PopCount(all, k) \in Nat
      /\ \A k \in Levels : k # 0 => Room(all)[k] = Room(all)[k - 1] - PopCount(all, k - 1)
  BY RoomSteps, BatchSplits
<1> DEFINE S == {k \in 0 .. n : w[k] = Spent(k)}
<1>4. 0 \in S /\ S \in SUBSET (0 .. n)
  BY <1>1, <1>2, <1>3
<1>5. ASSUME NEW k \in S, k + 1 <= n PROVE k + 1 \in S
  <2>1. /\ k \in Levels /\ k + 1 \in Levels /\ k + 1 # 0 /\ (k + 1) - 1 = k
        /\ w[k] = Spent(k)
    BY <1>1, <1>5
  <2>2. w[k + 1] = PopCount(all, k + 1) + Spent(k)
    BY <1>2, <2>1
  <2>3. Room(all)[k + 1] = Room(all)[k] - PopCount(all, k)
    BY <1>3, <2>1
  <2>4. w[k + 1] = Spent(k + 1)
    BY <1>1, <1>3, <2>1, <2>2, <2>3
  <2>5. QED
    BY <1>5, <2>1, <2>4
<1> HIDE DEF S
<1>6. S = 0 .. n
  BY <1>1, <1>4, <1>5, Induction
<1>7. l \in S
  BY <1>1, <1>6
<1>8. QED
  BY <1>7 DEF S, w

LEMMA DrainUsesBudget ==
  ASSUME LogTyped, NEW burst \in BurstOf(Packet), Drain(burst)
  PROVE  ShortNotBlocked'
<1> DEFINE all == Enqueue(queues, burst)
<1>1. all \in QueuesOf(Packet) /\ queues' = Kept(all) /\ batch' = [l \in Levels |-> PopCount(all, l)]
  BY EnqueueType DEF LogTyped, Drain
<1> HIDE DEF all
<1>2. ASSUME NEW l \in Levels, queues'[l] # <<>> PROVE WentOut'[l] = FlushBudget
  <2>1. WentOut'[l] = FlushBudget - Room(all)[l] + PopCount(all, l)
    BY <1>1, DrainSpends
  <2>2. Room(all)[l] \in Nat /\ PopCount(all, l) = Room(all)[l]
    BY <1>1, <1>2, RoomSteps, BatchSplits
  <2>3. QED
    BY <2>1, <2>2, QueueConstants
<1>3. QED
  BY <1>2 DEF ShortNotBlocked

-----------------------------------------------------------------------------
LogInv == LogTyped /\ FifoPerLevel /\ ShortNotBlocked

LEMMA LogInvariant == Spec => []LogInv
<1>1. Init => LogInv
  <2> SUFFICES ASSUME Init PROVE LogInv
    OBVIOUS
  <2>1. NoQueues \in QueuesOf(Packet) /\ \A l \in Levels : NoQueues[l] = <<>>
    BY DEF NoQueues, QueuesOf
  <2>2. LogTyped
    BY <2>1 DEF Init, LogTyped
  <2>3. <<>> \o <<>> = <<>>
    OBVIOUS
  <2>4. QED
    BY <2>1, <2>2, <2>3 DEF Init, LogInv, FifoPerLevel, ShortNotBlocked
<1>2. LogInv /\ [Next]_vars => LogInv'
  <2> SUFFICES ASSUME LogInv, [Next]_vars PROVE LogInv'
    OBVIOUS
  <2>1. CASE Handler
    <3>1. PICK m \in Messages, n \in 1 .. MaxBurst : Drain(Burst(m, n))
      BY <2>1 DEF Handler
    <3>2. Burst(m, n) \in BurstOf(Packet)
      BY BurstTyped, LogAssumption DEF LogInv
    <3>3. QED
      BY <3>1, <3>2, DrainFifo, DrainUsesBudget DEF LogInv
  <2>2. CASE Tick
    <3>1. <<>> \in BurstOf(Packet)
      BY DEF BurstOf
    <3>2. QED
      BY <2>2, <3>1, DrainFifo, DrainUsesBudget DEF LogInv, Tick
  <2>3. CASE UNCHANGED vars
    BY <2>3 DEF vars, LogInv, LogTyped, FifoPerLevel, ShortNotBlocked, WentOut
  <2>4. QED
    BY <2>1, <2>2, <2>3 DEF Next
<1>3. QED
  BY <1>1, <1>2, PTL DEF Spec

(***************************************************************************)
(* Nothing is lost or reordered within a level, whatever the bursts and    *)
(* the budget (classify and pop_batch in txqueue.rs, drain in mod.rs).     *)
(***************************************************************************)
THEOREM LevelsAreFifo == Spec => []FifoPerLevel
BY LogInvariant, PTL DEF LogInv

(***************************************************************************)
(* A packet stays behind only when a whole budget of packets at least as   *)
(* urgent has just gone out.                                               *)
(***************************************************************************)
THEOREM ShortIsNotBlocked == Spec => []ShortNotBlocked
BY LogInvariant, PTL DEF LogInv
=============================================================================
