---------------------------- MODULE QueueProofs -----------------------------
(***************************************************************************)
(* What the operators of TxQueues compute, for any thresholds, budget and  *)
(* contents of the queues.  P stands for the packets.                      *)
(***************************************************************************)
EXTENDS TxQueues, NatLemmas, SequenceTheorems

LEMMA QueueConstants ==
  /\ Levels \subseteq Nat /\ 0 \in Levels
  /\ \A l \in Levels : l # 0 => l - 1 \in Levels
  /\ FlushBudget \in Nat \ {0}
BY QueueAssumption DEF Levels

\* Every length has a level.
LEMMA PriorityIsLevel ==
  ASSUME NEW len \in Nat
  PROVE  PriorityForLen(len) \in Levels
<1> DEFINE fits == {l \in Levels : l = Len(Thresholds) \/ len <= Thresholds[l + 1]}
<1>1. Len(Thresholds) \in fits /\ fits \in SUBSET Nat
  BY QueueAssumption DEF Levels
<1>2. PICK l \in fits : \A k \in fits : l <= k
  BY <1>1, LeastNat
<1>3. \A k \in 0 .. l - 1 : len > Thresholds[k + 1]
  <2> SUFFICES ASSUME NEW k \in 0 .. l - 1 PROVE len > Thresholds[k + 1]
    OBVIOUS
  <2>1. k \in Levels /\ k < Len(Thresholds) /\ k \notin fits
    BY <1>1, <1>2, QueueAssumption DEF Levels
  <2>2. Thresholds[k + 1] \in Nat
    BY <2>1, QueueAssumption DEF Levels
  <2>3. QED
    BY <2>1, <2>2
<1>4. QED
  BY <1>2, <1>3 DEF PriorityForLen

-----------------------------------------------------------------------------
(***************************************************************************)
(* Enqueue, packet by packet: the function its definition names exists.    *)
(***************************************************************************)
After(queues, burst, n, f) ==
  f = [i \in 0 .. n |-> IF i = 0 THEN queues ELSE Classify(f[i - 1], burst[i])]

LEMMA AfterExists ==
  ASSUME NEW queues, NEW burst, NEW n \in Nat
  PROVE  \E f : After(queues, burst, n, f)
<1> DEFINE S == {k \in 0 .. n : \E f : After(queues, burst, k, f)}
<1>1. 0 \in S
  <2>1. After(queues, burst, 0, [i \in 0 .. 0 |-> queues])
    BY DEF After
  <2>2. QED
    BY <2>1
<1>2. ASSUME NEW k \in S, k + 1 <= n PROVE k + 1 \in S
  <2>1. PICK f : After(queues, burst, k, f)
    OBVIOUS
  <2> DEFINE g == [i \in 0 .. k + 1 |-> IF i = k + 1 THEN Classify(f[k], burst[i]) ELSE f[i]]
  <2>2. k \in Nat /\ \A i \in 0 .. k : g[i] = f[i]
    OBVIOUS
  <2>3. f = [i \in 0 .. k |-> IF i = 0 THEN queues ELSE Classify(f[i - 1], burst[i])]
    BY <2>1 DEF After
  <2>4. \A i \in 0 .. k + 1 : g[i] = IF i = 0 THEN queues ELSE Classify(g[i - 1], burst[i])
    <3> SUFFICES ASSUME NEW i \in 0 .. k + 1
                 PROVE  g[i] = IF i = 0 THEN queues ELSE Classify(g[i - 1], burst[i])
      OBVIOUS
    <3>1. CASE i = k + 1
      BY <2>2, <3>1
    <3>2. CASE i \in 0 .. k
      <4>1. f[i] = IF i = 0 THEN queues ELSE Classify(f[i - 1], burst[i])
        BY <2>3, <3>2
      <4>2. QED
        BY <2>2, <3>2, <4>1
    <3>3. QED
      BY <2>2, <3>1, <3>2
  <2>5. After(queues, burst, k + 1, g)
    BY <2>4 DEF After
  <2>6. QED
    BY <1>2, <2>5
<1>3. S \in SUBSET (0 .. n)
  OBVIOUS
<1> HIDE DEF S
<1>4. S = 0 .. n
  BY <1>1, <1>2, <1>3, Induction
<1>5. n \in S
  BY <1>4
<1>6. QED
  BY <1>5 DEF S

LEMMA EnqueueSteps ==
  ASSUME NEW queues, NEW burst, Len(burst) \in Nat
  PROVE  \E f : /\ f[0] = queues
                /\ \A i \in 1 .. Len(burst) : f[i] = Classify(f[i - 1], burst[i])
                /\ Enqueue(queues, burst) = f[Len(burst)]
<1> DEFINE n == Len(burst)
           f == CHOOSE g : After(queues, burst, n, g)
<1>1. After(queues, burst, n, f)
  BY AfterExists
<1>2. Enqueue(queues, burst) = f[n]
  BY DEF Enqueue, After
<1> HIDE DEF f
<1>3. f[0] = queues /\ \A i \in 1 .. n : f[i] = Classify(f[i - 1], burst[i])
  BY <1>1 DEF After
<1>4. QED
  BY <1>2, <1>3
\* Queues of packets, one per level.
QueuesOf(P) == [Levels -> Seq(P)]

\* A packet joins one queue at its end.
LEMMA ClassifyAppends ==
  ASSUME NEW P, NEW queues \in QueuesOf(P), NEW p \in P, p.priority \in Levels
  PROVE  /\ Classify(queues, p) \in QueuesOf(P)
         /\ \A l \in Levels :
              Classify(queues, p)[l] = IF l = p.priority THEN Append(queues[l], p) ELSE queues[l]
<1>1. Append(queues[p.priority], p) \in Seq(P)
  BY AppendProperties DEF QueuesOf
<1>2. QED
  BY <1>1 DEF Classify, QueuesOf

\* The packets of a burst have levels.
BurstOf(P) == {s \in Seq(P) : \A i \in DOMAIN s : s[i].priority \in Levels}

LEMMA BurstPackets ==
  ASSUME NEW P, NEW burst \in BurstOf(P)
  PROVE  /\ Len(burst) \in Nat /\ DOMAIN burst = 1 .. Len(burst)
         /\ \A i \in 1 .. Len(burst) : burst[i] \in P /\ burst[i].priority \in Levels
BY DEF BurstOf

LEMMA EnqueueType ==
  ASSUME NEW P, NEW queues \in QueuesOf(P), NEW burst \in BurstOf(P)
  PROVE  Enqueue(queues, burst) \in QueuesOf(P)
<1>1. Len(burst) \in Nat /\ \A i \in 1 .. Len(burst) : burst[i] \in P /\ burst[i].priority \in Levels
  BY BurstPackets
<1>2. PICK f : /\ f[0] = queues
               /\ \A i \in 1 .. Len(burst) : f[i] = Classify(f[i - 1], burst[i])
               /\ Enqueue(queues, burst) = f[Len(burst)]
  BY <1>1, EnqueueSteps
<1> DEFINE S == {i \in 0 .. Len(burst) : f[i] \in QueuesOf(P)}
<1>3. 0 \in S /\ S \in SUBSET (0 .. Len(burst))
  BY <1>1, <1>2
<1>4. ASSUME NEW i \in S, i + 1 <= Len(burst) PROVE i + 1 \in S
  <2>1. i + 1 \in 1 .. Len(burst) /\ (i + 1) - 1 = i /\ f[i] \in QueuesOf(P)
    BY <1>1, <1>4
  <2>2. f[i + 1] = Classify(f[i], burst[i + 1])
    BY <1>2, <2>1
  <2>3. Classify(f[i], burst[i + 1]) \in QueuesOf(P)
    BY <1>1, <2>1, ClassifyAppends
  <2>4. QED
    BY <2>1, <2>2, <2>3
<1> HIDE DEF S
<1>5. S = 0 .. Len(burst)
  BY <1>1, <1>3, <1>4, Induction
<1>6. Len(burst) \in S
  BY <1>1, <1>5
<1>7. QED
  BY <1>2, <1>6 DEF S

(***************************************************************************)
(* What is queued does not change what a burst adds behind it.             *)
(***************************************************************************)
Behind(front, queues) == [l \in Levels |-> front[l] \o queues[l]]

LEMMA ClassifyBehind ==
  ASSUME NEW P, NEW front \in QueuesOf(P), NEW queues \in QueuesOf(P),
         NEW p \in P, p.priority \in Levels
  PROVE  Classify(Behind(front, queues), p) = Behind(front, Classify(queues, p))
<1> DEFINE both == Behind(front, queues)
<1>1. both \in QueuesOf(P) /\ \A l \in Levels : both[l] = front[l] \o queues[l]
  BY ConcatProperties DEF Behind, QueuesOf
<1> HIDE DEF both
<1>2. ASSUME NEW l \in Levels
      PROVE  Append(front[l] \o queues[l], p) = front[l] \o Append(queues[l], p)
  <2>1. PICK s \in Seq(P), t \in Seq(P) : s = front[l] /\ t = queues[l]
    BY DEF QueuesOf
  <2>2. <<p>> \in Seq(P) /\ s \o t \in Seq(P)
    BY ConcatProperties
  <2>3. Append(s \o t, p) = (s \o t) \o <<p>> /\ Append(t, p) = t \o <<p>>
    BY <2>2, AppendIsConcat
  <2>4. (s \o t) \o <<p>> = s \o (t \o <<p>>)
    BY <2>2, ConcatAssociative
  <2>5. QED
    BY <2>1, <2>3, <2>4
<1>3. Classify(both, p) = [l \in Levels |-> IF l = p.priority THEN Append(both[l], p) ELSE both[l]]
  BY <1>1 DEF Classify, QueuesOf
<1>4. Behind(front, Classify(queues, p))
        = [l \in Levels |-> front[l] \o (IF l = p.priority THEN Append(queues[l], p) ELSE queues[l])]
  BY DEF Behind, Classify, QueuesOf
<1>5. \A l \in Levels : (IF l = p.priority THEN Append(both[l], p) ELSE both[l])
        = front[l] \o (IF l = p.priority THEN Append(queues[l], p) ELSE queues[l])
  BY <1>1, <1>2
<1>6. Classify(both, p) = Behind(front, Classify(queues, p))
  BY <1>3, <1>4, <1>5, Zenon
<1>7. QED
  BY <1>6 DEF both

LEMMA EnqueueBehind ==
  ASSUME NEW P, NEW front \in QueuesOf(P), NEW queues \in QueuesOf(P),
         NEW burst \in BurstOf(P)
  PROVE  Enqueue(Behind(front, queues), burst) = Behind(front, Enqueue(queues, burst))
<1>1. Len(burst) \in Nat /\ \A i \in 1 .. Len(burst) : burst[i] \in P /\ burst[i].priority \in Levels
  BY BurstPackets
<1>2. PICK f : /\ f[0] = queues
               /\ \A i \in 1 .. Len(burst) : f[i] = Classify(f[i - 1], burst[i])
               /\ Enqueue(queues, burst) = f[Len(burst)]
  BY <1>1, EnqueueSteps
<1>3. PICK g : /\ g[0] = Behind(front, queues)
               /\ \A i \in 1 .. Len(burst) : g[i] = Classify(g[i - 1], burst[i])
               /\ Enqueue(Behind(front, queues), burst) = g[Len(burst)]
  BY <1>1, EnqueueSteps
<1> DEFINE S == {i \in 0 .. Len(burst) :
                   f[i] \in QueuesOf(P) /\ g[i] = Behind(front, f[i])}
<1>4. 0 \in S /\ S \in SUBSET (0 .. Len(burst))
  BY <1>1, <1>2, <1>3
<1>5. ASSUME NEW i \in S, i + 1 <= Len(burst) PROVE i + 1 \in S
  <2>1. /\ i + 1 \in 1 .. Len(burst) /\ (i + 1) - 1 = i
        /\ f[i] \in QueuesOf(P) /\ g[i] = Behind(front, f[i])
    BY <1>1, <1>5
  <2>2. PICK p \in P : /\ p.priority \in Levels
                       /\ f[i + 1] = Classify(f[i], p) /\ g[i + 1] = Classify(g[i], p)
    BY <1>1, <1>2, <1>3, <2>1
  <2>3. Classify(f[i], p) \in QueuesOf(P)
    BY <2>1, <2>2, ClassifyAppends
  <2>4. Classify(Behind(front, f[i]), p) = Behind(front, Classify(f[i], p))
    <3>1. p \in P /\ p.priority \in Levels /\ f[i] \in QueuesOf(P)
      BY <2>1, <2>2
    <3>2. QED
      BY <3>1, ClassifyBehind
  <2>5. QED
    BY <2>1, <2>2, <2>3, <2>4
<1> HIDE DEF S
<1>6. S = 0 .. Len(burst)
  BY <1>1, <1>4, <1>5, Induction
<1>7. Len(burst) \in S
  BY <1>1, <1>6
<1>8. QED
  BY <1>2, <1>3, <1>7 DEF S

(***************************************************************************)
(* A burst adds its packets to those that are queued, no more and no less. *)
(***************************************************************************)
Contents(queues) == UNION {{queues[l][i] : i \in DOMAIN queues[l]} : l \in Levels}

LEMMA ClassifyContents ==
  ASSUME NEW P, NEW queues \in QueuesOf(P), NEW p \in P, p.priority \in Levels
  PROVE  Contents(Classify(queues, p)) = Contents(queues) \cup {p}
<1> DEFINE new == Classify(queues, p)
<1>1. new \in QueuesOf(P)
  BY ClassifyAppends
<1>2. \A l \in Levels : new[l] = IF l = p.priority THEN Append(queues[l], p) ELSE queues[l]
  BY ClassifyAppends
<1> HIDE DEF new
<1>3. \A l \in Levels : /\ DOMAIN queues[l] = 1 .. Len(queues[l]) /\ Len(queues[l]) \in Nat
                        /\ DOMAIN queues[l] \subseteq DOMAIN new[l]
                        /\ \A i \in DOMAIN queues[l] : new[l][i] = queues[l][i]
  <2> SUFFICES ASSUME NEW l \in Levels
               PROVE  /\ DOMAIN queues[l] = 1 .. Len(queues[l]) /\ Len(queues[l]) \in Nat
                      /\ DOMAIN queues[l] \subseteq DOMAIN new[l]
                      /\ \A i \in DOMAIN queues[l] : new[l][i] = queues[l][i]
    OBVIOUS
  <2>1. PICK q \in Seq(P) : q = queues[l]
    BY DEF QueuesOf
  <2>2. new[l] = q \/ new[l] = Append(q, p)
    BY <1>2, <2>1
  <2>3. /\ DOMAIN q = 1 .. Len(q) /\ Len(q) \in Nat
        /\ DOMAIN q \subseteq DOMAIN Append(q, p) /\ \A i \in DOMAIN q : Append(q, p)[i] = q[i]
    BY AppendProperties
  <2>4. QED
    BY <2>1, <2>2, <2>3
<1>4. Contents(queues) \subseteq Contents(new)
  BY <1>3 DEF Contents
<1>5. p \in Contents(new)
  <2>1. PICK k \in Levels : k = p.priority
    OBVIOUS
  <2>2. new[k] = Append(queues[k], p)
    BY <1>2, <2>1
  <2>3. Len(queues[k]) + 1 \in DOMAIN new[k] /\ new[k][Len(queues[k]) + 1] = p
    BY <1>3, <2>2, AppendProperties DEF QueuesOf
  <2>4. QED
    BY <2>3 DEF Contents
<1>6. ASSUME NEW l \in Levels, NEW i \in DOMAIN new[l] PROVE new[l][i] \in Contents(queues) \cup {p}
  <2>1. CASE l # p.priority
    BY <1>2, <1>6, <2>1 DEF Contents
  <2>2. CASE l = p.priority
    <3>1. new[l] = Append(queues[l], p)
      BY <1>2, <2>2
    <3>2. i \in 1 .. Len(queues[l]) + 1
      BY <1>3, <1>6, <3>1, AppendProperties DEF QueuesOf
    <3>3. CASE i = Len(queues[l]) + 1
      BY <1>3, <3>1, <3>3, AppendProperties DEF QueuesOf
    <3>4. CASE i \in DOMAIN queues[l]
      BY <1>3, <3>4 DEF Contents
    <3>5. QED
      BY <1>3, <3>2, <3>3, <3>4
  <2>3. QED
    BY <2>1, <2>2
<1>7. Contents(new) \subseteq Contents(queues) \cup {p}
  BY <1>6 DEF Contents
<1>8. Contents(new) = Contents(queues) \cup {p}
  BY <1>4, <1>5, <1>7
<1>9. QED
  BY <1>8 DEF new

LEMMA EnqueueContents ==
  ASSUME NEW P, NEW queues \in QueuesOf(P), NEW burst \in BurstOf(P)
  PROVE  Contents(Enqueue(queues, burst))
           = Contents(queues) \cup {burst[i] : i \in DOMAIN burst}
<1>1. /\ Len(burst) \in Nat /\ DOMAIN burst = 1 .. Len(burst)
      /\ \A i \in 1 .. Len(burst) : burst[i] \in P /\ burst[i].priority \in Levels
  BY BurstPackets
<1>2. PICK f : /\ f[0] = queues
               /\ \A i \in 1 .. Len(burst) : f[i] = Classify(f[i - 1], burst[i])
               /\ Enqueue(queues, burst) = f[Len(burst)]
  BY <1>1, EnqueueSteps
<1> DEFINE S == {i \in 0 .. Len(burst) :
                   /\ f[i] \in QueuesOf(P)
                   /\ Contents(f[i]) = Contents(queues) \cup {burst[j] : j \in 1 .. i}}
<1>3. 0 \in S /\ S \in SUBSET (0 .. Len(burst))
  BY <1>1, <1>2
<1>4. ASSUME NEW i \in S, i + 1 <= Len(burst) PROVE i + 1 \in S
  <2>1. /\ i + 1 \in 1 .. Len(burst) /\ (i + 1) - 1 = i /\ f[i] \in QueuesOf(P)
        /\ Contents(f[i]) = Contents(queues) \cup {burst[j] : j \in 1 .. i}
    BY <1>1, <1>4
  <2>2. PICK p \in P : p = burst[i + 1] /\ p.priority \in Levels /\ f[i + 1] = Classify(f[i], p)
    BY <1>1, <1>2, <2>1
  <2>3. /\ Classify(f[i], p) \in QueuesOf(P)
        /\ Contents(Classify(f[i], p)) = Contents(f[i]) \cup {p}
    BY <2>1, <2>2, ClassifyAppends, ClassifyContents
  <2>4. 1 .. i + 1 = (1 .. i) \cup {i + 1}
    BY <2>1
  <2>5. {burst[j] : j \in 1 .. i + 1} = {burst[j] : j \in 1 .. i} \cup {p}
    BY <2>2, <2>4
  <2>6. QED
    BY <2>1, <2>2, <2>3, <2>5
<1> HIDE DEF S
<1>5. S = 0 .. Len(burst)
  BY <1>1, <1>3, <1>4, Induction
<1>6. Len(burst) \in S
  BY <1>1, <1>5
<1>7. QED
  BY <1>1, <1>2, <1>6 DEF S

-----------------------------------------------------------------------------
(***************************************************************************)
(* The budget: Room is the function its definition names, and every level  *)
(* takes from it what it pops.                                             *)
(***************************************************************************)
RoomUpTo(queues, n, f) ==
  f = [l \in 0 .. n |-> IF l = 0 THEN FlushBudget
                        ELSE IF Len(queues[l - 1]) < f[l - 1]
                             THEN f[l - 1] - Len(queues[l - 1]) ELSE 0]

LEMMA RoomExists ==
  ASSUME NEW queues, NEW n \in Nat
  PROVE  \E f : RoomUpTo(queues, n, f)
<1> DEFINE S == {k \in 0 .. n : \E f : RoomUpTo(queues, k, f)}
<1>1. 0 \in S
  <2>1. RoomUpTo(queues, 0, [l \in 0 .. 0 |-> FlushBudget])
    BY DEF RoomUpTo
  <2>2. QED
    BY <2>1
<1>2. ASSUME NEW k \in S, k + 1 <= n PROVE k + 1 \in S
  <2>1. PICK f : RoomUpTo(queues, k, f)
    OBVIOUS
  <2> DEFINE next == IF Len(queues[k]) < f[k] THEN f[k] - Len(queues[k]) ELSE 0
             g    == [l \in 0 .. k + 1 |-> IF l = k + 1 THEN next ELSE f[l]]
  <2> HIDE DEF next
  <2>2. k \in Nat /\ g[k + 1] = next /\ \A l \in 0 .. k : g[l] = f[l]
    OBVIOUS
  <2>3. f = [l \in 0 .. k |-> IF l = 0 THEN FlushBudget
                              ELSE IF Len(queues[l - 1]) < f[l - 1]
                                   THEN f[l - 1] - Len(queues[l - 1]) ELSE 0]
    BY <2>1 DEF RoomUpTo
  <2>4. \A l \in 0 .. k + 1 : g[l] = IF l = 0 THEN FlushBudget
                                    ELSE IF Len(queues[l - 1]) < g[l - 1]
                                         THEN g[l - 1] - Len(queues[l - 1]) ELSE 0
    <3> SUFFICES ASSUME NEW l \in 0 .. k + 1
                 PROVE  g[l] = IF l = 0 THEN FlushBudget
                               ELSE IF Len(queues[l - 1]) < g[l - 1]
                                    THEN g[l - 1] - Len(queues[l - 1]) ELSE 0
      OBVIOUS
    <3>1. CASE l = k + 1
      BY <2>2, <3>1 DEF next
    <3>2. CASE l \in 0 .. k
      <4>1. f[l] = IF l = 0 THEN FlushBudget
                   ELSE IF Len(queues[l - 1]) < f[l - 1]
                        THEN f[l - 1] - Len(queues[l - 1]) ELSE 0
        BY <2>3, <3>2
      <4>2. l # 0 => g[l - 1] = f[l - 1]
        BY <2>2, <3>2
      <4>3. QED
        BY <2>2, <3>2, <4>1, <4>2
    <3>3. QED
      BY <2>2, <3>1, <3>2
  <2>5. RoomUpTo(queues, k + 1, g)
    BY <2>4 DEF RoomUpTo
  <2>6. QED
    BY <1>2, <2>5
<1>3. S \in SUBSET (0 .. n)
  OBVIOUS
<1> HIDE DEF S
<1>4. S = 0 .. n
  BY <1>1, <1>2, <1>3, Induction
<1>5. n \in S
  BY <1>4
<1>6. QED
  BY <1>5 DEF S

LEMMA RoomSteps ==
  ASSUME NEW P, NEW queues \in QueuesOf(P)
  PROVE  /\ Room(queues)[0] = FlushBudget
         /\ \A l \in Levels : Room(queues)[l] \in Nat
         /\ \A l \in Levels : l # 0 =>
              Room(queues)[l] = Room(queues)[l - 1] - PopCount(queues, l - 1)
<1> DEFINE n == Len(Thresholds)
           r == Room(queues)
<1>1. n \in Nat /\ Levels = 0 .. n /\ FlushBudget \in Nat
  BY QueueAssumption DEF Levels
<1>2. \A l \in Levels : Len(queues[l]) \in Nat
  BY DEF QueuesOf
<1>3. \E f : RoomUpTo(queues, n, f)
  BY <1>1, RoomExists
<1>4. RoomUpTo(queues, n, r)
  BY <1>1, <1>3 DEF Room, RoomUpTo
<1> HIDE DEF r, n
<1>5. /\ r[0] = FlushBudget
      /\ \A l \in 1 .. n : r[l] = IF Len(queues[l - 1]) < r[l - 1]
                                THEN r[l - 1] - Len(queues[l - 1]) ELSE 0
  BY <1>1, <1>4 DEF RoomUpTo
<1>6. \A l \in Levels : r[l] \in Nat
  <2> DEFINE S == {l \in 0 .. n : r[l] \in Nat}
  <2>1. 0 \in S /\ S \in SUBSET (0 .. n)
    BY <1>1, <1>5
  <2>2. ASSUME NEW l \in S, l + 1 <= n PROVE l + 1 \in S
    <3>1. l + 1 \in 1 .. n /\ (l + 1) - 1 = l /\ l \in Levels /\ r[l] \in Nat
      BY <1>1, <2>2
    <3>2. r[l + 1] = IF Len(queues[l]) < r[l] THEN r[l] - Len(queues[l]) ELSE 0
      BY <1>5, <3>1
    <3>3. r[l + 1] \in Nat
      BY <1>2, <3>1, <3>2
    <3>4. QED
      BY <3>1, <3>3
  <2> HIDE DEF S
  <2>3. S = 0 .. n
    BY <1>1, <2>1, <2>2, Induction
  <2>4. QED
    BY <1>1, <2>3 DEF S
<1>7. ASSUME NEW l \in Levels, l # 0 PROVE r[l] = r[l - 1] - PopCount(queues, l - 1)
  <2>1. l \in 1 .. n /\ l - 1 \in Levels
    BY <1>1, <1>7
  <2>2. r[l - 1] \in Nat /\ Len(queues[l - 1]) \in Nat
    BY <1>2, <1>6, <2>1
  <2>3. PopCount(queues, l - 1) = IF Len(queues[l - 1]) < r[l - 1] THEN Len(queues[l - 1]) ELSE r[l - 1]
    BY DEF PopCount, r
  <2>4. QED
    BY <1>5, <2>1, <2>2, <2>3
<1>8. QED
  BY <1>5, <1>6, <1>7 DEF r

(***************************************************************************)
(* A batch is the front of each queue; what stays behind is the rest, and  *)
(* something stays behind only when the room of its level was used up.     *)
(***************************************************************************)
LEMMA BatchSplits ==
  ASSUME NEW P, NEW queues \in QueuesOf(P)
  PROVE  /\ Popped(queues) \in QueuesOf(P) /\ Kept(queues) \in QueuesOf(P)
         /\ Behind(Popped(queues), Kept(queues)) = queues
         /\ \A l \in Levels :
              /\ PopCount(queues, l) \in Nat
              /\ Kept(queues)[l] # <<>> => PopCount(queues, l) = Room(queues)[l]
<1>1. ASSUME NEW l \in Levels
      PROVE  /\ Popped(queues)[l] \in Seq(P) /\ Kept(queues)[l] \in Seq(P)
             /\ Popped(queues)[l] \o Kept(queues)[l] = queues[l]
             /\ PopCount(queues, l) \in Nat
             /\ Kept(queues)[l] # <<>> => PopCount(queues, l) = Room(queues)[l]
  <2>1. PICK q \in Seq(P) : q = queues[l]
    BY DEF QueuesOf
  <2>2. Room(queues)[l] \in Nat /\ Len(q) \in Nat
    BY RoomSteps
  <2>3. PICK n \in 0 .. Len(q) : n = PopCount(queues, l) /\ (n = Len(q) \/ n = Room(queues)[l])
    BY <2>1, <2>2 DEF PopCount
  <2>4. Popped(queues)[l] = SubSeq(q, 1, n) /\ Kept(queues)[l] = SubSeq(q, n + 1, Len(q))
    BY <2>1, <2>3 DEF Popped, Kept
  <2>5. SubSeq(q, 1, n) \in Seq(P) /\ SubSeq(q, n + 1, Len(q)) \in Seq(P)
    BY <2>2, SubSeqProperties
  <2>6. SubSeq(q, 1, n) \o SubSeq(q, n + 1, Len(q)) = SubSeq(q, 1, Len(q))
    <3>1. 1 \in 1 .. Len(q) + 1 /\ n \in 1 - 1 .. Len(q) /\ Len(q) \in n .. Len(q)
      BY <2>2
    <3>2. QED
      BY <3>1, ConcatAdjacentSubSeq
  <2>7. SubSeq(q, 1, Len(q)) = q
    BY SubSeqFull
  <2>8. n = Len(q) => SubSeq(q, n + 1, Len(q)) = <<>>
    BY <2>2, SubSeqEmpty
  <2>9. Popped(queues)[l] \o Kept(queues)[l] = q
    BY <2>4, <2>6, <2>7
  <2>10. Kept(queues)[l] # <<>> => PopCount(queues, l) = Room(queues)[l]
    BY <2>3, <2>4, <2>8
  <2>11. PopCount(queues, l) \in Nat
    BY <2>2, <2>3
  <2>12. QED
    BY <2>1, <2>4, <2>5, <2>9, <2>10, <2>11
<1>2. Popped(queues) \in QueuesOf(P) /\ Kept(queues) \in QueuesOf(P)
  BY <1>1 DEF Popped, Kept, QueuesOf
<1>3. Behind(Popped(queues), Kept(queues)) = queues
  BY <1>1 DEF Behind, QueuesOf
<1>4. QED
  BY <1>1, <1>2, <1>3
=============================================================================
