------------------------------ MODULE TxQueues ------------------------------
(***************************************************************************)
(* The sending queues of an endpoint: src/transport/txqueue.rs and         *)
(* priority.rs.  Level 0 is the most urgent.                               *)
(***************************************************************************)
EXTENDS Integers, Sequences

CONSTANTS
  Thresholds,  \* THRESHOLDS without the last, infinite one: lengths, in order
  FlushBudget  \* FLUSH_BUDGET, 256 in the code

ASSUME QueueAssumption ==
  /\ Thresholds \in Seq(Nat)
  /\ FlushBudget \in Nat \ {0}

Levels == 0 .. Len(Thresholds)

\* priority_for_len: the first level whose bound is not below the length.
PriorityForLen(len) ==
  CHOOSE l \in Levels :
    /\ l = Len(Thresholds) \/ len <= Thresholds[l + 1]
    /\ \A k \in 0 .. l - 1 : len > Thresholds[k + 1]

NoQueues == [l \in Levels |-> <<>>]

\* classify a DATA packet: it joins the end of the queue its priority names.
Classify(queues, packet) == [queues EXCEPT ![packet.priority] = Append(@, packet)]

\* The loop of drain over the packets of a handler.
Enqueue(queues, burst) ==
  LET after[i \in 0 .. Len(burst)] ==
        IF i = 0 THEN queues ELSE Classify(after[i - 1], burst[i])
  IN  after[Len(burst)]

(***************************************************************************)
(* pop_batch: level by level, as much as is there and the budget allows.   *)
(* Room[l] is what is left of the budget when the loop comes to level l.   *)
(***************************************************************************)
Room(queues) ==
  LET room[l \in Levels] ==
        IF l = 0 THEN FlushBudget
        ELSE IF Len(queues[l - 1]) < room[l - 1]
             THEN room[l - 1] - Len(queues[l - 1]) ELSE 0
  IN  room

\* Mutant of PopCount: the budget is per level.
PopCount_PerLevel(queues, l) ==
  IF Len(queues[l]) < FlushBudget THEN Len(queues[l]) ELSE FlushBudget

PopCount(queues, l) ==
  IF Len(queues[l]) < Room(queues)[l] THEN Len(queues[l]) ELSE Room(queues)[l]

\* Mutant of Popped: the newest packets of a level leave first.
Popped_Newest(queues) ==
  [l \in Levels |-> SubSeq(queues[l], Len(queues[l]) - PopCount(queues, l) + 1, Len(queues[l]))]

Popped(queues) == [l \in Levels |-> SubSeq(queues[l], 1, PopCount(queues, l))]

\* Mutant of Kept: what the budget leaves behind is dropped.
Kept_Dropped(queues) == NoQueues
Kept(queues) ==
  [l \in Levels |-> SubSeq(queues[l], PopCount(queues, l) + 1, Len(queues[l]))]
=============================================================================
