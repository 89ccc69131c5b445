----------------------------- MODULE NatLemmas ------------------------------
(***************************************************************************)
(* Facts about natural numbers: least elements, induction, and the packet  *)
(* grid, multiples of P and the slot a \div P that holds position a.       *)
(***************************************************************************)
EXTENDS Integers, TLAPS, WellFoundedInduction

\* A set of numbers has a least one.
LEMMA LeastNat ==
  ASSUME NEW S \in SUBSET Nat, S # {}
  PROVE  \E i \in S : \A j \in S : i <= j
<1> DEFINE less == {ss \in Nat \X Nat : ss[1] < ss[2]}
<1>1. IsWellFoundedOn(less, Nat)
  BY NatLessThanWellFounded DEF OpToRel
<1>2. \A i, j \in Nat : ~ (<<j, i>> \in less) => i <= j
  OBVIOUS
<1> HIDE DEF less
<1>3. \E i \in S : \A j \in S : ~ (<<j, i>> \in less)
  BY <1>1, WFMin
<1> QED BY <1>2, <1>3

\* Induction: the numbers up to n for which something holds are all of them
\* if it holds for 0 and of i + 1 with i.
LEMMA Induction ==
  ASSUME NEW n \in Nat, NEW S \in SUBSET (0 .. n), 0 \in S,
         \A i \in S : i + 1 <= n => i + 1 \in S
  PROVE  S = 0 .. n
<1> DEFINE rest == (0 .. n) \ S
<1> SUFFICES ASSUME rest # {} PROVE FALSE
  OBVIOUS
<1>a. rest \in SUBSET Nat
  OBVIOUS
<1> HIDE DEF rest
<1>1. PICK k \in rest : \A j \in rest : k <= j
  BY <1>a, LeastNat
<1> USE DEF rest
<1>2. k # 0 /\ k - 1 \in S
  BY <1>1
<1> QED BY <1>1, <1>2

\* A sum over one more slot is one P longer, and products are monotone.
LEMMA MulMono ==
  ASSUME NEW P \in Nat, NEW i \in Nat, NEW j \in Nat, i <= j
  PROVE  i * P \in Nat /\ j * P \in Nat /\ i * P <= j * P
<1>1. j * P = i * P + (j - i) * P
  OBVIOUS
<1>2. (j - i) * P \in Nat
  OBVIOUS
<1> QED BY <1>1, <1>2

\* Slot a \div P is the one that holds a.
LEMMA DivBounds ==
  ASSUME NEW P \in Nat \ {0}, NEW a \in Nat
  PROVE  /\ a \div P \in Nat
         /\ (a \div P) * P \in Nat
         /\ (a \div P) * P <= a
         /\ a < (a \div P) * P + P
  OBVIOUS

\* ... and the only one.
LEMMA DivUnique ==
  ASSUME NEW P \in Nat \ {0}, NEW a \in Nat, NEW k \in Nat,
         k * P <= a, a < k * P + P
  PROVE  a \div P = k
<1> DEFINE j == a \div P
<1>1. j \in Nat /\ j * P <= a /\ a < j * P + P
  BY DivBounds
<1>2. CASE j < k
  <2>1. (j + 1) * P <= k * P
    BY <1>1, <1>2, MulMono
  <2> QED BY <1>1, <2>1
<1>3. CASE k < j
  <2>1. (k + 1) * P <= j * P
    BY <1>1, <1>3, MulMono
  <2> QED BY <1>1, <2>1
<1> QED BY <1>1, <1>2, <1>3
=============================================================================
