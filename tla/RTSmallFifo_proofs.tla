------------------------- MODULE RTSmallFifo_proofs -------------------------
(***************************************************************************)
(* The small FIFO inherits what is proved of the ring buffer, and its      *)
(* offsets never overflow.                                                 *)
(***************************************************************************)
EXTENDS RTSmallFifo, RTFifo_proofs

LEMMA SmallNextIsNext == [SmallNext]_vars <=> [Next]_vars
  BY DEF SmallNext, Next, RTSmallFifoInit, RTSmallFifoPush, RTSmallFifoPop

LEMMA SmallSpecIsSpec == SmallSpec => Spec
  BY SmallNextIsNext, PTL DEF SmallSpec, Spec

(* Every slot below the capacity has a representable offset: the largest   *)
(* is (255 - 1) * 255.                                                     *)
LEMMA SlotsAddressable ==
    ASSUME IInv
    PROVE  Addressable(head) /\ Addressable(tail)
<1>1. /\ head \in 0..CounterMax /\ tail \in 0..CounterMax
      /\ itemSize \in 1..CounterMax /\ CounterMax \in Nat /\ IntMax \in Nat
  BY FifoAssumption DEF IInv, TypeOK
<1>2. \A a, b, c \in Nat : a <= c /\ b <= c => a * b <= c * c
  <2> SUFFICES ASSUME NEW a \in Nat, NEW b \in Nat, NEW c \in Nat,
                      a <= c, b <= c
               PROVE  a * b <= c * c
    OBVIOUS
  <2>1. a * b <= c * b
    OBVIOUS
  <2>2. c * b <= c * c
    OBVIOUS
  <2> QED
    BY <2>1, <2>2
<1>3. /\ head * itemSize <= CounterMax * CounterMax
      /\ tail * itemSize <= CounterMax * CounterMax
  BY <1>1, <1>2
<1>4. /\ head * itemSize \in Int /\ tail * itemSize \in Int
      /\ CounterMax * CounterMax \in Int
  BY <1>1
<1> QED
  BY <1>1, <1>3, <1>4, SmallFifoAssumption DEF Addressable

LEMMA OffsetDefinedStep ==
    ASSUME IInv, OffsetDefined, [Next]_vars
    PROVE  OffsetDefined'
<1>1. CASE UNCHANGED vars
  BY <1>1 DEF vars, OffsetDefined
<1>2. ASSUME NEW cap \in 0..CounterMax, NEW n \in 0..CounterMax,
             RTFifoInit(cap, n)
      PROVE  OffsetDefined'
  BY <1>2 DEF RTFifoInit, Stop, OffsetDefined
<1>3. ASSUME NEW n \in 0..CounterMax, NEW x \in [1..n -> Byte],
             RTFifoPush(n, x)
      PROVE  OffsetDefined'
  BY <1>3, SlotsAddressable DEF RTFifoPush, Stop, OffsetDefined
<1>4. ASSUME NEW n \in 0..CounterMax, RTFifoPop(n)
      PROVE  OffsetDefined'
  BY <1>4, SlotsAddressable DEF RTFifoPop, Stop, OffsetDefined
<1> QED
  BY <1>1, <1>2, <1>3, <1>4 DEF Next

(* RTSmallFifoPush and RTSmallFifoPop compute every offset within an int,  *)
(* for every capacity and item size a uint8_t can hold.                    *)
THEOREM SmallOffsetDefined == SmallSpec => []OffsetDefined
<1>1. Init => OffsetDefined
  BY DEF Init, OffsetDefined
<1>2. IInv /\ OffsetDefined /\ [Next]_vars => OffsetDefined'
  BY OffsetDefinedStep
<1>3. Spec => []OffsetDefined
  BY <1>1, <1>2, Invariance, PTL DEF Spec
<1> QED
  BY <1>3, SmallSpecIsSpec, PTL

(* The small FIFO is a bounded queue, without reservation.                 *)
THEOREM SmallImplementsBoundedQueue == SmallSpec => ImplementsQueue
  BY SmallSpecIsSpec, ImplementsBoundedQueue, PTL
=============================================================================
