--------------------------- MODULE RTFifo_proofs ---------------------------
(***************************************************************************)
(* Proofs about the ring buffer, for every range of the counters, every    *)
(* set of byte values and every amount of memory.                          *)
(***************************************************************************)
EXTENDS RTFifo, SequenceTheorems, TLAPS

(* What the initial states and every step establish. *)
IInv == TypeOK /\ RingInv

(***************************************************************************)
(* Arithmetic of the indices.                                              *)
(***************************************************************************)

(* In a FIFO whose fields are consistent, none of the ++ and -- wraps at   *)
(* the end of the field: the ring closes at capacity first.                *)
LEMMA NoWrap ==
    ASSUME TypeOK, RingInv
    PROVE  /\ size < capacity => Increment(size) = size + 1
           /\ size > 0 => Decrement(size) = size - 1
           /\ \A i \in 0..(capacity - 1) :
                 Advance(i) = IF i + 1 = capacity THEN 0 ELSE i + 1
  BY FifoAssumption DEF TypeOK, RingInv, Increment, Decrement, Advance

(* The items a FIFO holds lie in its buffer. *)
LEMMA SlotOfInBuffer ==
    ASSUME TypeOK, RingInv, NEW k \in 1..(size + 1)
    PROVE  SlotOf(k) \in 0..(capacity - 1)
  BY FifoAssumption DEF TypeOK, RingInv, SlotOf

(* The slot at head holds an item only when the FIFO is full. *)
LEMMA HeadIsFree ==
    ASSUME TypeOK, RingInv, size < capacity, NEW k \in 1..size
    PROVE  SlotOf(k) # head
  BY FifoAssumption DEF TypeOK, RingInv, SlotOf

(***************************************************************************)
(* Slots in memory.                                                        *)
(***************************************************************************)

(* A slot ends before the next one begins. *)
LEMMA SlotsInOrder ==
    ASSUME NEW i \in Nat, NEW j \in Nat, i < j, NEW n \in Nat
    PROVE  /\ i * n \in Nat /\ j * n \in Nat
           /\ i * n + n <= j * n
<1>1. \A a \in Nat : (i + 1 + a) * n = i * n + n + a * n
  OBVIOUS
<1>2. PICK a \in Nat : j = i + 1 + a
  <2>1. j - i - 1 \in Nat /\ j = i + 1 + (j - i - 1)
    OBVIOUS
  <2> QED
    BY <2>1
<1>3. i * n \in Nat /\ a * n \in Nat /\ j * n \in Nat
  OBVIOUS
<1>4. j * n = i * n + n + a * n
  BY <1>1, <1>2
<1> QED
  BY <1>3, <1>4

(* The slots of a FIFO lie in its memory. *)
LEMMA SlotInMemory ==
    ASSUME TypeOK, NEW i \in 0..(capacity - 1)
    PROVE  /\ i * itemSize \in Nat
           /\ i * itemSize + itemSize <= Memory
<1>1. i \in Nat /\ capacity \in Nat /\ i < capacity /\ itemSize \in Nat
  BY FifoAssumption DEF TypeOK
<1>2. /\ i * itemSize \in Nat /\ capacity * itemSize \in Nat
      /\ i * itemSize + itemSize <= capacity * itemSize
  BY <1>1, SlotsInOrder
<1>3. capacity * itemSize <= Memory /\ Memory \in Nat
  BY FifoAssumption DEF TypeOK, Fits
<1> QED
  BY <1>1, <1>2, <1>3

LEMMA SlotBytesType ==
    ASSUME TypeOK, NEW i \in 0..(capacity - 1)
    PROVE  SlotBytes(i) \in [1..itemSize -> Byte]
<1> DEFINE a == i * itemSize
<1>1. a \in Nat /\ a + itemSize <= Memory /\ itemSize \in Nat
  BY SlotInMemory, FifoAssumption DEF TypeOK
<1>2. SlotBytes(i) = [k \in 1..itemSize |-> buffer[a + k - 1]]
  BY DEF SlotBytes
<1> HIDE DEF a
<1>3. \A k \in 1..itemSize : a + k - 1 \in Address
  BY <1>1, FifoAssumption DEF Address
<1>4. \A k \in 1..itemSize : buffer[a + k - 1] \in Byte
  BY <1>3 DEF TypeOK
<1> QED
  BY <1>2, <1>4

LEMMA WrittenType ==
    ASSUME TypeOK, NEW i \in 0..(capacity - 1),
           NEW n \in 1..itemSize, NEW x \in [1..n -> Byte]
    PROVE  Written(i, n, x) \in [Address -> Byte]
<1> DEFINE a == i * itemSize
<1>1. a \in Nat /\ n \in Nat
  BY SlotInMemory, FifoAssumption DEF TypeOK
<1>2. Written(i, n, x) = Stored(a, n, x)
  BY DEF Written
<1> HIDE DEF a
<1>3. \A b \in Address : a <= b /\ b < a + n => b - a + 1 \in 1..n
  BY <1>1, FifoAssumption DEF Address
<1>4. \A b \in Address :
        (IF a <= b /\ b < a + n THEN x[b - a + 1] ELSE buffer[b]) \in Byte
  BY <1>3 DEF TypeOK
<1> QED
  BY <1>2, <1>4 DEF Stored

(* The bytes of slot i after the step, in a slot size that did not change. *)
SlotAfter(i) == [k \in 1..itemSize |-> buffer'[i * itemSize + k - 1]]

(* A slot that is written begins with what was written ... *)
LEMMA WrittenSlot ==
    ASSUME TypeOK, NEW i \in 0..(capacity - 1),
           NEW n \in 1..itemSize, NEW x \in [1..n -> Byte],
           buffer' = Written(i, n, x)
    PROVE  \A k \in 1..n : SlotAfter(i)[k] = x[k]
<1> DEFINE a == i * itemSize
<1>1. a \in Nat /\ a + itemSize <= Memory /\ itemSize \in Nat /\ n \in Nat
  BY SlotInMemory, FifoAssumption DEF TypeOK
<1>2. buffer' = Stored(a, n, x)
  BY DEF Written
<1>3. SlotAfter(i) = [k \in 1..itemSize |-> buffer'[a + k - 1]]
  BY DEF SlotAfter
<1> HIDE DEF a
<1> SUFFICES ASSUME NEW k \in 1..n
             PROVE  buffer'[a + k - 1] = x[k]
  BY <1>1, <1>3
<1>4. a + k - 1 \in Address /\ a <= a + k - 1 /\ a + k - 1 < a + n
  BY <1>1, FifoAssumption DEF Address
<1> DEFINE b == a + k - 1
<1>5. b \in Address /\ a <= b /\ b < a + n /\ b - a + 1 = k
  BY <1>1, <1>4
<1> HIDE DEF b
<1>6. \A d \in Address : a <= d /\ d < a + n => buffer'[d] = x[d - a + 1]
  BY <1>2 DEF Stored
<1>7. buffer'[b] = x[k]
  BY <1>5, <1>6
<1> QED
  BY <1>7 DEF b

(* ... and no other slot changes. *)
LEMMA OtherSlots ==
    ASSUME TypeOK, NEW i \in 0..(capacity - 1),
           NEW n \in 1..itemSize, NEW x \in [1..n -> Byte],
           buffer' = Written(i, n, x),
           NEW j \in 0..(capacity - 1), i # j
    PROVE  SlotAfter(j) = SlotBytes(j)
<1> DEFINE a == i * itemSize
           c == j * itemSize
<1>1. itemSize \in Nat /\ n \in Nat /\ n <= itemSize
  BY FifoAssumption DEF TypeOK
<1>2. a \in Nat
  BY SlotInMemory
<1>3. c \in Nat /\ c + itemSize <= Memory
  BY SlotInMemory
<1>4. a + itemSize <= c \/ c + itemSize <= a
  <2>1. i \in Nat /\ j \in Nat /\ (i < j \/ j < i)
    BY FifoAssumption DEF TypeOK
  <2> QED
    BY <1>1, <2>1, SlotsInOrder
<1>5. buffer' = Stored(a, n, x)
  BY DEF Written
<1>6. /\ SlotBytes(j) = [k \in 1..itemSize |-> buffer[c + k - 1]]
      /\ SlotAfter(j) = [k \in 1..itemSize |-> buffer'[c + k - 1]]
  BY DEF SlotBytes, SlotAfter
<1> HIDE DEF a, c
<1>7. ASSUME NEW k \in 1..itemSize
      PROVE  buffer'[c + k - 1] = buffer[c + k - 1]
  <2>1. c + k - 1 \in Address /\ ~(a <= c + k - 1 /\ c + k - 1 < a + n)
    BY <1>1, <1>2, <1>3, <1>4, FifoAssumption DEF Address
  <2> QED
    BY <1>5, <2>1 DEF Stored
<1> QED
  BY <1>6, <1>7

(***************************************************************************)
(* The inductive invariant.                                                *)
(***************************************************************************)

LEMMA InitInv == Init => IInv
<1> SUFFICES ASSUME Init PROVE IInv
  OBVIOUS
<1>1. TypeOK
  <2>1. head \in 0..CounterMax /\ tail \in 0..CounterMax /\ size \in 0..CounterMax
    BY FifoAssumption DEF Init
  <2>2. status \in Status /\ result \in BOOLEAN
    BY DEF Init, Status
  <2>3. item \in Seq(Byte)
    BY EmptySeq DEF Init
  <2> QED
    BY <2>1, <2>2, <2>3 DEF Init, TypeOK
<1>2. RingInv
  BY FifoAssumption DEF Init, RingInv, SlotOf
<1> QED
  BY <1>1, <1>2 DEF IInv

LEMMA StopInv ==
    ASSUME IInv, NEW why \in Status, Stop(why)
    PROVE  IInv'
  BY DEF IInv, TypeOK, RingInv, SlotOf, Stop, shape, Fits

LEMMA RTFifoInitInv ==
    ASSUME IInv, NEW cap \in 0..CounterMax, NEW n \in 0..CounterMax,
           Fits(cap, n), RTFifoInit(cap, n)
    PROVE  IInv'
<1>1. CASE Stop("panic")
  BY <1>1, StopInv DEF Status
<1>2. CASE /\ cap > 0 /\ n > 0
           /\ head' = 0 /\ tail' = 0 /\ size' = 0
           /\ capacity' = cap /\ itemSize' = n
           /\ UNCHANGED <<buffer, status, result, item>>
  <2>1. TypeOK'
    BY <1>2, FifoAssumption DEF IInv, TypeOK, Fits
  <2>2. RingInv'
    BY <1>2, FifoAssumption DEF RingInv, SlotOf
  <2> QED
    BY <2>1, <2>2 DEF IInv
<1> QED
  BY <1>1, <1>2 DEF RTFifoInit

LEMMA RTFifoPushInv ==
    ASSUME IInv, NEW n \in 0..CounterMax, NEW x \in [1..n -> Byte],
           RTFifoPush(n, x)
    PROVE  IInv'
<1>1. CASE Stop("panic") \/ Stop("undefined")
  BY <1>1, StopInv DEF Status
<1>2. CASE UNCHANGED <<head, tail, size, shape, buffer, status, item>>
           /\ result' = FALSE
  BY <1>2 DEF IInv, TypeOK, RingInv, SlotOf, shape, Fits
<1>3. CASE /\ n \in 1..itemSize
           /\ size < capacity
           /\ buffer' = Written(head, n, x)
           /\ head' = Advance(head)
           /\ size' = Increment(size)
           /\ result' = TRUE
           /\ UNCHANGED <<tail, shape, status, item>>
  <2>1. /\ size' = size + 1
        /\ head' = IF head + 1 = capacity THEN 0 ELSE head + 1
    BY <1>3, NoWrap DEF IInv, TypeOK, RingInv
  <2>2. buffer' \in [Address -> Byte]
    <3>1. head \in 0..(capacity - 1)
      BY FifoAssumption DEF IInv, TypeOK, RingInv
    <3> QED
      BY <1>3, <3>1, WrittenType DEF IInv
  <2>3. TypeOK'
    BY <1>3, <2>1, <2>2, FifoAssumption DEF IInv, TypeOK, RingInv, shape, Fits
  <2>4. RingInv'
    BY <1>3, <2>1, FifoAssumption DEF IInv, TypeOK, RingInv, SlotOf, shape
  <2> QED
    BY <2>3, <2>4 DEF IInv
<1> QED
  BY <1>1, <1>2, <1>3 DEF RTFifoPush

LEMMA RTFifoPopInv ==
    ASSUME IInv, NEW n \in 0..CounterMax, RTFifoPop(n)
    PROVE  IInv'
<1>1. CASE Stop("panic") \/ Stop("undefined")
  BY <1>1, StopInv DEF Status
<1>2. CASE UNCHANGED <<head, tail, size, shape, buffer, status, item>>
           /\ result' = FALSE
  BY <1>2 DEF IInv, TypeOK, RingInv, SlotOf, shape, Fits
<1>3. CASE /\ size > 0
           /\ item' = SlotBytes(tail)
           /\ tail' = Advance(tail)
           /\ size' = Decrement(size)
           /\ result' = TRUE
           /\ UNCHANGED <<head, shape, buffer, status>>
  <2>1. /\ size' = size - 1
        /\ tail' = IF tail + 1 = capacity THEN 0 ELSE tail + 1
    BY <1>3, NoWrap DEF IInv, TypeOK, RingInv
  <2>2. SlotBytes(tail) \in Seq(Byte)
    <3>1. tail \in 0..(capacity - 1) /\ itemSize \in Nat
      BY FifoAssumption DEF IInv, TypeOK, RingInv
    <3>2. SlotBytes(tail) \in [1..itemSize -> Byte]
      BY <3>1, SlotBytesType DEF IInv
    <3> QED
      BY <3>1, <3>2
  <2>3. TypeOK'
    BY <1>3, <2>1, <2>2, FifoAssumption DEF IInv, TypeOK, RingInv, shape, Fits
  <2>4. RingInv'
    BY <1>3, <2>1, FifoAssumption DEF IInv, TypeOK, RingInv, SlotOf, shape
  <2> QED
    BY <2>3, <2>4 DEF IInv
<1> QED
  BY <1>1, <1>2, <1>3 DEF RTFifoPop

LEMMA NextInv ==
    ASSUME IInv, [Next]_vars
    PROVE  IInv'
<1>1. CASE UNCHANGED vars
  BY <1>1 DEF vars, shape, IInv, TypeOK, RingInv, SlotOf, Fits
<1>2. CASE Next
  BY <1>2, RTFifoInitInv, RTFifoPushInv, RTFifoPopInv DEF Next
<1> QED
  BY <1>1, <1>2

LEMMA Invariance == Spec => []IInv
<1>1. Init => IInv
  BY InitInv
<1>2. IInv /\ [Next]_vars => IInv'
  BY NextInv
<1> QED
  BY <1>1, <1>2, PTL DEF Spec

(* Every field of struct RTFifo stays in the range of its C type, and the  *)
(* buffer holds items of the declared size.                                *)
THEOREM TypeCorrect == Spec => []TypeOK
  BY Invariance, PTL DEF IInv

(* head, tail and size never disagree (rtfifo.c, RTFifoPush, RTFifoPop and *)
(* RTFifoInit in any order, for any capacity up to the counters' maximum). *)
THEOREM RingCorrect == Spec => []RingInv
  BY Invariance, PTL DEF IInv

(* head = tail means empty or full, and RTFifoIsEmpty and RTFifoIsFull say *)
(* which.                                                                  *)
THEOREM FullOrEmptyCorrect == Spec => []FullOrEmpty
<1>1. IInv => FullOrEmpty
  BY FifoAssumption
  DEF IInv, TypeOK, RingInv, SlotOf, FullOrEmpty, RTFifoIsEmpty, RTFifoIsFull
<1> QED
  BY <1>1, Invariance, PTL

(***************************************************************************)
(* The ring buffer implements the bounded queue.                           *)
(***************************************************************************)

LEMMA ContentsType ==
    ASSUME IInv
    PROVE  Contents \in Seq(Queue!Item) /\ Len(Contents) = size
<1>1. \A k \in 1..size : SlotBytes(SlotOf(k)) \in Queue!Item
  BY SlotOfInBuffer, SlotBytesType, FifoAssumption DEF IInv, TypeOK, Queue!Item
<1>2. size \in Nat
  BY DEF IInv, TypeOK
<1> QED
  BY <1>1, <1>2 DEF Contents

(* What a push adds to the queue: the head slot as the push leaves it. *)
LEMMA PushAppends ==
    ASSUME IInv, NEW n \in 1..itemSize, NEW x \in [1..n -> Byte],
           size < capacity,
           buffer' = Written(head, n, x),
           size' = Increment(size),
           UNCHANGED <<tail, shape>>
    PROVE  \E y \in Queue!Item :
              /\ \A k \in 1..n : y[k] = x[k]
              /\ Contents' = Append(Contents, y)
<1> DEFINE y == SlotAfter(head)
<1>1. size' = size + 1 /\ size \in Nat /\ itemSize' = itemSize
  BY NoWrap DEF IInv, TypeOK, shape
<1>2. \A k \in 1..(size + 1) : SlotOf(k)' = SlotOf(k)
  BY DEF SlotOf, shape
<1>3. head \in 0..(capacity - 1)
  BY FifoAssumption DEF IInv, TypeOK, RingInv
<1>4. \A k \in 1..(size + 1) : SlotBytes(SlotOf(k))' = SlotAfter(SlotOf(k))
  BY <1>1, <1>2 DEF SlotBytes, SlotAfter
<1>5. ASSUME NEW k \in 1..size
      PROVE  SlotAfter(SlotOf(k)) = SlotBytes(SlotOf(k))
  <2>1. SlotOf(k) \in 0..(capacity - 1) /\ SlotOf(k) # head
    BY <1>1, SlotOfInBuffer, HeadIsFree DEF IInv
  <2> QED
    BY <1>3, <2>1, OtherSlots DEF IInv
<1>6. SlotOf(size + 1) = head
  BY DEF IInv, RingInv
<1>7. Contents \in Seq(Queue!Item) /\ Len(Contents) = size
  BY ContentsType
<1>8. Contents' = [k \in 1..(size + 1) |-> SlotAfter(SlotOf(k))]
  BY <1>1, <1>4 DEF Contents
<1>9. \A k \in 1..n : y[k] = x[k]
  BY <1>3, WrittenSlot DEF IInv
<1>10. y \in Queue!Item
  <2> DEFINE a == head * itemSize
  <2>1. a \in Nat /\ a + itemSize <= Memory
    BY <1>3, SlotInMemory DEF IInv
  <2>2. itemSize \in Nat
    BY FifoAssumption DEF IInv, TypeOK
  <2>3. buffer' \in [Address -> Byte]
    BY <1>3, WrittenType DEF IInv
  <2>4. y = [b \in 1..itemSize |-> buffer'[a + b - 1]]
    BY DEF SlotAfter
  <2> HIDE DEF a, y
  <2>5. \A b \in 1..itemSize : a + b - 1 \in Address
    BY <2>1, <2>2, FifoAssumption DEF Address
  <2>6. \A b \in 1..itemSize : buffer'[a + b - 1] \in Byte
    BY <2>3, <2>5
  <2>7. y \in [1..itemSize -> Byte]
    BY <2>4, <2>6
  <2> QED
    BY <2>7 DEF Queue!Item
<1> HIDE DEF y
<1>11. \A k \in 1..(size + 1) :
          Contents'[k] = IF k = size + 1 THEN y ELSE Contents[k]
  <2>1. SlotAfter(SlotOf(size + 1)) = y
    BY <1>6 DEF y
  <2>2. \A k \in 1..size : SlotAfter(SlotOf(k)) = Contents[k]
    BY <1>5 DEF Contents
  <2> QED
    BY <1>1, <1>8, <2>1, <2>2
<1>12. Contents' \in Seq(Queue!Item) /\ Len(Contents') = size + 1
  <2>1. \A k \in 1..(size + 1) : Contents'[k] \in Queue!Item
    BY <1>1, <1>7, <1>10, <1>11, ElementOfSeq
  <2>2. Contents' = [k \in 1..(size + 1) |-> Contents'[k]]
    BY <1>8
  <2> QED
    BY <1>1, <2>1, <2>2
<1>13. /\ Append(Contents, y) \in Seq(Queue!Item)
       /\ Len(Append(Contents, y)) = size + 1
       /\ \A k \in 1..(size + 1) :
             Append(Contents, y)[k] = IF k = size + 1 THEN y ELSE Contents[k]
  BY <1>1, <1>7, <1>10, AppendProperties
<1>14. \A k \in 1..Len(Contents') : Contents'[k] = Append(Contents, y)[k]
  BY <1>11, <1>12, <1>13
<1>15. Contents' = Append(Contents, y)
  BY <1>12, <1>13, <1>14, SeqEqual
<1> QED
  BY <1>9, <1>10, <1>15

LEMMA PopTakesHead ==
    ASSUME IInv,
           size > 0,
           tail' = Advance(tail),
           size' = Decrement(size),
           UNCHANGED <<shape, buffer>>
    PROVE  /\ Contents # <<>>
           /\ SlotBytes(tail) = Head(Contents)
           /\ Contents' = Tail(Contents)
<1>1. size' = size - 1 /\ size \in Nat
  BY NoWrap DEF IInv, TypeOK
<1>2. tail' = IF tail + 1 = capacity THEN 0 ELSE tail + 1
  BY NoWrap DEF IInv, TypeOK, RingInv
<1>3. \A k \in 1..(size - 1) : SlotOf(k)' = SlotOf(k + 1)
  BY <1>2, FifoAssumption DEF IInv, TypeOK, RingInv, SlotOf, shape
<1>4. Contents \in Seq(Queue!Item) /\ Len(Contents) = size
  BY ContentsType
<1>5. SlotOf(1) = tail
  BY FifoAssumption DEF IInv, TypeOK, RingInv, SlotOf
<1>6. Contents[1] = SlotBytes(tail)
  BY <1>1, <1>5 DEF Contents
<1>7. Contents' = [k \in 1..(size - 1) |-> SlotBytes(SlotOf(k + 1))]
  BY <1>1, <1>3 DEF Contents, SlotBytes, shape
<1>8. \A k \in 1..(size - 1) : SlotBytes(SlotOf(k + 1)) = Contents[k + 1]
  BY <1>1 DEF Contents
<1>9. Contents' \in Seq(Queue!Item) /\ Len(Contents') = size - 1
  <2>1. \A k \in 1..(size - 1) : SlotBytes(SlotOf(k + 1)) \in Queue!Item
    BY <1>1, <1>4, <1>8, ElementOfSeq
  <2> QED
    BY <1>1, <1>7, <2>1
<1>10. Contents # <<>>
  BY <1>1, <1>4
<1>11. /\ Tail(Contents) \in Seq(Queue!Item)
       /\ Len(Tail(Contents)) = size - 1
       /\ \A k \in 1..(size - 1) : Tail(Contents)[k] = Contents[k + 1]
  BY <1>1, <1>4, <1>10, HeadTailProperties
<1>12. \A k \in 1..Len(Contents') : Contents'[k] = Tail(Contents)[k]
  BY <1>7, <1>8, <1>9, <1>11
<1>13. Contents' = Tail(Contents)
  BY <1>9, <1>11, <1>12, SeqEqual
<1> QED
  BY <1>4, <1>6, <1>10, <1>13, HeadTailProperties

LEMMA InitRefines == Init => Queue!Init
<1> SUFFICES ASSUME Init PROVE Queue!Init
  OBVIOUS
<1>1. Contents = <<>>
  BY DEF Init, Contents
<1> QED
  BY <1>1 DEF Init, Queue!Init

LEMMA StutterRefines ==
    ASSUME UNCHANGED <<tail, size, shape, buffer, result, item>>
    PROVE  UNCHANGED Queue!vars
  BY DEF Queue!vars, Contents, SlotOf, SlotBytes, shape

LEMMA InitCallRefines ==
    ASSUME IInv, NEW cap \in 0..CounterMax, NEW n \in 0..CounterMax,
           RTFifoInit(cap, n)
    PROVE  [Queue!Next]_(Queue!vars)
<1>1. CASE Stop("panic")
  BY <1>1, StutterRefines DEF Stop
<1>2. CASE /\ cap > 0 /\ n > 0 /\ size' = 0 /\ capacity' = cap /\ itemSize' = n
           /\ UNCHANGED <<result, item>>
  <2>1. Contents' = <<>>
    BY <1>2 DEF Contents
  <2> QED
    BY <1>2, <2>1, FifoAssumption DEF Queue!Next, Queue!Reset
<1> QED
  BY <1>1, <1>2 DEF RTFifoInit

LEMMA PushRefines ==
    ASSUME IInv, NEW n \in 0..CounterMax, NEW x \in [1..n -> Byte],
           RTFifoPush(n, x)
    PROVE  [Queue!Next]_(Queue!vars)
<1>1. CASE Stop("panic") \/ Stop("undefined")
  BY <1>1, StutterRefines DEF Stop
<1>2. CASE /\ ~(size < capacity)
           /\ result' = FALSE
           /\ UNCHANGED <<head, tail, size, shape, buffer, status, item>>
  <2>1. Len(Contents) = capacity
    BY <1>2, ContentsType, FifoAssumption DEF IInv, TypeOK, RingInv
  <2>2. Contents' = Contents
    BY <1>2 DEF Contents, SlotOf, SlotBytes, shape
  <2> QED
    BY <1>2, <2>1, <2>2 DEF Queue!Next, Queue!Refuse, shape
<1>3. CASE /\ n \in 1..itemSize
           /\ size < capacity
           /\ buffer' = Written(head, n, x)
           /\ size' = Increment(size)
           /\ result' = TRUE
           /\ UNCHANGED <<tail, shape, status, item>>
  <2>1. Len(Contents) < capacity
    BY <1>3, ContentsType
  <2>2. \E y \in Queue!Item :
              /\ \A k \in 1..n : y[k] = x[k]
              /\ Contents' = Append(Contents, y)
    BY <1>3, PushAppends
  <2>3. Queue!Accept(n, x)
    BY <1>3, <2>1, <2>2 DEF Queue!Accept, shape
  <2> QED
    BY <1>3, <2>3 DEF Queue!Next
<1> QED
  BY <1>1, <1>2, <1>3 DEF RTFifoPush

LEMMA PopRefines ==
    ASSUME IInv, NEW n \in 0..CounterMax, RTFifoPop(n)
    PROVE  [Queue!Next]_(Queue!vars)
<1>1. CASE Stop("panic") \/ Stop("undefined")
  BY <1>1, StutterRefines DEF Stop
<1>2. CASE /\ ~(size > 0)
           /\ result' = FALSE
           /\ UNCHANGED <<head, tail, size, shape, buffer, status, item>>
  <2>1. size = 0
    BY <1>2 DEF IInv, TypeOK
  <2>2. Contents = <<>> /\ Contents' = Contents
    BY <1>2, <2>1 DEF Contents, SlotOf, SlotBytes, shape
  <2> QED
    BY <1>2, <2>2 DEF Queue!Next, Queue!Starve, shape
<1>3. CASE /\ size > 0
           /\ item' = SlotBytes(tail)
           /\ tail' = Advance(tail)
           /\ size' = Decrement(size)
           /\ result' = TRUE
           /\ UNCHANGED <<head, shape, buffer, status>>
  BY <1>3, PopTakesHead DEF Queue!Next, Queue!Deliver, shape
<1> QED
  BY <1>1, <1>2, <1>3 DEF RTFifoPop

LEMMA NextRefines ==
    ASSUME IInv, [Next]_vars
    PROVE  [Queue!Next]_(Queue!vars)
<1>1. CASE UNCHANGED vars
  BY <1>1, StutterRefines DEF vars
<1>2. CASE Next
  BY <1>2, InitCallRefines, PushRefines, PopRefines DEF Next
<1> QED
  BY <1>1, <1>2

(* RTFifoPush, RTFifoPop and RTFifoInit behave as a bounded first-in       *)
(* first-out queue, up to the call whose offset would overflow.            *)
THEOREM ImplementsBoundedQueue == Spec => ImplementsQueue
<1>1. Init => Queue!Init
  BY InitRefines
<1>2. IInv /\ [Next]_vars => [Queue!Next]_(Queue!vars)
  BY NextRefines
<1> QED
  BY <1>1, <1>2, Invariance, PTL DEF Spec, ImplementsQueue, Queue!Spec
=============================================================================
