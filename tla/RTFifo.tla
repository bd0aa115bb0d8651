------------------------------- MODULE RTFifo -------------------------------
(***************************************************************************)
(* The ring buffer of src/rtfifo/src/rtfifo.c.                             *)
(*                                                                         *)
(* rtfifo.c has the same code twice, for uint16_t fields (RTFifo) and for  *)
(* uint8_t fields (RTSmallFifo).  This module is that code with the range  *)
(* of the fields as a parameter; RTSmallFifo instantiates it.              *)
(*                                                                         *)
(* A call is one step: rtfifo takes no lock and calls nothing that can     *)
(* re-enter it, and its users are single-threaded (README.md, "bare        *)
(* metal").  An RTASSERT that fails ends the program (RTPanic); an index   *)
(* computation that overflows `int` has no defined outcome, and the model  *)
(* stops there as well, with a status of its own.                          *)
(***************************************************************************)
EXTENDS Integers, Sequences

CONSTANTS
    CounterMax,     \* largest value of head, tail, size, capacity, itemSize_B
    IntMax,         \* largest value of the `int` in which offsets are computed
    Byte,           \* the values a byte can take
    Memory          \* bytes in the memory the caller provides

ASSUME FifoAssumption ==
    /\ CounterMax \in Nat
    /\ IntMax \in Nat
    /\ Memory \in Nat
    /\ Byte # {}

VARIABLES
    head, tail, size,               \* the fields of struct RTFifo
    capacity, itemSize,
    buffer,                         \* the memory behind fifo->buffer
    status,                         \* running, or why the program has stopped
    result,                         \* what the last push or pop returned
    item                            \* what the last pop delivered

shape == <<capacity, itemSize>>
vars == <<head, tail, size, shape, buffer, status, result, item>>

Address == 0..(Memory - 1)
Status == {"running", "panic", "undefined"}

-----------------------------------------------------------------------------
(* Reading the structure.  An operator named for a mistake (AdvanceLate,   *)
(* WrittenAtGiven, InitUnchecked, ...) is a faulty variant of a definition *)
(* that follows; only mutation runs use it.                                *)

RTFifoSize == size
RTFifoCapacity == capacity
RTFifoIsEmpty == size = 0
RTFifoIsFull == size >= capacity

(* `x++` on an unsigned field wraps at the end of its range. *)
Increment(x) == IF x = CounterMax THEN 0 ELSE x + 1
Decrement(x) == IF x = 0 THEN CounterMax ELSE x - 1

(* The slot after slot i. *)
AdvanceLate(i) == IF Increment(i) > capacity THEN 0 ELSE Increment(i)
Advance(i) == IF Increment(i) >= capacity THEN 0 ELSE Increment(i)

(* `i * fifo->itemSize_B` is computed in an int, whatever the field type. *)
Addressable(i) == i * itemSize <= IntMax

SlotBytes(i) == [k \in 1..itemSize |-> buffer[i * itemSize + k - 1]]

(* The memory after the n bytes of x were copied to address a on. *)
Stored(a, n, x) ==
    [b \in Address |-> IF a <= b /\ b < a + n THEN x[b - a + 1] ELSE buffer[b]]

WrittenAtGiven(i, n, x) == Stored(i * n, n, x)

(* RTMemcpy copies the shorter of the two sizes: the n bytes the caller    *)
(* gave.  The rest of the slot keeps what was there.                       *)
Written(i, n, x) == Stored(i * itemSize, n, x)

-----------------------------------------------------------------------------
(* What rtfifo.h asks of the memory the caller hands over. *)
Fits(cap, n) == cap * n <= Memory

(* A statically initialised FIFO (RT_FIFO_INIT) or one RTFifoInit has just *)
(* set up.  Nobody clears the buffer.                                      *)
Init ==
    /\ head = 0 /\ tail = 0 /\ size = 0
    /\ capacity \in 1..CounterMax /\ itemSize \in 1..CounterMax
    /\ Fits(capacity, itemSize)
    /\ buffer \in [Address -> Byte]
    /\ status = "running"
    /\ result = FALSE
    /\ item = <<>>

Stop(why) ==
    /\ status' = why
    /\ UNCHANGED <<head, tail, size, shape, buffer, result, item>>

InitUnchecked(cap, n) ==
    /\ status = "running"
    /\ head' = 0 /\ tail' = 0 /\ size' = 0
    /\ capacity' = cap /\ itemSize' = n
    /\ UNCHANGED <<buffer, status, result, item>>

RTFifoInit(cap, n) ==
    /\ status = "running"
    /\ \/ (cap = 0 \/ n = 0) /\ Stop("panic")
       \/ /\ cap > 0 /\ n > 0
          /\ head' = 0 /\ tail' = 0 /\ size' = 0
          /\ capacity' = cap /\ itemSize' = n
          /\ UNCHANGED <<buffer, status, result, item>>

(* Push of an item of n bytes. *)
RTFifoPush(n, x) ==
    /\ status = "running"
    /\ \/ n \notin 1..itemSize /\ Stop("panic")
       \/ /\ n \in 1..itemSize
          /\ ~(size < capacity)
          /\ result' = FALSE
          /\ UNCHANGED <<head, tail, size, shape, buffer, status, item>>
       \/ /\ n \in 1..itemSize
          /\ size < capacity
          /\ ~Addressable(head)
          /\ Stop("undefined")
       \/ /\ n \in 1..itemSize
          /\ size < capacity
          /\ Addressable(head)
          /\ buffer' = Written(head, n, x)
          /\ head' = Advance(head)
          /\ size' = Increment(size)
          /\ result' = TRUE
          /\ UNCHANGED <<tail, shape, status, item>>

PopKeepingSize(n) ==
    /\ status = "running" /\ n >= itemSize
    /\ size > 0 /\ Addressable(tail)
    /\ item' = SlotBytes(tail)
    /\ tail' = Advance(tail)
    /\ result' = TRUE
    /\ UNCHANGED <<head, size, shape, buffer, status>>

(* Pop into a destination of n bytes. *)
RTFifoPop(n) ==
    /\ status = "running"
    /\ \/ n < itemSize /\ Stop("panic")
       \/ /\ n >= itemSize
          /\ ~(size > 0)
          /\ result' = FALSE
          /\ UNCHANGED <<head, tail, size, shape, buffer, status, item>>
       \/ /\ n >= itemSize
          /\ size > 0
          /\ ~Addressable(tail)
          /\ Stop("undefined")
       \/ /\ n >= itemSize
          /\ size > 0
          /\ Addressable(tail)
          /\ item' = SlotBytes(tail)
          /\ tail' = Advance(tail)
          /\ size' = Decrement(size)
          /\ result' = TRUE
          /\ UNCHANGED <<head, shape, buffer, status>>

Next ==
    \/ \E cap, n \in 0..CounterMax : Fits(cap, n) /\ RTFifoInit(cap, n)
    \/ \E n \in 0..CounterMax : \E x \in [1..n -> Byte] : RTFifoPush(n, x)
    \/ \E n \in 0..CounterMax : RTFifoPop(n)

Spec == Init /\ [][Next]_vars

-----------------------------------------------------------------------------
(* Properties. *)

(* Every field stays in the range of its C type, and the slots in the      *)
(* memory.                                                                 *)
TypeOK ==
    /\ head \in 0..CounterMax /\ tail \in 0..CounterMax
    /\ size \in 0..CounterMax
    /\ capacity \in 1..CounterMax /\ itemSize \in 1..CounterMax
    /\ Fits(capacity, itemSize)
    /\ buffer \in [Address -> Byte]
    /\ status \in Status
    /\ result \in BOOLEAN
    /\ item \in Seq(Byte)

(* The slot of the k-th oldest item. *)
SlotOf(k) == IF tail + k - 1 < capacity THEN tail + k - 1
                                        ELSE tail + k - 1 - capacity

(* The three fields never disagree: walking `size` slots from tail ends at *)
(* head, inside the buffer, however often the indices have wrapped.        *)
RingInv ==
    /\ head < capacity /\ tail < capacity
    /\ size <= capacity
    /\ head = SlotOf(size + 1)

(* head = tail is ambiguous in a ring; the size field tells the two cases  *)
(* apart, and no third case exists.                                        *)
FullOrEmpty == head = tail <=> (RTFifoIsEmpty \/ RTFifoIsFull)

(* The offset of a slot is never computed with an overflowing product.     *)
(* rtfifo.h promises this for up to 65,535 items of up to 65,535 bytes.    *)
OffsetDefined == status # "undefined"

(* The ring buffer is a bounded queue: push appends or refuses, pop takes  *)
(* the oldest item, and both report what they did; RTFifoInit empties it,  *)
(* whatever size of item it had (rtfifo.c:124-218).                        *)
Contents == [k \in 1..size |-> SlotBytes(SlotOf(k))]

Queue == INSTANCE BoundedQueue
            WITH queue <- Contents, limit <- capacity, width <- itemSize,
                 Max <- CounterMax

ImplementsQueue == Queue!Spec
=============================================================================
