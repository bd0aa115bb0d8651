---------------------------- MODULE RTSmallFifo ----------------------------
(***************************************************************************)
(* The small FIFO of src/rtfifo/src/rtfifo.c: the code of RTFifo once      *)
(* more, with uint8_t fields.  What the narrower fields change is that     *)
(* every offset into the buffer fits an int.                               *)
(***************************************************************************)
EXTENDS RTFifo

(* UINT8_MAX and INT_MAX: 254 * 255 is far below 2^31.                     *)
ASSUME SmallFifoAssumption == CounterMax * CounterMax <= IntMax

RTSmallFifoSize == RTFifoSize
RTSmallFifoCapacity == RTFifoCapacity
RTSmallFifoIsEmpty == RTFifoIsEmpty
RTSmallFifoIsFull == RTFifoIsFull

(* Faulty variants, for mutation runs only.                                *)
InitKeepingTail(cap, n) ==
    /\ status = "running" /\ cap > 0 /\ n > 0
    /\ head' = 0 /\ size' = 0 /\ capacity' = cap /\ itemSize' = n
    /\ UNCHANGED <<tail, buffer, status, result, item>>

PushOverwriting(n, x) ==
    \/ RTFifoPush(n, x)
    \/ /\ status = "running" /\ n \in 1..itemSize
       /\ size = capacity
       /\ buffer' = Written(head, n, x)
       /\ head' = Advance(head)
       /\ result' = TRUE
       /\ UNCHANGED <<tail, size, shape, status, item>>

(* The offset kept in a uint8_t. *)
PushNarrow(n, x) ==
    \/ RTFifoPush(n, x)
    \/ /\ status = "running" /\ n \in 1..itemSize
       /\ size < capacity
       /\ head * itemSize > CounterMax
       /\ Stop("undefined")

RTSmallFifoInit(cap, n) == RTFifoInit(cap, n)
RTSmallFifoPush(n, x) == RTFifoPush(n, x)
RTSmallFifoPop(n) == RTFifoPop(n)

SmallNext ==
    \/ \E cap, n \in 0..CounterMax : Fits(cap, n) /\ RTSmallFifoInit(cap, n)
    \/ \E n \in 0..CounterMax : \E x \in [1..n -> Byte] : RTSmallFifoPush(n, x)
    \/ \E n \in 0..CounterMax : RTSmallFifoPop(n)

SmallSpec == Init /\ [][SmallNext]_vars
=============================================================================
