---------------------------- MODULE BoundedQueue ----------------------------
(***************************************************************************)
(* What rtfifo promises its callers (rtfifo.h): a queue of items of one    *)
(* size that refuses an item when it is full, delivers the oldest item     *)
(* first, and says of each call whether it did anything.                   *)
(*                                                                         *)
(* A caller may push fewer bytes than an item has.  The promise then       *)
(* covers those bytes only; the others may be anything.                    *)
(***************************************************************************)
EXTENDS Naturals, Sequences

CONSTANTS
    Byte,           \* the values a byte can take
    Max             \* the most items, and the most bytes of an item

VARIABLES
    queue,          \* the items held, oldest first
    limit,          \* how many items the queue may hold
    width,          \* bytes per item
    result,         \* what the last push or pop returned
    item            \* what the last successful pop delivered

vars == <<queue, limit, width, result, item>>

Item == [1..width -> Byte]

Init ==
    /\ queue = <<>>
    /\ limit \in 1..Max /\ width \in 1..Max
    /\ result = FALSE
    /\ item = <<>>

(* The owner initialises the queue again: whatever it held is gone. *)
Reset(cap, n) ==
    /\ queue' = <<>>
    /\ limit' = cap /\ width' = n
    /\ UNCHANGED <<result, item>>

(* The n bytes of x are accepted: the new item starts with them. *)
Accept(n, x) ==
    /\ Len(queue) < limit
    /\ \E y \in Item :
          /\ \A k \in 1..n : y[k] = x[k]
          /\ queue' = Append(queue, y)
    /\ result' = TRUE
    /\ UNCHANGED <<limit, width, item>>

Refuse ==
    /\ Len(queue) = limit
    /\ result' = FALSE
    /\ UNCHANGED <<queue, limit, width, item>>

Deliver ==
    /\ queue # <<>>
    /\ item' = Head(queue)
    /\ queue' = Tail(queue)
    /\ result' = TRUE
    /\ UNCHANGED <<limit, width>>

Starve ==
    /\ queue = <<>>
    /\ result' = FALSE
    /\ UNCHANGED <<queue, limit, width, item>>

Next ==
    \/ \E cap, n \in 1..Max : Reset(cap, n)
    \/ \E n \in 1..width : \E x \in [1..n -> Byte] : Accept(n, x)
    \/ Refuse
    \/ Deliver
    \/ Starve

Spec == Init /\ [][Next]_vars
=============================================================================
