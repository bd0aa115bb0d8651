------------------------------ MODULE Sublists ------------------------------
(***************************************************************************)
(* What a loop picks out of a list.  SelectSeq of the standard modules     *)
(* does it by the elements; it has no definition that a proof could use.   *)
(***************************************************************************)
EXTENDS Integers, Sequences

(* The elements of list at some of its places, in order. *)
Picked(list, places) ==
    LET picked[n \in 0..Len(list)] ==
            IF n = 0 THEN <<>>
            ELSE IF n \in places THEN Append(picked[n - 1], list[n])
            ELSE picked[n - 1]
    IN  picked[Len(list)]
=============================================================================
