---------------------------- MODULE MCRTHsmArray ----------------------------
(***************************************************************************)
(* Arrays of five states for TLC, the global one in the middle and the ids *)
(* in no order: with guards, up to two transitions from two nested states; *)
(* and with every mistake there can be, so that parents form cycles, nest  *)
(* too deep or are missing.                                                *)
(***************************************************************************)
EXTENDS RTHsmArray

MCState == 1..5
OneEvent == {"e"}

Ids == <<4, 1, 7, 3, 5>>
A == 4      \* the ids of the states that play a part
B == 5
Root == 7
Unknown == 9

On(to, g) == [event |-> "e", toStateId |-> to, internal |-> FALSE, guarded |-> g]

Array(parents, initials, transitions) ==
    [id |-> Ids, parentId |-> parents, initialId |-> initials, final |-> {},
     transitions |-> transitions]

UpToTwo ==
    LET one == {On(to, g) : to \in {A, B}, g \in BOOLEAN}
    IN  UNION {[1..k -> one] : k \in 0..2}

(* B beside A or inside it. *)
Guarded ==
    UNION {{Array(<<Root, Root, 0, Root, n[1]>>, <<n[2], 0, n[3], 0, 0>>,
                  <<a, <<>>, <<>>, <<>>, b>>) : a \in UpToTwo, b \in UpToTwo}
             : n \in {<<Root, 0, A>>, <<Root, 0, B>>, <<A, 0, A>>, <<A, B, A>>}}

Both == <<On(A, FALSE), On(B, FALSE)>>
Moves == <<Both, Both, <<>>, Both, Both>>

AnyNesting ==
    {Array(<<p[1], p[2], 0, p[3], p[4]>>, <<0, 0, n, 0, 0>>, Moves)
        : p \in [1..4 -> {4, 1, 7, 3, 5}], n \in {4, 1, 3, 5}}

Flat == Array(<<Root, Root, 0, Root, Root>>, <<0, 0, A, 0, 0>>, Moves)

Flawed ==
    {[Flat EXCEPT !.initialId[s] = n] : s \in MCState, n \in 0..Unknown}
    \cup {[Flat EXCEPT !.parentId[s] = n] : s \in MCState, n \in {0, Unknown}}
    \cup {[Flat EXCEPT !.id[s] = n] : s \in MCState, n \in 0..Unknown}
    \cup {[Flat EXCEPT !.transitions[s] = <<On(n, FALSE)>>]
             : s \in MCState, n \in 0..Unknown}

MCArrays == Guarded \cup AnyNesting \cup Flawed
=============================================================================
