------------------------------ MODULE MCRTHsm ------------------------------
(***************************************************************************)
(* Families of machines for TLC.  States are numbered, 0 is the global     *)
(* one and a parent comes before its children: every tree has such a       *)
(* numbering, so no shape is left out.                                     *)
(***************************************************************************)
EXTENDS RTHsm

CONSTANT Size       \* states besides the global one

Nested == 1..Size
MCState == 0..Size

Trees == {p \in [MCState -> MCState \cup {None}] :
             p[0] = None /\ \A s \in Nested : p[s] # None /\ p[s] < s}

Children(p, s) == {t \in Nested : p[t] = s}

(* Every choice of initial sub-states; the global state must have one. *)
Initials(p) ==
    {n \in [MCState -> Nested \cup {None}] :
        /\ n[0] # None
        /\ \A s \in MCState : n[s] \in Children(p, s) \cup {None}}

Shallow(p) == \A s \in Nested : 0 \in Chain([parent |-> p], 0, s)

(***************************************************************************)
(* Every transition there can be: from any state to any state, internal or *)
(* not, each with an event of its own.                                     *)
(***************************************************************************)
AllEvents == Nested \X Nested \X BOOLEAN

OneOfThem == {<<Size, 1, FALSE>>}

Arrows(s) ==
    [j \in 1..(2 * Size) |->
        LET t == (j + 1) \div 2
            b == j % 2 = 0
        IN  [event |-> <<s, t, b>>, to |-> t, internal |-> b, guarded |-> FALSE]]

AllArrows == [s \in MCState |-> IF s = 0 THEN <<>> ELSE Arrows(s)]

AtMostOneFinal == {{}} \cup {{s} : s \in Nested}

Charts ==
    UNION {{[parent |-> p, initial |-> n, final |-> f,
             transitions |-> AllArrows]
               : n \in Initials(p), f \in AtMostOneFinal}
             : p \in {q \in Trees : Shallow(q)}}

(* One machine whose transitions are guarded, and one that RTHsmInit does  *)
(* not let through.                                                        *)
Flat == CHOOSE c \in Charts : c.final = {} /\ c.parent = [s \in MCState |-> IF s = 0 THEN None ELSE 0]

GuardedChart ==
    [Flat EXCEPT !.transitions[1] =
        [j \in DOMAIN @ |-> [@[j] EXCEPT !.guarded = TRUE]]]

TwoRoots == [Flat EXCEPT !.parent[1] = None]

SomeCharts == Charts \cup {GuardedChart, TwoRoots}
=============================================================================
