----------------------------- MODULE Statechart -----------------------------
(***************************************************************************)
(* What rthsm.h promises of a hierarchical state machine, seen through the *)
(* entry and exit actions it calls.                                        *)
(*                                                                         *)
(* config holds the states entered and not yet left.  A step of the        *)
(* machine leaves states, runs the transition's action, and enters states: *)
(* innermost first on the way out, outermost first on the way in, nothing  *)
(* left that surrounds the destination, nothing entered that does not lead *)
(* to it or descend from it by initial sub-states, and rest only at a      *)
(* state without one.  A machine at rest in a final state stays there.     *)
(***************************************************************************)
EXTENDS StateTree

VARIABLES
    chart,      \* the machine's description, never changed
    root,       \* its global state, None until it is initialised
    config,     \* the states entered and not left, the global one excepted
    mode,       \* rest, leaving (before the action) or arriving (after it)
    target      \* where the step under way leads

vars == <<chart, root, config, mode, target>>

Around(s) == Chain(chart, root, s)
Innermost(s) == \A x \in config : chart.parent[x] # s
Open == config \cup {root}

Init ==
    /\ root = None
    /\ config = {}
    /\ mode = "rest"
    /\ target = None

Adopt(r) ==
    /\ root = None
    /\ Valid(chart, r)
    /\ root' = r
    /\ UNCHANGED <<chart, config, mode, target>>

(* The first step: no event, no action, just the initial configuration. *)
Start ==
    /\ root # None /\ mode = "rest" /\ config = {}
    /\ mode' = "arriving"
    /\ target' = root
    /\ UNCHANGED <<chart, root, config>>

Begin(t) ==
    /\ mode = "rest" /\ config # {}
    /\ \A s \in config : Innermost(s) => s \notin chart.final
    /\ t # root
    /\ mode' = "leaving"
    /\ target' = t
    /\ UNCHANGED <<chart, root, config>>

Leave(s) ==
    /\ mode = "leaving"
    /\ s \in config /\ Innermost(s)
    /\ s = target \/ s \notin Around(target)
    /\ config' = config \ {s}
    /\ UNCHANGED <<chart, root, mode, target>>

(* The transition's action: nothing is left that the destination is not in. *)
Act ==
    /\ mode = "leaving"
    /\ config \subseteq Around(target)
    /\ mode' = "arriving"
    /\ UNCHANGED <<chart, root, config, target>>

Arrive(s) ==
    /\ mode = "arriving"
    /\ s \notin Open
    /\ chart.parent[s] \in Open /\ Innermost(chart.parent[s])
    /\ \/ s \in Around(target)
       \/ target \in Around(s) /\ s = chart.initial[chart.parent[s]]
    /\ config' = config \cup {s}
    /\ UNCHANGED <<chart, root, mode, target>>

Rest ==
    /\ mode = "arriving"
    /\ target \in Open
    /\ \A s \in Open : Innermost(s) => chart.initial[s] = None
    /\ mode' = "rest"
    /\ target' = None
    /\ UNCHANGED <<chart, root, config>>

Next ==
    \/ \E r \in State : Adopt(r)
    \/ Start
    \/ \E t \in State : Begin(t)
    \/ \E s \in State : Leave(s)
    \/ Act
    \/ \E s \in State : Arrive(s)
    \/ Rest

Spec == Init /\ [][Next]_vars
=============================================================================
