----------------------------- MODULE RTHsmArray -----------------------------
(***************************************************************************)
(* RTHsmInit on the array a program hands it, and the engine after it.     *)
(*                                                                         *)
(* In the array states refer to each other by id.  RTHsmInit looks the ids *)
(* up, stores pointers in the private fields of the same array, and panics *)
(* where one of the constraints of rthsm.h:43-62 is broken.  RTHsm has     *)
(* this as one step on a machine without ids; here it is three loops, one  *)
(* step per state, and the machine of the engine is what they leave in the *)
(* array: a state is its place there.                                      *)
(***************************************************************************)
EXTENDS RTHsm

CONSTANTS
    StatesSize,     \* the size of the array
    Arrays          \* the arrays programs hand to RTHsmInit

RTHSM_NULL_STATE_ID == 0

Id == Nat

ASSUME ArrayAssumption ==
    /\ StatesSize \in Nat \ {0}
    /\ State = 1..StatesSize
    /\ \A a \in Arrays :
          /\ a.id \in [State -> Id]
          /\ a.parentId \in [State -> Id]
          /\ a.initialId \in [State -> Id]
          /\ a.final \subseteq State
          /\ a.transitions \in
                [State -> Seq([event : Event, toStateId : Id,
                               internal : BOOLEAN, guarded : BOOLEAN])]

VARIABLES
    states,     \* what the program wrote in the array
    loop,       \* the loop of RTHsmInit that is under way
    index       \* and its counter

arrayVars == <<vars, states, loop, index>>

unstepped == <<current, queue, result, guardResult, cursors, active>>

-----------------------------------------------------------------------------
(* The first place of an id. *)
Found(id) == {s \in State : states.id[s] = id}
Lookup(id) == CHOOSE s \in Found(id) : \A t \in Found(id) : s <= t

(* A pointer for an id, NULL for the null id. *)
IsReference(id) == id = RTHSM_NULL_STATE_ID \/ Found(id) # {}
Reference(id) == IF id = RTHSM_NULL_STATE_ID THEN None ELSE Lookup(id)

Points(t, to) ==
    [event |-> t.event, to |-> to, internal |-> t.internal, guarded |-> t.guarded]

ArrayInit ==
    /\ states \in Arrays
    /\ hsm = [parent |-> [s \in State |-> None],
              initial |-> [s \in State |-> None],
              final |-> states.final,
              transitions |-> [s \in State |->
                 [j \in DOMAIN states.transitions[s] |->
                    Points(states.transitions[s][j], None)]]]
    /\ Unstarted
    /\ loop = "cache" /\ index = 1

Looping(l) == phase = "off" /\ loop = l

Advance(next) ==
    IF index < StatesSize
    THEN index' = index + 1 /\ UNCHANGED <<loop, phase>>
    ELSE /\ index' = 1
         /\ loop' = next
         /\ phase' = IF next = "done" THEN "idle" ELSE phase

Panics == phase' = "panic" /\ UNCHANGED <<hsm, global, loop, index>>

(* Faulty variant: an id is compared with the next one only. *)
UniqueAmongNeighbours(s) ==
    \A t \in State : t = s + 1 => states.id[t] # states.id[s]

UniqueFrom(s) == \A t \in State : t > s => states.id[t] # states.id[s]

(* Look the parent and the initial sub-state up; find the global state. *)
CacheState ==
    /\ Looping("cache")
    /\ IF /\ UniqueFrom(index)
          /\ states.parentId[index] = RTHSM_NULL_STATE_ID => global = None
          /\ IsReference(states.parentId[index])
          /\ IsReference(states.initialId[index])
       THEN /\ hsm' = [hsm EXCEPT
                         !.parent[index] = Reference(states.parentId[index]),
                         !.initial[index] = Reference(states.initialId[index])]
            /\ global' = IF states.parentId[index] = RTHSM_NULL_STATE_ID
                         THEN index ELSE global
            /\ Advance("global")
       ELSE Panics
    /\ UNCHANGED <<states, unstepped>>

CheckGlobal ==
    /\ Looping("global")
    /\ IF /\ global # None
          /\ hsm.initial[global] # None
          /\ hsm.transitions[global] = <<>>
       THEN loop' = "hierarchy" /\ UNCHANGED <<hsm, global, phase, index>>
       ELSE Panics
    /\ UNCHANGED <<states, unstepped>>

(* Faulty variant: an initial sub-state may be anywhere. *)
InitialAnywhere(s) == s \in State

InitialIsChild(s) == hsm.initial[s] # None => hsm.parent[hsm.initial[s]] = s

CheckHierarchy ==
    /\ Looping("hierarchy")
    /\ IF InitialIsChild(index) /\ BelongsToGlobal(hsm, global, index)
       THEN Advance("transitions") /\ UNCHANGED <<hsm, global>>
       ELSE Panics
    /\ UNCHANGED <<states, unstepped>>

(* Look the destinations of the transitions up. *)
ResolveTransitions ==
    /\ Looping("transitions")
    /\ LET list == states.transitions[index]
       IN  IF \A j \in DOMAIN list :
                 /\ list[j].toStateId # RTHSM_NULL_STATE_ID
                 /\ Found(list[j].toStateId) # {}
                 /\ Lookup(list[j].toStateId) # global
           THEN /\ hsm' = [hsm EXCEPT !.transitions[index] =
                             [j \in DOMAIN list |->
                                 Points(list[j], Lookup(list[j].toStateId))]]
                /\ Advance("done")
                /\ UNCHANGED global
           ELSE Panics
    /\ UNCHANGED <<states, unstepped>>

Initialise ==
    CacheState \/ CheckGlobal \/ CheckHierarchy \/ ResolveTransitions

Step == \/ \E e \in Event : RTHsmPushEvent(e)
        \/ RTHsmStep
        \/ Engine

ArrayNext ==
    \/ Initialise
    \/ Step /\ UNCHANGED <<states, loop, index>>

ArraySpec == ArrayInit /\ [][ArrayNext]_arrayVars

-----------------------------------------------------------------------------
(* Properties. *)

Initialised == phase \notin {"off", "panic"}

Unique == \A s, t \in State : states.id[s] = states.id[t] => s = t

(* p[s] is the state whose id is ids[s], None for the null id. *)
Resolves(p, ids) ==
    \A s \in State :
        IF ids[s] = RTHSM_NULL_STATE_ID THEN p[s] = None
        ELSE p[s] \in State /\ states.id[p[s]] = ids[s]

(* The engine only ever runs on a tree of at most RTHSM_MAX_NESTED_STATES  *)
(* levels below its global state, whose pointers say what the ids said     *)
(* (rthsm.h:43-62).                                                        *)
InitAccepts ==
    Initialised =>
        /\ Unique
        /\ Resolves(hsm.parent, states.parentId)
        /\ Resolves(hsm.initial, states.initialId)
        /\ \A s \in State : \A j \in DOMAIN states.transitions[s] :
              LET t == states.transitions[s][j]
                  to == hsm.transitions[s][j].to
              IN  hsm.transitions[s][j] = Points(t, to) /\ states.id[to] = t.toStateId
        /\ Valid(hsm, global)

Level[n \in 0..RTHSM_MAX_NESTED_STATES] ==
    IF n = 0 THEN {s \in State : states.parentId[s] = RTHSM_NULL_STATE_ID}
    ELSE {s \in State : \E t \in Level[n - 1] : states.parentId[s] = states.id[t]}

(* The constraints of rthsm.h:43-62, and that the null id is not used.     *)
WellFormed ==
    /\ Unique
    /\ \A s \in State : states.id[s] # RTHSM_NULL_STATE_ID
    /\ \E g \in State :
          /\ Level[0] = {g}
          /\ states.initialId[g] # RTHSM_NULL_STATE_ID
          /\ states.transitions[g] = <<>>
          /\ \A s \in State : \A j \in DOMAIN states.transitions[s] :
                \E t \in State \ {g} :
                    states.id[t] = states.transitions[s][j].toStateId
    /\ \A s \in State :
          /\ \E n \in 0..RTHSM_MAX_NESTED_STATES : s \in Level[n]
          /\ states.initialId[s] # RTHSM_NULL_STATE_ID =>
                \E t \in State : /\ states.id[t] = states.initialId[s]
                                 /\ states.parentId[t] = states.id[s]

(* RTHsmInit panics over no array that keeps the constraints.              *)
InitRejects == phase = "panic" => ~WellFormed
=============================================================================
