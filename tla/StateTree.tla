----------------------------- MODULE StateTree -----------------------------
(***************************************************************************)
(* The nesting of the states of a state machine, as rthsm.c walks it: from *)
(* a state up, parent by parent, until the global state.                   *)
(*                                                                         *)
(* A machine m is a record of functions on states: m.parent, m.initial     *)
(* (None where there is none), m.transitions, and the set m.final.  g is   *)
(* its global state.  No walk is longer than RTHSM_MAX_NESTED_STATES, so   *)
(* none of them needs recursion.                                           *)
(***************************************************************************)
EXTENDS Integers

CONSTANTS State, None

ASSUME NoneAssumption == None \notin State

RTHSM_MAX_NESTED_STATES == 3

(* One level up; the walks of rthsm.c end at the global state. *)
Climb(m, g, s) == IF s = g THEN g ELSE m.parent[s]

Up(m, g, s, k) ==
    CASE k = 0 -> s
      [] k = 1 -> Climb(m, g, s)
      [] k = 2 -> Climb(m, g, Climb(m, g, s))
      [] k = 3 -> Climb(m, g, Climb(m, g, Climb(m, g, s)))

(* s and the states it is nested in, the global state included. *)
Chain(m, g, s) == {Up(m, g, s, k) : k \in 0..RTHSM_MAX_NESTED_STATES}

(* Faulty variant: one level of nesting too many is let through. *)
BelongsOneLevelDeeper(m, g, s) == g \in Chain(m, g, Climb(m, g, s))

(* Faulty variant: one level of nesting too few is let through. *)
BelongsOneLevelShort(m, g, s) == g \in {Up(m, g, s, k) : k \in 0..2}

BelongsToGlobal(m, g, s) == g \in Chain(m, g, s)

(* The assertions of RTHsmInit that are about the machine and its global   *)
(* state.  Ids are resolved: a reference is to a state or is None.         *)
Valid(m, g) ==
    /\ \A s \in State : m.parent[s] = None <=> s = g
    /\ m.initial[g] # None
    /\ m.transitions[g] = <<>>
    /\ \A s \in State : m.initial[s] # None => m.parent[m.initial[s]] = s
    /\ \A s \in State \ {g} : BelongsToGlobal(m, g, s)
    /\ \A s \in State : \A j \in DOMAIN m.transitions[s] :
          m.transitions[s][j].to # g
=============================================================================
