------------------------- MODULE RTHsmArray_proofs -------------------------
(***************************************************************************)
(* Proofs about RTHsmInit on any array, of any size, with any ids in it,   *)
(* and about the engine on what RTHsmInit leaves there.                    *)
(***************************************************************************)
EXTENDS RTHsmArray, RTHsm_proofs, WellFoundedInduction

(***************************************************************************)
(* The inductive invariant: what the loops have found out so far.          *)
(***************************************************************************)

Pointer == State \cup {None}
Pointed == [event : Event, to : Pointer, internal : BOOLEAN, guarded : BOOLEAN]

Machinery == [parent : [State -> Pointer], initial : [State -> Pointer],
              final : SUBSET State, transitions : [State -> Seq(Pointed)]]

(* The loop l is not done, and has not come to state s. *)
Ahead(l, s) == loop = l /\ index <= s

Untouched ==
    /\ current = None /\ queue = <<>> /\ result = None /\ guardResult = 0
    /\ transition = None /\ source = None /\ state = None /\ i = 0
    /\ active = {}

LoopType ==
    /\ loop \in {"cache", "global", "hierarchy", "transitions"}
    /\ index \in State
    /\ loop = "global" => index = 1
    /\ global \in Pointer
    /\ hsm \in Machinery

Cached(s) ==
    /\ UniqueFrom(s)
    /\ IsReference(states.parentId[s]) /\ IsReference(states.initialId[s])
    /\ hsm.parent[s] = Reference(states.parentId[s])
    /\ hsm.initial[s] = Reference(states.initialId[s])
    /\ states.parentId[s] = RTHSM_NULL_STATE_ID <=> s = global

CacheInv ==
    \A s \in State : IF Ahead("cache", s) THEN s # global ELSE Cached(s)

GlobalInv ==
    loop \in {"hierarchy", "transitions"} =>
        /\ global \in State
        /\ hsm.initial[global] # None
        /\ states.transitions[global] = <<>>

HierarchyInv ==
    loop \in {"hierarchy", "transitions"} =>
        \A s \in State : ~Ahead("hierarchy", s) =>
            InitialIsChild(s) /\ BelongsToGlobal(hsm, global, s)

Resolvable(t) ==
    /\ t.toStateId # RTHSM_NULL_STATE_ID
    /\ Found(t.toStateId) # {}
    /\ Lookup(t.toStateId) # global

Resolved(s) == loop = "transitions" /\ s < index

(* The transitions of s lead where their ids say, or nowhere yet.          *)
Leads(s) ==
    /\ hsm.transitions[s] =
          [j \in DOMAIN states.transitions[s] |->
              Points(states.transitions[s][j],
                     Lookup(states.transitions[s][j].toStateId))]
    /\ \A j \in DOMAIN states.transitions[s] :
          Resolvable(states.transitions[s][j])

Bare(s) ==
    hsm.transitions[s] =
        [j \in DOMAIN states.transitions[s] |->
            Points(states.transitions[s][j], None)]

TransitionsInv ==
    \A s \in State : IF Resolved(s) THEN Leads(s) ELSE Bare(s)

Loading ==
    /\ Untouched /\ LoopType
    /\ CacheInv /\ GlobalInv /\ HierarchyInv /\ TransitionsInv

ArrayInv ==
    /\ states \in Arrays
    /\ phase \in Phase
    /\ phase = "off" => Loading
    /\ Initialised => IInv /\ InitAccepts

(***************************************************************************)
(* The look-up.                                                            *)
(***************************************************************************)

LEMMA LookupFinds ==
    ASSUME NEW id, Found(id) # {}
    PROVE  Lookup(id) \in State /\ states.id[Lookup(id)] = id
<1>1. Found(id) \subseteq Nat
  <2>1. State = 1..StatesSize /\ StatesSize \in Nat
    BY ArrayAssumption
  <2> QED
    BY <2>1 DEF Found
<1>2. PICK s \in Found(id) : \A t \in Found(id) : ~(<<t, s>> \in OpToRel(<, Nat))
  BY <1>1, NatLessThanWellFounded, WFMin
<1>3. \A t \in Found(id) : s <= t
  <2>1. \A t \in Found(id) : ~(t < s)
    BY <1>1, <1>2 DEF OpToRel
  <2> QED
    BY <1>1, <2>1
<1>4. Lookup(id) \in Found(id)
  BY <1>3 DEF Lookup
<1> QED
  BY <1>4 DEF Found

LEMMA ReferenceType ==
    ASSUME NEW id, IsReference(id)
    PROVE  Reference(id) \in Pointer
  BY LookupFinds DEF IsReference, Reference, Pointer

LEMMA ReferenceFinds ==
    ASSUME NEW id, IsReference(id)
    PROVE  /\ Reference(id) = None <=> id = RTHSM_NULL_STATE_ID
           /\ id # RTHSM_NULL_STATE_ID =>
                 Reference(id) \in State /\ states.id[Reference(id)] = id
<1>1. CASE id = RTHSM_NULL_STATE_ID
  BY <1>1 DEF Reference
<1>2. CASE id # RTHSM_NULL_STATE_ID
  <2>1. Reference(id) = Lookup(id) /\ Found(id) # {}
    BY <1>2 DEF Reference, IsReference
  <2> QED
    BY <1>2, <2>1, LookupFinds, NoneAssumption
<1> QED
  BY <1>1, <1>2

LEMMA ArrayType ==
    ASSUME states \in Arrays
    PROVE  /\ State = 1..StatesSize /\ StatesSize \in Nat \ {0}
           /\ states.final \subseteq State
           /\ \A s \in State :
                 states.transitions[s] \in
                    Seq([event : Event, toStateId : Id, internal : BOOLEAN,
                         guarded : BOOLEAN])
  BY ArrayAssumption

LEMMA ListType ==
    ASSUME states \in Arrays, NEW s \in State
    PROVE  /\ DOMAIN states.transitions[s] = 1..Len(states.transitions[s])
           /\ Len(states.transitions[s]) \in Nat
           /\ \A j \in DOMAIN states.transitions[s] :
                 states.transitions[s][j] \in
                    [event : Event, toStateId : Id, internal : BOOLEAN,
                     guarded : BOOLEAN]
  BY ArrayType, LenProperties, ElementOfSeq

(* A list of transitions, each with a pointer. *)
LEMMA PointedList ==
    ASSUME states \in Arrays, NEW s \in State, NEW P,
           NEW to \in [DOMAIN states.transitions[s] -> P]
    PROVE  [j \in DOMAIN states.transitions[s] |->
               Points(states.transitions[s][j], to[j])]
             \in Seq([event : Event, to : P, internal : BOOLEAN, guarded : BOOLEAN])
<1> DEFINE list == states.transitions[s]
           T == [event : Event, to : P, internal : BOOLEAN, guarded : BOOLEAN]
<1>1. /\ DOMAIN list = 1..Len(list) /\ Len(list) \in Nat
      /\ \A j \in DOMAIN list : Points(list[j], to[j]) \in T
  BY ListType DEF Points
<1>2. [j \in DOMAIN list |-> Points(list[j], to[j])] \in [1..Len(list) -> T]
  BY <1>1
<1> QED
  BY <1>1, <1>2, SeqDef

(***************************************************************************)
(* The loops keep the invariant.                                           *)
(***************************************************************************)

LEMMA ArrayInitInv == ArrayInit => ArrayInv
<1> SUFFICES ASSUME ArrayInit PROVE ArrayInv
  OBVIOUS
<1> USE DEF ArrayInit, Unstarted
<1>1. /\ states \in Arrays /\ phase = "off" /\ loop = "cache" /\ index = 1
      /\ global = None
  OBVIOUS
<1>2. 1 \in State /\ \A s \in State : 1 <= s
  BY <1>1, ArrayType
<1>3. ASSUME NEW s \in State
      PROVE  hsm.transitions[s] \in Seq(Pointed)
  <2> DEFINE to == [j \in DOMAIN states.transitions[s] |-> None]
  <2>1. to \in [DOMAIN states.transitions[s] -> Pointer]
    BY DEF Pointer
  <2>2. [j \in DOMAIN states.transitions[s] |->
            Points(states.transitions[s][j], to[j])] \in Seq(Pointed)
    BY <1>1, <2>1, PointedList DEF Pointed
  <2>3. hsm.transitions[s] = [j \in DOMAIN states.transitions[s] |->
                                Points(states.transitions[s][j], to[j])]
    BY <1>1
  <2> QED
    BY <2>2, <2>3
<1>4. LoopType
  BY <1>1, <1>2, <1>3, ArrayType DEF LoopType, Machinery, Pointer
<1>5. CacheInv /\ GlobalInv /\ HierarchyInv
  BY <1>1, <1>2, NoneAssumption DEF CacheInv, Ahead, GlobalInv, HierarchyInv
<1>6. TransitionsInv
  BY <1>1 DEF TransitionsInv, Resolved, Bare
<1>7. Untouched
  BY DEF Untouched
<1> QED
  BY <1>1, <1>4, <1>5, <1>6, <1>7
  DEF ArrayInv, Loading, Untouched, Initialised, Phase

(* After a panic nothing is claimed. *)
LEMMA PanicsInv ==
    ASSUME ArrayInv, Panics, UNCHANGED states
    PROVE  ArrayInv'
  BY DEF ArrayInv, Panics, Initialised, Phase

(* Ids are looked up in what the program wrote, which nobody changes. *)
LEMMA SameLookup ==
    ASSUME UNCHANGED states
    PROVE  /\ \A s : UniqueFrom(s)' <=> UniqueFrom(s)
           /\ \A id : Found(id)' = Found(id)
           /\ \A id : Lookup(id)' = Lookup(id)
           /\ \A id : IsReference(id)' <=> IsReference(id)
           /\ \A id : Reference(id)' = Reference(id)
  BY DEF UniqueFrom, Found, Lookup, IsReference, Reference

LEMMA CacheStateInv ==
    ASSUME ArrayInv, CacheState
    PROVE  ArrayInv'
<1>1. CASE Panics
  BY <1>1, PanicsInv DEF CacheState
<1>2. CASE ~Panics
  <2>1. /\ UniqueFrom(index)
        /\ states.parentId[index] = RTHSM_NULL_STATE_ID => global = None
        /\ IsReference(states.parentId[index])
        /\ IsReference(states.initialId[index])
        /\ hsm' = [hsm EXCEPT
                     !.parent[index] = Reference(states.parentId[index]),
                     !.initial[index] = Reference(states.initialId[index])]
        /\ global' = IF states.parentId[index] = RTHSM_NULL_STATE_ID
                     THEN index ELSE global
        /\ Advance("global")
        /\ loop = "cache" /\ phase = "off"
        /\ UNCHANGED <<states, unstepped>>
    BY <1>2 DEF CacheState, Looping
  <2>2. /\ states \in Arrays /\ Loading
        /\ State = 1..StatesSize /\ StatesSize \in Nat \ {0}
    BY <2>1, ArrayType DEF ArrayInv
  <2>3. /\ phase' = "off"
        /\ index' \in State
        /\ \/ index < StatesSize /\ loop' = "cache" /\ index' = index + 1
           \/ index = StatesSize /\ loop' = "global" /\ index' = 1
    BY <2>1, <2>2 DEF Advance, Loading, LoopType
  <2>4. LoopType'
    BY <2>1, <2>2, <2>3, ReferenceType DEF Loading, LoopType, Machinery, Pointer
  <2>5. \A s \in State : Ahead("cache", s)' <=> Ahead("cache", s) /\ s # index
    BY <2>1, <2>2, <2>3 DEF Ahead, Loading, LoopType
  <2>6. CacheInv'
    <3> SUFFICES ASSUME NEW s \in State
                 PROVE  IF Ahead("cache", s)' THEN s # global' ELSE Cached(s)'
      BY <2>2, <2>3 DEF CacheInv
    <3>1. CASE s = index
      <4>1. /\ hsm'.parent[s] = Reference(states.parentId[s])
            /\ hsm'.initial[s] = Reference(states.initialId[s])
        BY <2>1, <2>2, <3>1 DEF Loading, LoopType, Machinery
      <4>2. Ahead("cache", s)
        BY <2>1, <2>2, <3>1 DEF Ahead, Loading, LoopType
      <4>3. s # global
        BY <2>2, <4>2 DEF Loading, CacheInv
      <4>4. states.parentId[s] = RTHSM_NULL_STATE_ID <=> s = global'
        BY <2>1, <3>1, <4>3
      <4> QED
        BY <2>1, <2>5, <3>1, <4>1, <4>4, SameLookup DEF Cached
    <3>2. CASE s # index /\ Ahead("cache", s)
      BY <2>1, <2>2, <2>5, <3>2 DEF Loading, CacheInv
    <3>3. CASE s # index /\ ~Ahead("cache", s)
      <4>1. Cached(s)
        BY <2>2, <3>3 DEF Loading, CacheInv
      <4>2. hsm'.parent[s] = hsm.parent[s] /\ hsm'.initial[s] = hsm.initial[s]
        BY <2>1, <2>2, <3>3 DEF Loading, LoopType, Machinery
      <4>3. s = global' <=> s = global
        BY <2>1, <3>3, <4>1, NoneAssumption DEF Cached
      <4> QED
        BY <2>1, <2>5, <3>3, <4>1, <4>2, <4>3, SameLookup DEF Cached
    <3> QED
      BY <3>1, <3>2, <3>3
  <2>7. TransitionsInv'
    <3>1. hsm'.transitions = hsm.transitions
      BY <2>1, <2>2 DEF Loading, LoopType, Machinery
    <3>2. \A s : ~Resolved(s) /\ ~Resolved(s)'
      BY <2>1, <2>3 DEF Resolved
    <3> QED
      BY <2>1, <2>2, <3>1, <3>2 DEF Loading, TransitionsInv, Bare
  <2>8. GlobalInv' /\ HierarchyInv' /\ Untouched'
    BY <2>1, <2>2, <2>3
    DEF GlobalInv, HierarchyInv, Loading, Untouched, unstepped, cursors
  <2> QED
    BY <2>1, <2>2, <2>3, <2>4, <2>6, <2>7, <2>8
    DEF ArrayInv, Loading, Initialised, Phase
<1> QED
  BY <1>1, <1>2

(* A list of a valid type is empty if its domain is that of <<>>.          *)
LEMMA EmptyList ==
    ASSUME states \in Arrays, NEW s \in State,
           DOMAIN states.transitions[s] = DOMAIN <<>>
    PROVE  states.transitions[s] = <<>>
<1>1. Len(states.transitions[s]) = 0
  <2>1. \A n \in Nat : 1..n = {} => n = 0
    OBVIOUS
  <2>2. DOMAIN states.transitions[s] = {}
    OBVIOUS
  <2> QED
    BY <2>1, <2>2, ListType
<1> QED
  BY <1>1, ArrayType, EmptySeq

LEMMA CheckGlobalInv ==
    ASSUME ArrayInv, CheckGlobal
    PROVE  ArrayInv'
<1>1. CASE Panics
  BY <1>1, PanicsInv DEF CheckGlobal
<1>2. CASE ~Panics
  <2>1. /\ global # None
        /\ hsm.initial[global] # None
        /\ hsm.transitions[global] = <<>>
        /\ loop = "global" /\ phase = "off" /\ loop' = "hierarchy"
        /\ UNCHANGED <<hsm, global, phase, index, states, unstepped>>
    BY <1>2 DEF CheckGlobal, Looping
  <2>2. states \in Arrays /\ Loading
    BY <2>1 DEF ArrayInv
  <2>3. global \in State
    BY <2>1, <2>2 DEF Loading, LoopType, Machinery, Pointer
  <2>4. states.transitions[global] = <<>>
    <3>1. DOMAIN hsm.transitions[global] = DOMAIN states.transitions[global]
      BY <2>2, <2>3 DEF Loading, TransitionsInv, Leads, Bare
    <3> QED
      BY <2>1, <2>2, <2>3, <3>1, EmptyList
  <2>5. LoopType' /\ Untouched'
    BY <2>1, <2>2 DEF Loading, LoopType, Untouched, unstepped, cursors
  <2>6. CacheInv'
    <3>1. \A s \in State : ~Ahead("cache", s) /\ ~Ahead("cache", s)'
      BY <2>1 DEF Ahead
    <3>2. \A s \in State : Cached(s)' <=> Cached(s)
      BY <2>1, SameLookup DEF Cached
    <3> QED
      BY <2>2, <3>1, <3>2 DEF Loading, CacheInv
  <2>7. GlobalInv'
    BY <2>1, <2>3, <2>4 DEF GlobalInv
  <2>8. HierarchyInv'
    <3>1. \A s \in State : Ahead("hierarchy", s)'
      BY <2>1, <2>2, ArrayType DEF Loading, LoopType, Ahead
    <3> QED
      BY <3>1 DEF HierarchyInv
  <2>9. TransitionsInv'
    <3>1. \A s : ~Resolved(s) /\ ~Resolved(s)'
      BY <2>1 DEF Resolved
    <3> QED
      BY <2>1, <2>2, <3>1 DEF Loading, TransitionsInv, Bare
  <2> QED
    BY <2>1, <2>2, <2>5, <2>6, <2>7, <2>8, <2>9
    DEF ArrayInv, Loading, Initialised, Phase
<1> QED
  BY <1>1, <1>2

(* The checks of the hierarchy look at parents and initial sub-states.     *)
LEMMA SameHierarchy ==
    ASSUME hsm'.parent = hsm.parent, hsm'.initial = hsm.initial,
           UNCHANGED global
    PROVE  /\ \A s : InitialIsChild(s)' <=> InitialIsChild(s)
           /\ \A s : BelongsToGlobal(hsm, global, s)'
                       <=> BelongsToGlobal(hsm, global, s)
<1>1. \A s : Climb(hsm, global, s)' = Climb(hsm, global, s)
  BY DEF Climb
<1>2. \A s, k : Up(hsm, global, s, k)' = Up(hsm, global, s, k)
  BY DEF Up, Climb
<1>3. \A s : Chain(hsm, global, s)' = Chain(hsm, global, s)
  BY <1>2 DEF Chain
<1> QED
  BY <1>3 DEF InitialIsChild, BelongsToGlobal

LEMMA CheckHierarchyInv ==
    ASSUME ArrayInv, CheckHierarchy
    PROVE  ArrayInv'
<1>1. CASE Panics
  BY <1>1, PanicsInv DEF CheckHierarchy
<1>2. CASE ~Panics
  <2>1. /\ InitialIsChild(index) /\ BelongsToGlobal(hsm, global, index)
        /\ Advance("transitions")
        /\ loop = "hierarchy" /\ phase = "off"
        /\ UNCHANGED <<hsm, global, states, unstepped>>
    BY <1>2 DEF CheckHierarchy, Looping
  <2>2. /\ states \in Arrays /\ Loading
        /\ State = 1..StatesSize /\ StatesSize \in Nat \ {0}
    BY <2>1, ArrayType DEF ArrayInv
  <2>3. /\ phase' = "off"
        /\ index' \in State
        /\ \/ index < StatesSize /\ loop' = "hierarchy" /\ index' = index + 1
           \/ index = StatesSize /\ loop' = "transitions" /\ index' = 1
    BY <2>1, <2>2 DEF Advance, Loading, LoopType
  <2>4. LoopType' /\ Untouched'
    BY <2>1, <2>2, <2>3
    DEF Loading, LoopType, Pointer, Untouched, unstepped, cursors
  <2>5. CacheInv'
    <3>1. \A s \in State : ~Ahead("cache", s) /\ ~Ahead("cache", s)'
      BY <2>1, <2>3 DEF Ahead
    <3>2. \A s \in State : Cached(s)' <=> Cached(s)
      BY <2>1, SameLookup DEF Cached
    <3> QED
      BY <2>2, <3>1, <3>2 DEF Loading, CacheInv
  <2>6. GlobalInv'
    BY <2>1, <2>2 DEF Loading, GlobalInv
  <2>7. HierarchyInv'
    <3>1. \A s \in State :
             ~Ahead("hierarchy", s)' => ~Ahead("hierarchy", s) \/ s = index
      BY <2>1, <2>2, <2>3 DEF Ahead, Loading, LoopType
    <3>2. \A s \in State : ~Ahead("hierarchy", s)' =>
             InitialIsChild(s) /\ BelongsToGlobal(hsm, global, s)
      BY <2>1, <2>2, <3>1 DEF Loading, HierarchyInv
    <3> QED
      BY <2>1, <3>2, SameHierarchy DEF HierarchyInv
  <2>8. TransitionsInv'
    <3>1. \A s \in State : ~Resolved(s) /\ ~Resolved(s)'
      BY <2>1, <2>2, <2>3 DEF Resolved
    <3> QED
      BY <2>1, <2>2, <3>1 DEF Loading, TransitionsInv, Bare
  <2> QED
    BY <2>1, <2>2, <2>3, <2>4, <2>5, <2>6, <2>7, <2>8
    DEF ArrayInv, Loading, Initialised, Phase
<1> QED
  BY <1>1, <1>2

(* After the last loop, the array is a machine the engine can run.         *)
Loaded ==
    /\ states \in Arrays /\ phase = "idle" /\ Untouched
    /\ hsm \in Machinery
    /\ global \in State
    /\ hsm.initial[global] # None
    /\ states.transitions[global] = <<>>
    /\ \A s \in State : Cached(s)
    /\ \A s \in State : InitialIsChild(s) /\ BelongsToGlobal(hsm, global, s)
    /\ \A s \in State : Leads(s)

LEMMA LoadedLeads ==
    ASSUME Loaded, NEW s \in State, NEW j \in DOMAIN states.transitions[s]
    PROVE  LET t == states.transitions[s][j]
               to == hsm.transitions[s][j].to
           IN  /\ hsm.transitions[s][j] = Points(t, to)
               /\ to = Lookup(t.toStateId)
               /\ to \in State /\ to # global
               /\ states.id[to] = t.toStateId
<1> DEFINE t == states.transitions[s][j]
<1>1. /\ hsm.transitions[s][j] = Points(t, Lookup(t.toStateId))
      /\ Resolvable(t)
  BY DEF Loaded, Leads
<1>2. hsm.transitions[s][j].to = Lookup(t.toStateId)
  BY <1>1 DEF Points
<1> QED
  BY <1>1, <1>2, LookupFinds DEF Resolvable

LEMMA LoadedTransitions ==
    ASSUME Loaded
    PROVE  hsm.transitions \in [State -> Seq(Transition)]
<1>1. ASSUME NEW s \in State
      PROVE  hsm.transitions[s] \in Seq(Transition)
  <2> DEFINE to == [j \in DOMAIN states.transitions[s] |->
                       Lookup(states.transitions[s][j].toStateId)]
  <2>1. to \in [DOMAIN states.transitions[s] -> State]
    BY LoadedLeads
  <2>2. states \in Arrays
    BY DEF Loaded
  <2>3. [j \in DOMAIN states.transitions[s] |->
            Points(states.transitions[s][j], to[j])] \in Seq(Transition)
    BY <2>1, <2>2, PointedList DEF Transition
  <2>4. hsm.transitions[s] = [j \in DOMAIN states.transitions[s] |->
                                Points(states.transitions[s][j], to[j])]
    BY DEF Loaded, Leads
  <2> QED
    BY <2>3, <2>4
<1> QED
  BY <1>1 DEF Loaded, Machinery

LEMMA LoadedValid ==
    ASSUME Loaded
    PROVE  Valid(hsm, global)
<1>1. \A s \in State : hsm.parent[s] = None <=> s = global
  BY ReferenceFinds DEF Loaded, Cached
<1>2. hsm.transitions[global] = <<>>
  <2>1. hsm.transitions[global] \in Seq(Transition)
    BY LoadedTransitions DEF Loaded
  <2>2. DOMAIN hsm.transitions[global] = DOMAIN states.transitions[global]
    BY DEF Loaded, Leads
  <2>3. DOMAIN hsm.transitions[global] = {}
    BY <2>2 DEF Loaded
  <2>4. \A n \in Nat : 1..n = {} => n = 0
    OBVIOUS
  <2>5. Len(hsm.transitions[global]) = 0
    BY <2>1, <2>3, <2>4, LenProperties
  <2> QED
    BY <2>1, <2>5, EmptySeq
<1>3. \A s \in State : \A j \in DOMAIN hsm.transitions[s] :
         hsm.transitions[s][j].to # global
  <2>1. \A s \in State : DOMAIN hsm.transitions[s] = DOMAIN states.transitions[s]
    BY DEF Loaded, Leads
  <2> QED
    BY <2>1, LoadedLeads
<1>4. \A s \in State : hsm.initial[s] # None => hsm.parent[hsm.initial[s]] = s
  BY DEF Loaded, InitialIsChild
<1> QED
  BY <1>1, <1>2, <1>3, <1>4 DEF Loaded, Valid

LEMMA LoadedInv == Loaded => IInv /\ InitAccepts
<1> SUFFICES ASSUME Loaded PROVE IInv /\ InitAccepts
  OBVIOUS
<1>1. hsm \in Machine
  <2>1. /\ hsm = [parent |-> hsm.parent, initial |-> hsm.initial,
                  final |-> hsm.final, transitions |-> hsm.transitions]
        /\ hsm.parent \in [State -> State \cup {None}]
        /\ hsm.initial \in [State -> State \cup {None}]
        /\ hsm.final \in SUBSET State
    BY DEF Loaded, Machinery, Pointer
  <2>2. hsm.transitions \in [State -> Seq(Transition)]
    BY LoadedTransitions
  <2> QED
    BY <2>1, <2>2 DEF Machine
<1>2. IsTree(hsm, global)
  BY <1>1, LoadedValid, MachineTypes DEF Loaded, IsTree
<1>3. TypeOK
  <2>1. queue \in Seq(Event) /\ Len(queue) <= QueueCapacity
    BY HsmAssumption DEF Loaded, Untouched
  <2>2. guardResult \in 0..GuardMax
    BY HsmAssumption DEF Loaded, Untouched
  <2> QED
    BY <1>1, <2>1, <2>2
    DEF Loaded, Untouched, TypeOK, Phase, RTHSM_MAX_NESTED_STATES
<1>4. Ready /\ AtRest /\ NotReady
  BY <1>2 DEF Loaded, Untouched, Ready, AtRest, NotReady, Stepping
<1>5. Exiting /\ Entering /\ Traversing /\ OnSelf /\ InnerFirst
  BY DEF Loaded, Exiting, Entering, Traversing, OnSelf, InnerFirst
<1>6. Unique
  <2> SUFFICES ASSUME NEW s \in State, NEW t \in State, states.id[s] = states.id[t]
               PROVE  s = t
    BY DEF Unique
  <2>1. State \subseteq Nat
    <3>1. State = 1..StatesSize /\ StatesSize \in Nat
      BY ArrayAssumption
    <3> QED
      BY <3>1
  <2>2. UniqueFrom(s) /\ UniqueFrom(t)
    BY DEF Loaded, Cached
  <2>3. ~(t > s) /\ ~(s > t)
    BY <2>2 DEF UniqueFrom
  <2>4. s \in Nat /\ t \in Nat
    BY <2>1
  <2> QED
    BY <2>3, <2>4
<1>7. /\ Resolves(hsm.parent, states.parentId)
      /\ Resolves(hsm.initial, states.initialId)
  BY ReferenceFinds DEF Loaded, Cached, Resolves
<1>8. \A s \in State : \A j \in DOMAIN states.transitions[s] :
         LET t == states.transitions[s][j]
             to == hsm.transitions[s][j].to
         IN  hsm.transitions[s][j] = Points(t, to) /\ states.id[to] = t.toStateId
  BY LoadedLeads
<1> QED
  BY <1>3, <1>4, <1>5, <1>6, <1>7, <1>8, LoadedValid DEF IInv, InitAccepts

LEMMA ResolveTransitionsInv ==
    ASSUME ArrayInv, ResolveTransitions
    PROVE  ArrayInv'
<1>1. CASE Panics
  BY <1>1, PanicsInv DEF ResolveTransitions
<1>2. CASE ~Panics
  <2> DEFINE list == states.transitions[index]
             to == [j \in DOMAIN list |-> Lookup(list[j].toStateId)]
             new == [j \in DOMAIN list |-> Points(list[j], Lookup(list[j].toStateId))]
  <2>1. /\ \A j \in DOMAIN list : Resolvable(list[j])
        /\ hsm' = [hsm EXCEPT !.transitions[index] = new]
        /\ Advance("done")
        /\ loop = "transitions" /\ phase = "off"
        /\ UNCHANGED <<global, states, unstepped>>
    BY <1>2 DEF ResolveTransitions, Looping, Resolvable
  <2>2. /\ states \in Arrays /\ Loading
        /\ State = 1..StatesSize /\ StatesSize \in Nat \ {0}
    BY <2>1, ArrayType DEF ArrayInv
  <2>3. /\ index' \in State
        /\ \/ /\ index < StatesSize /\ loop' = "transitions"
              /\ index' = index + 1 /\ phase' = "off"
           \/ index = StatesSize /\ phase' = "idle"
    BY <2>1, <2>2 DEF Advance, Loading, LoopType
  <2>4. /\ hsm'.parent = hsm.parent /\ hsm'.initial = hsm.initial
        /\ hsm'.final = hsm.final
        /\ hsm'.transitions = [hsm.transitions EXCEPT ![index] = new]
        /\ hsm' = [parent |-> hsm'.parent, initial |-> hsm'.initial,
                   final |-> hsm'.final, transitions |-> hsm'.transitions]
    BY <2>1, <2>2 DEF Loading, LoopType, Machinery
  <2>11. new \in Seq(Pointed)
    <3>1. to \in [DOMAIN list -> Pointer]
      BY <2>1, LookupFinds DEF Resolvable, Pointer
    <3>2. states \in Arrays /\ index \in State
      BY <2>2 DEF Loading, LoopType, Machinery
    <3>3. [j \in DOMAIN list |-> Points(list[j], to[j])] \in Seq(Pointed)
      BY <3>1, <3>2, PointedList DEF Pointed
    <3>4. new = [j \in DOMAIN list |-> Points(list[j], to[j])]
      OBVIOUS
    <3> QED
      BY <3>3, <3>4
  <2>12. hsm' \in Machinery
    <3>1. /\ hsm.parent \in [State -> Pointer]
          /\ hsm.initial \in [State -> Pointer]
          /\ hsm.final \in SUBSET State
          /\ hsm.transitions \in [State -> Seq(Pointed)]
      BY <2>2 DEF Loading, LoopType, Machinery
    <3>2. hsm'.transitions \in [State -> Seq(Pointed)]
      BY <2>4, <2>11, <3>1
    <3> QED
      BY <2>4, <3>1, <3>2 DEF Machinery
  <2>5. \A s \in State : Cached(s)'
    <3>1. \A s \in State : ~Ahead("cache", s)
      BY <2>1 DEF Ahead
    <3> QED
      BY <2>1, <2>2, <2>4, <3>1, SameLookup DEF Loading, CacheInv, Cached
  <2>6. /\ global' \in State
        /\ hsm'.initial[global'] # None
        /\ states'.transitions[global'] = <<>>
    BY <2>1, <2>2, <2>4 DEF Loading, GlobalInv
  <2>7. \A s \in State :
           InitialIsChild(s)' /\ BelongsToGlobal(hsm, global, s)'
    <3>1. \A s \in State : ~Ahead("hierarchy", s)
      BY <2>1 DEF Ahead
    <3> QED
      BY <2>1, <2>2, <2>4, <3>1, SameHierarchy DEF Loading, HierarchyInv
  <2>8. \A s \in State : s <= index => Leads(s)'
    <3> SUFFICES ASSUME NEW s \in State, s <= index PROVE Leads(s)'
      OBVIOUS
    <3>1. CASE s = index
      <4>1. hsm'.transitions[s] = new
        BY <2>2, <2>4, <3>1 DEF Loading, LoopType, Machinery
      <4> QED
        BY <2>1, <3>1, <4>1, SameLookup DEF Leads, Resolvable
    <3>2. CASE s < index
      <4>1. Leads(s)
        BY <2>1, <2>2, <3>2 DEF Resolved, Loading, TransitionsInv
      <4>2. hsm'.transitions[s] = hsm.transitions[s]
        BY <2>2, <2>4, <3>2 DEF Loading, LoopType, Machinery
      <4> QED
        BY <2>1, <4>1, <4>2, SameLookup DEF Leads, Resolvable
    <3> QED
      BY <2>2, <3>1, <3>2 DEF Loading, LoopType, Machinery
  <2>9. CASE index < StatesSize
    <3>1. LoopType'
      <4>1. loop' = "transitions" /\ index' \in State
        BY <2>2, <2>3, <2>9
      <4>2. global' \in Pointer /\ Machinery' = Machinery
        BY <2>1, <2>2 DEF Loading, LoopType, Machinery, Pointer, Pointed
      <4> QED
        BY <2>12, <4>1, <4>2 DEF LoopType, Pointer
    <3>2. CacheInv' /\ GlobalInv' /\ HierarchyInv'
      <4>1. loop' = "transitions"
        BY <2>2, <2>3, <2>9
      <4>2. \A s : ~Ahead("cache", s)'
        BY <4>1 DEF Ahead
      <4>3. CacheInv'
        BY <2>5, <4>2 DEF CacheInv
      <4> QED
        BY <2>6, <2>7, <4>3 DEF GlobalInv, HierarchyInv
    <3>3. TransitionsInv'
      <4> SUFFICES ASSUME NEW s \in State
                   PROVE  IF Resolved(s)' THEN Leads(s)' ELSE Bare(s)'
        BY DEF TransitionsInv
      <4>1. CASE s <= index
        BY <2>8, <4>1, <2>2, <2>3, <2>9 DEF Resolved, Loading, LoopType
      <4>2. CASE ~(s <= index)
        <5>1. ~Resolved(s) /\ ~Resolved(s)'
          BY <2>2, <2>3, <2>9, <4>2 DEF Resolved, Loading, LoopType
        <5>2. hsm'.transitions[s] = hsm.transitions[s]
          BY <2>2, <2>4, <4>2 DEF Loading, LoopType, Machinery
        <5> QED
          BY <2>1, <2>2, <5>1, <5>2 DEF Loading, TransitionsInv, Bare
      <4> QED
        BY <4>1, <4>2
    <3>4. Untouched'
      BY <2>1, <2>2 DEF Loading, Untouched, unstepped, cursors
    <3> QED
      BY <2>1, <2>2, <2>3, <2>9, <3>1, <3>2, <3>3, <3>4
      DEF ArrayInv, Loading, Initialised, Phase
  <2>10. CASE index = StatesSize
    <3>1. phase' = "idle"
      BY <2>3, <2>10, <2>2
    <3>2. Untouched'
      BY <2>1, <2>2 DEF Loading, Untouched, unstepped, cursors
    <3>3. \A s \in State : Leads(s)'
      BY <2>2, <2>8, <2>10
    <3>4. Loaded'
      BY <2>1, <2>2, <2>5, <2>6, <2>7, <2>12, <3>1, <3>2, <3>3
      DEF Loaded, Machinery, Pointer, Pointed
    <3>5. (IInv /\ InitAccepts)'
      BY <3>4, LoadedInv, PTL
    <3> QED
      BY <2>1, <2>2, <3>1, <3>5 DEF ArrayInv, Phase
  <2> QED
    BY <2>2, <2>9, <2>10 DEF Loading, LoopType, Machinery
<1> QED
  BY <1>1, <1>2

(* The engine does not touch what RTHsmInit has left in the array.         *)
LEMMA EngineKeepsMachine ==
    ASSUME Step
    PROVE  Initialised /\ UNCHANGED <<hsm, global>>
<1> USE DEF Initialised, fixed
<1>1. CASE \E e \in Event : RTHsmPushEvent(e)
  BY <1>1 DEF RTHsmPushEvent
<1>2. CASE RTHsmStep
  BY <1>2 DEF RTHsmStep, FirstStep, StepTerminated, StepEmpty, StepDiscards,
              StepDenied, StepFires, Running, Returns
<1>3. CASE Engine
  BY <1>3 DEF Engine, ExitAction, TransitionAction, AtCommonParent,
              EntryAction, EntriesDone, TraverseEntry, TraverseDone,
              SelfExitAction, SelfTransitionAction, SelfEntryAction,
              StepReturnsOK
<1> QED
  BY <1>1, <1>2, <1>3 DEF Step

LEMMA SameArray ==
    ASSUME InitAccepts, Initialised, UNCHANGED <<hsm, global, states>>
    PROVE  InitAccepts'
<1>1. Valid(hsm, global)' <=> Valid(hsm, global)
  BY SameHierarchy DEF Valid
<1>2. /\ Resolves(hsm.parent, states.parentId)'
      /\ Resolves(hsm.initial, states.initialId)'
  BY DEF InitAccepts, Resolves
<1> QED
  BY <1>1, <1>2 DEF InitAccepts, Unique

LEMMA StepInv ==
    ASSUME ArrayInv, Step, UNCHANGED <<states, loop, index>>
    PROVE  ArrayInv'
<1>1. Initialised /\ UNCHANGED <<hsm, global>>
  BY EngineKeepsMachine
<1>2. IInv /\ InitAccepts /\ states \in Arrays
  BY <1>1 DEF ArrayInv
<1>3. IInv'
  BY <1>2, NextInv DEF Step, Next
<1>4. InitAccepts'
  BY <1>1, <1>2, SameArray
<1>5. phase' \in Phase /\ phase' # "off"
  <2>1. global \in State
    BY <1>1, <1>2 DEF IInv, Ready, IsTree, Initialised
  <2> QED
    BY <1>1, <1>3, <2>1, NoneAssumption DEF IInv, TypeOK, NotReady
<1> QED
  BY <1>2, <1>3, <1>4, <1>5 DEF ArrayInv

LEMMA ArrayStutterInv ==
    ASSUME ArrayInv, UNCHANGED arrayVars
    PROVE  ArrayInv'
<1> USE DEF arrayVars, vars
<1>1. CASE phase = "off"
  <2>1. Loading /\ states \in Arrays
    BY <1>1 DEF ArrayInv
  <2>2. Untouched' /\ LoopType' /\ GlobalInv'
    BY <2>1 DEF Loading, Untouched, LoopType, GlobalInv
  <2>3. CacheInv'
    BY <2>1, SameLookup DEF Loading, CacheInv, Cached, Ahead
  <2>4. HierarchyInv'
    BY <2>1, SameHierarchy DEF Loading, HierarchyInv, Ahead
  <2>5. TransitionsInv'
    BY <2>1, SameLookup
    DEF Loading, TransitionsInv, Leads, Bare, Resolved, Resolvable
  <2> QED
    BY <1>1, <2>1, <2>2, <2>3, <2>4, <2>5
    DEF ArrayInv, Loading, Phase, Initialised
<1>2. CASE phase = "panic"
  BY <1>2 DEF ArrayInv, Initialised
<1>3. CASE Initialised
  <2>1. IInv' /\ InitAccepts'
    BY <1>3, StutterInv, SameArray DEF ArrayInv
  <2> QED
    BY <1>3, <2>1 DEF ArrayInv, Initialised
<1> QED
  BY <1>1, <1>2, <1>3 DEF Initialised

LEMMA ArrayInvariance == ArraySpec => []ArrayInv
<1>1. ArrayInit => ArrayInv
  BY ArrayInitInv
<1>2. ArrayInv /\ [ArrayNext]_arrayVars => ArrayInv'
  <2> SUFFICES ASSUME ArrayInv, [ArrayNext]_arrayVars PROVE ArrayInv'
    OBVIOUS
  <2>1. CASE UNCHANGED arrayVars
    BY <2>1, ArrayStutterInv
  <2>2. CASE Initialise
    BY <2>2, CacheStateInv, CheckGlobalInv, CheckHierarchyInv,
       ResolveTransitionsInv DEF Initialise
  <2>3. CASE Step /\ UNCHANGED <<states, loop, index>>
    BY <2>3, StepInv
  <2> QED
    BY <2>1, <2>2, <2>3 DEF ArrayNext
<1> QED
  BY <1>1, <1>2, PTL DEF ArraySpec

(***************************************************************************)
(* What it implies.                                                        *)
(***************************************************************************)

(* An array RTHsmInit lets through, whatever ids are in it, becomes a tree *)
(* whose pointers say what the ids said, and stays one (rthsm.h:43-62).    *)
THEOREM InitAcceptsCorrect == ArraySpec => []InitAccepts
<1>1. ArrayInv => InitAccepts
  BY DEF ArrayInv, InitAccepts, Initialised
<1> QED
  BY <1>1, ArrayInvariance, PTL

(* No assertion of the engine fails on an array RTHsmInit has let through. *)
THEOREM ArrayAssertionsNeverFail == ArraySpec => []AssertionsHold
<1>1. ArrayInv => AssertionsHold
  BY InvAsserts DEF ArrayInv, Initialised, AssertionsHold, Stepping
<1> QED
  BY <1>1, ArrayInvariance, PTL

(* On an array RTHsmInit has let through, the states entered are between   *)
(* two steps the current state and the states around it.                   *)
THEOREM ArraySettledCorrect == ArraySpec => []Settled
<1>1. ArrayInv => Settled
  BY DEF ArrayInv, Initialised, IInv, AtRest, Settled, Inside
<1> QED
  BY <1>1, ArrayInvariance, PTL

(***************************************************************************)
(* No array that keeps the constraints is refused.                         *)
(***************************************************************************)

Child(s, t) == states.parentId[s] = states.id[t]

Roots == {s \in State : states.parentId[s] = RTHSM_NULL_STATE_ID}
Children(S) == {s \in State : \E t \in S : Child(s, t)}

LEMMA LevelsUnfold ==
    Level = [n \in 0..3 |-> IF n = 0 THEN Roots ELSE Children(Level[n - 1])]
<1> DEFINE f == [n \in 0..3 |->
                   IF n = 0 THEN Roots
                   ELSE IF n = 1 THEN Children(Roots)
                   ELSE IF n = 2 THEN Children(Children(Roots))
                   ELSE Children(Children(Children(Roots)))]
           Fixed(g) == g = [n \in 0..3 |->
                              IF n = 0 THEN Roots ELSE Children(g[n - 1])]
<1>1. Fixed(f)
  <2>1. \A n \in 0..3 :
           f[n] = IF n = 0 THEN Roots ELSE Children(f[n - 1])
    <3>1. f[0] = Roots /\ f[1] = Children(f[0])
          /\ f[2] = Children(f[1]) /\ f[3] = Children(f[2])
      OBVIOUS
    <3>2. \A n \in 0..3 : n = 0 \/ n = 1 \/ n = 2 \/ n = 3
      OBVIOUS
    <3> HIDE DEF f
    <3> QED
      BY <3>1, <3>2
  <2> QED
    BY <2>1
<1>2. Level = CHOOSE g : Fixed(g)
  BY DEF Level, Roots, Children, Child, RTHSM_MAX_NESTED_STATES
<1> HIDE DEF f, Fixed
<1>3. Fixed(Level)
  BY <1>1, <1>2
<1> QED
  BY <1>3 DEF Fixed

LEMMA Levels ==
    /\ Level[0] = Roots
    /\ Level[1] = Children(Roots)
    /\ Level[2] = Children(Children(Roots))
    /\ Level[3] = Children(Children(Children(Roots)))
<1> DEFINE f == [n \in 0..3 |-> IF n = 0 THEN Roots ELSE Children(Level[n - 1])]
<1>1. \A n \in 0..3 : f[n] = IF n = 0 THEN Roots ELSE Children(Level[n - 1])
  OBVIOUS
<1>2. \A n \in 0..3 : Level[n] = IF n = 0 THEN Roots ELSE Children(Level[n - 1])
  BY <1>1, LevelsUnfold
<1> QED
  BY <1>2

LEMMA WellFormedShape ==
    ASSUME WellFormed
    PROVE  /\ Unique
           /\ \A s \in State : states.id[s] # RTHSM_NULL_STATE_ID
           /\ \A s \in State : s \in Roots \cup Children(Roots)
                              \cup Children(Children(Roots))
                              \cup Children(Children(Children(Roots)))
<1>1. ASSUME NEW s \in State
      PROVE  s \in Level[0] \cup Level[1] \cup Level[2] \cup Level[3]
  <2>1. PICK n \in 0..RTHSM_MAX_NESTED_STATES : s \in Level[n]
    BY DEF WellFormed
  <2>2. n \in {0, 1, 2, 3}
    BY DEF RTHSM_MAX_NESTED_STATES
  <2> QED
    BY <2>1, <2>2
<1> QED
  BY <1>1, Levels DEF WellFormed

(* An id that a state has leads to that state.                             *)
LEMMA LookupOfState ==
    ASSUME Unique, NEW t \in State
    PROVE  Found(states.id[t]) # {} /\ Lookup(states.id[t]) = t
<1>1. Found(states.id[t]) # {}
  BY DEF Found
<1> QED
  BY <1>1, LookupFinds DEF Unique

LEMMA ParentExists ==
    ASSUME WellFormed, NEW s \in State,
           states.parentId[s] # RTHSM_NULL_STATE_ID
    PROVE  \E t \in State : Child(s, t)
  BY WellFormedShape DEF Roots, Children

(* Once the array is cached, pointers lead from child to parent.           *)
LEMMA CachedParent ==
    ASSUME WellFormed, NEW s \in State, Cached(s),
           NEW t \in State, Child(s, t)
    PROVE  hsm.parent[s] = t /\ s # global
<1>1. states.parentId[s] # RTHSM_NULL_STATE_ID
  BY WellFormedShape DEF Child
<1>2. Reference(states.parentId[s]) = t
  BY <1>1, WellFormedShape, LookupOfState DEF Reference, Child
<1> QED
  BY <1>1, <1>2 DEF Cached

LEMMA CacheStateAccepts ==
    ASSUME ArrayInv, WellFormed, CacheState
    PROVE  ~Panics
<1>1. /\ Loading /\ loop = "cache" /\ states \in Arrays
      /\ State = 1..StatesSize /\ StatesSize \in Nat \ {0}
  BY ArrayType DEF CacheState, Looping, ArrayInv
<1>2. index \in State
  BY <1>1 DEF Loading, LoopType
<1>3. UniqueFrom(index)
  <2>1. \A t \in State : t > index => t # index
    BY <1>1, <1>2
  <2> QED
    BY <1>2, <2>1, WellFormedShape DEF Unique, UniqueFrom
<1>4. states.parentId[index] = RTHSM_NULL_STATE_ID => global = None
  <2> SUFFICES ASSUME states.parentId[index] = RTHSM_NULL_STATE_ID,
                      global \in State
               PROVE  FALSE
    BY <1>1 DEF Loading, LoopType, Pointer
  <2>1. Ahead("cache", index)
    BY <1>1, <1>2 DEF Ahead
  <2>2. index # global /\ ~Ahead("cache", global) /\ Cached(global)
    BY <1>1, <1>2, <2>1 DEF Loading, CacheInv
  <2>3. {global, index} \subseteq Roots
    BY <1>2, <2>2 DEF Cached, Roots
  <2>4. \E g : Roots = {g}
    BY Levels DEF WellFormed
  <2> QED
    BY <2>2, <2>3, <2>4
<1>5. IsReference(states.parentId[index])
  BY <1>2, ParentExists, WellFormedShape, LookupOfState DEF IsReference, Child
<1>6. IsReference(states.initialId[index])
  BY <1>2, WellFormedShape, LookupOfState DEF WellFormed, IsReference
<1> QED
  BY <1>1, <1>3, <1>4, <1>5, <1>6 DEF CacheState, Panics, Advance, Looping

(* The global state, from the end of the first loop on.                    *)
LEMMA GlobalFound ==
    ASSUME WellFormed, \A s \in State : Cached(s), global \in Pointer
    PROVE  /\ global \in State /\ Roots = {global}
           /\ states.initialId[global] # RTHSM_NULL_STATE_ID
           /\ states.transitions[global] = <<>>
           /\ \A s \in State : \A j \in DOMAIN states.transitions[s] :
                 \E t \in State \ {global} :
                    states.id[t] = states.transitions[s][j].toStateId
<1>1. PICK g \in State :
         /\ Roots = {g}
         /\ states.initialId[g] # RTHSM_NULL_STATE_ID
         /\ states.transitions[g] = <<>>
         /\ \A s \in State : \A j \in DOMAIN states.transitions[s] :
               \E t \in State \ {g} :
                  states.id[t] = states.transitions[s][j].toStateId
  BY Levels DEF WellFormed
<1>2. g = global
  BY <1>1 DEF Roots, Cached
<1> QED
  BY <1>1, <1>2

LEMMA CheckGlobalAccepts ==
    ASSUME ArrayInv, WellFormed, CheckGlobal
    PROVE  ~Panics
<1>1. Loading /\ loop = "global" /\ phase = "off" /\ states \in Arrays
  BY DEF CheckGlobal, Looping, ArrayInv
<1>2. \A s \in State : Cached(s)
  BY <1>1 DEF Loading, CacheInv, Ahead
<1>3. /\ global \in State
      /\ states.initialId[global] # RTHSM_NULL_STATE_ID
      /\ states.transitions[global] = <<>>
  BY <1>1, <1>2, GlobalFound DEF Loading, LoopType
<1>4. global # None /\ hsm.initial[global] # None
  BY <1>2, <1>3, NoneAssumption, ReferenceFinds DEF Cached
<1>5. hsm.transitions[global] = <<>>
  <2>1. Bare(global)
    BY <1>1, <1>3 DEF Loading, TransitionsInv, Resolved
  <2>2. DOMAIN hsm.transitions[global] = {}
    BY <1>3, <2>1 DEF Bare
  <2>3. hsm.transitions[global] \in Seq(Pointed)
    BY <1>1, <1>3 DEF Loading, LoopType, Machinery
  <2>4. \A n \in Nat : 1..n = {} => n = 0
    OBVIOUS
  <2>5. Len(hsm.transitions[global]) = 0
    BY <2>2, <2>3, <2>4, LenProperties
  <2> QED
    BY <2>3, <2>5, EmptySeq
<1> QED
  BY <1>1, <1>4, <1>5 DEF CheckGlobal, Panics

LEMMA CheckHierarchyAccepts ==
    ASSUME ArrayInv, WellFormed, CheckHierarchy
    PROVE  ~Panics
<1>1. Loading /\ loop = "hierarchy" /\ phase = "off" /\ states \in Arrays
  BY DEF CheckHierarchy, Looping, ArrayInv
<1>2. \A s \in State : Cached(s)
  BY <1>1 DEF Loading, CacheInv, Ahead
<1>3. index \in State /\ global \in State /\ Roots = {global}
  BY <1>1, <1>2, GlobalFound DEF Loading, LoopType
<1>4. InitialIsChild(index)
  <2> SUFFICES ASSUME hsm.initial[index] # None
               PROVE  hsm.parent[hsm.initial[index]] = index
    BY DEF InitialIsChild
  <2>1. states.initialId[index] # RTHSM_NULL_STATE_ID
    BY <1>2, <1>3, ReferenceFinds DEF Cached
  <2>2. PICK t \in State : /\ states.id[t] = states.initialId[index]
                           /\ states.parentId[t] = states.id[index]
    BY <1>3, <2>1 DEF WellFormed
  <2>3. hsm.initial[index] = t
    BY <1>2, <1>3, <2>1, <2>2, WellFormedShape, LookupOfState
    DEF Cached, Reference
  <2> QED
    BY <1>2, <1>3, <2>2, <2>3, CachedParent DEF Child
<1>5. BelongsToGlobal(hsm, global, index)
  <2> DEFINE c(s) == Climb(hsm, global, s)
  <2>1. \A S : \A s \in Children(S) : S \subseteq State => c(s) \in S
    BY <1>2, CachedParent DEF Children, Climb
  <2>2. /\ Roots \subseteq State /\ Children(Roots) \subseteq State
        /\ Children(Children(Roots)) \subseteq State
    BY DEF Roots, Children
  <2>3. global \in {index, c(index), c(c(index)), c(c(c(index)))}
    <3>1. CASE index \in Roots
      BY <1>3, <3>1
    <3>2. CASE index \in Children(Roots)
      BY <1>3, <2>1, <2>2, <3>2
    <3>3. CASE index \in Children(Children(Roots))
      BY <1>3, <2>1, <2>2, <3>3
    <3>4. CASE index \in Children(Children(Children(Roots)))
      BY <1>3, <2>1, <2>2, <3>4
    <3> QED
      BY <1>3, <3>1, <3>2, <3>3, <3>4, WellFormedShape
  <2> QED
    BY <2>3, ChainEnumerated DEF BelongsToGlobal
<1> QED
  BY <1>1, <1>4, <1>5 DEF CheckHierarchy, Panics, Advance

LEMMA ResolveTransitionsAccepts ==
    ASSUME ArrayInv, WellFormed, ResolveTransitions
    PROVE  ~Panics
<1>1. Loading /\ loop = "transitions" /\ phase = "off" /\ states \in Arrays
  BY DEF ResolveTransitions, Looping, ArrayInv
<1>2. \A s \in State : Cached(s)
  BY <1>1 DEF Loading, CacheInv, Ahead
<1>3. index \in State
  BY <1>1 DEF Loading, LoopType
<1>4. ASSUME NEW j \in DOMAIN states.transitions[index]
      PROVE  Resolvable(states.transitions[index][j])
  <2>1. PICK t \in State \ {global} :
           states.id[t] = states.transitions[index][j].toStateId
    BY <1>1, <1>2, <1>3, GlobalFound DEF Loading, LoopType
  <2> QED
    BY <2>1, WellFormedShape, LookupOfState DEF Resolvable
<1> QED
  BY <1>1, <1>4 DEF ResolveTransitions, Panics, Advance, Resolvable

(* What an array keeps, it keeps: nobody changes it.                       *)
LEMMA SameWellFormed ==
    ASSUME UNCHANGED states
    PROVE  WellFormed' <=> WellFormed
<1>1. Level' = Level
  BY DEF Level
<1> QED
  BY <1>1 DEF WellFormed, Unique

(* RTHsmInit panics over no array that keeps the constraints               *)
(* (rthsm.h:43-62): it refuses nothing it should run.                      *)
THEOREM InitRejectsCorrect == ArraySpec => []InitRejects
<1>1. ArrayInit => InitRejects
  BY DEF ArrayInit, Unstarted, InitRejects
<1>2. ArrayInv /\ InitRejects /\ [ArrayNext]_arrayVars => InitRejects'
  <2> SUFFICES ASSUME ArrayInv, InitRejects, [ArrayNext]_arrayVars,
                      phase' = "panic", WellFormed'
               PROVE  FALSE
    BY DEF InitRejects
  <2>1. UNCHANGED states
    BY DEF ArrayNext, Initialise, CacheState, CheckGlobal, CheckHierarchy,
           ResolveTransitions, arrayVars
  <2>2. WellFormed /\ phase # "panic"
    BY <2>1, SameWellFormed DEF InitRejects
  <2>3. CASE Initialise
    <3>1. Panics
      BY <2>3, <2>2 DEF Initialise, CacheState, CheckGlobal, CheckHierarchy,
                  ResolveTransitions, Advance, Looping
    <3> QED
      BY <2>2, <2>3, <3>1, CacheStateAccepts, CheckGlobalAccepts,
         CheckHierarchyAccepts, ResolveTransitionsAccepts DEF Initialise
  <2>4. CASE Step /\ UNCHANGED <<states, loop, index>>
    <3>1. Initialised /\ UNCHANGED <<hsm, global>>
      BY <2>4, EngineKeepsMachine
    <3>2. IInv /\ global \in State
      BY <3>1 DEF ArrayInv, IInv, Ready, IsTree, Initialised
    <3>3. IInv'
      BY <2>4, <3>2, NextInv DEF Step, Next
    <3> QED
      BY <3>1, <3>2, <3>3, NoneAssumption DEF IInv, NotReady
  <2>5. CASE UNCHANGED arrayVars
    BY <2>2, <2>5 DEF arrayVars, vars
  <2> QED
    BY <2>3, <2>4, <2>5 DEF ArrayNext
<1> QED
  BY <1>1, <1>2, ArrayInvariance, PTL DEF ArraySpec
=============================================================================
