---------------------------- MODULE RTHsm_proofs ----------------------------
(***************************************************************************)
(* Proofs about the engine, for every machine, every set of events, every  *)
(* queue capacity and whatever guards answer and callbacks push.           *)
(***************************************************************************)
EXTENDS RTHsm, TLAPS, SequenceTheorems

(***************************************************************************)
(* What the assertions of RTHsmInit buy: the walks up a valid machine      *)
(* behave as walks up a tree.                                              *)
(***************************************************************************)

IsTree(m, g) ==
    /\ g \in State
    /\ m.parent \in [State -> State \cup {None}]
    /\ Valid(m, g)

LEMMA ClimbType ==
    ASSUME NEW m, NEW g, IsTree(m, g), NEW s \in State
    PROVE  Climb(m, g, s) \in State
  BY NoneAssumption DEF IsTree, Valid, Climb

LEMMA ClimbGlobal ==
    ASSUME NEW m, NEW g
    PROVE  Climb(m, g, g) = g
  BY DEF Climb

(* A chain, spelled out. *)
LEMMA ChainEnumerated ==
    ASSUME NEW m, NEW g, NEW s
    PROVE  Chain(m, g, s) =
             {s, Climb(m, g, s), Climb(m, g, Climb(m, g, s)),
              Climb(m, g, Climb(m, g, Climb(m, g, s)))}
<1>1. 0..RTHSM_MAX_NESTED_STATES = {0, 1, 2, 3}
  BY DEF RTHSM_MAX_NESTED_STATES
<1>2. /\ Up(m, g, s, 0) = s
      /\ Up(m, g, s, 1) = Climb(m, g, s)
      /\ Up(m, g, s, 2) = Climb(m, g, Climb(m, g, s))
      /\ Up(m, g, s, 3) = Climb(m, g, Climb(m, g, Climb(m, g, s)))
  BY DEF Up
<1> QED
  BY <1>1, <1>2 DEF Chain

LEMMA ChainType ==
    ASSUME NEW m, NEW g, IsTree(m, g), NEW s \in State
    PROVE  Chain(m, g, s) \subseteq State /\ s \in Chain(m, g, s)
  BY ChainEnumerated, ClimbType

(* Every walk is at the global state after three levels. *)
LEMMA ThreeLevels ==
    ASSUME NEW m, NEW g, IsTree(m, g), NEW s \in State
    PROVE  /\ Climb(m, g, Climb(m, g, Climb(m, g, s))) = g
           /\ g \in Chain(m, g, s)
<1>1. g \in Chain(m, g, s)
  <2>1. CASE s = g
    BY <2>1, ChainEnumerated
  <2>2. CASE s # g
    BY <2>2 DEF IsTree, Valid, BelongsToGlobal
  <2> QED
    BY <2>1, <2>2
<1> QED
  BY <1>1, ChainEnumerated, ClimbGlobal

LEMMA ChainUnfold ==
    ASSUME NEW m, NEW g, IsTree(m, g), NEW s \in State
    PROVE  Chain(m, g, s) = {s} \cup Chain(m, g, Climb(m, g, s))
  BY ChainEnumerated, ThreeLevels, ClimbGlobal

(* No state is above itself. *)
LEMMA Acyclic ==
    ASSUME NEW m, NEW g, IsTree(m, g), NEW s \in State, s # g
    PROVE  s \notin Chain(m, g, Climb(m, g, s))
  BY ChainEnumerated, ThreeLevels, ClimbGlobal

LEMMA ChainTransitive ==
    ASSUME NEW m, NEW g, IsTree(m, g), NEW s \in State,
           NEW t \in Chain(m, g, s)
    PROVE  Chain(m, g, t) \subseteq Chain(m, g, s)
  BY ChainEnumerated, ThreeLevels, ClimbGlobal

LEMMA ChainAntisymmetric ==
    ASSUME NEW m, NEW g, IsTree(m, g), NEW s \in State, NEW t \in State,
           t \in Chain(m, g, s), s \in Chain(m, g, t)
    PROVE  s = t
<1>1. CASE s = g
  BY <1>1, ChainEnumerated, ClimbGlobal
<1>2. CASE s # g /\ s # t
  <2>1. t \in Chain(m, g, Climb(m, g, s))
    BY <1>2, ChainUnfold
  <2>2. Climb(m, g, s) \in State
    BY ClimbType
  <2>3. s \in Chain(m, g, Climb(m, g, s))
    BY <2>1, <2>2, ChainTransitive
  <2> QED
    BY <1>2, <2>3, Acyclic
<1> QED
  BY <1>1, <1>2

(* Below its innermost state a chain has no state. *)
LEMMA NoChildInChain ==
    ASSUME NEW m, NEW g, IsTree(m, g), NEW s \in State,
           NEW x \in Chain(m, g, s), x # g
    PROVE  m.parent[x] # s
<1> SUFFICES ASSUME m.parent[x] = s PROVE FALSE
  OBVIOUS
<1>1. x \in State
  BY ChainType
<1>2. Climb(m, g, x) = s
  BY DEF Climb
<1>3. x \notin Chain(m, g, s)
  BY <1>1, <1>2, Acyclic
<1> QED
  BY <1>3

(* Every other state of a chain has a child in it. *)
LEMMA ChildInChain ==
    ASSUME NEW m, NEW g, IsTree(m, g), NEW s \in State,
           NEW t \in Chain(m, g, s), t # s
    PROVE  \E x \in Chain(m, g, s) \ {g} : m.parent[x] = t
<1> DEFINE a == Climb(m, g, s)
           b == Climb(m, g, a)
<1>1. t = a \/ t = b \/ t = Climb(m, g, b)
  BY ChainEnumerated
<1>2. s \in Chain(m, g, s) /\ a \in Chain(m, g, s) /\ b \in Chain(m, g, s)
  BY ChainEnumerated
<1>3. \/ t = Climb(m, g, s) /\ s # g
      \/ t = Climb(m, g, a) /\ a # g
      \/ t = Climb(m, g, b) /\ b # g
  BY <1>1, ClimbGlobal
<1> HIDE DEF a, b
<1> QED
  BY <1>2, <1>3 DEF Climb

(* An initial sub-state is one level inside its state. *)
LEMMA InitialInside ==
    ASSUME NEW m, NEW g, IsTree(m, g), NEW s \in State,
           m.initial[s] \in State
    PROVE  /\ m.initial[s] # g
           /\ m.parent[m.initial[s]] = s
           /\ Climb(m, g, m.initial[s]) = s
  BY NoneAssumption DEF IsTree, Valid, Climb

(* The first state on the way up from t that is in the chain of s starts   *)
(* what the two chains share.                                              *)
LEMMA CommonChain ==
    ASSUME NEW m, NEW g, IsTree(m, g), NEW s \in State, NEW t \in State,
           NEW k \in 0..RTHSM_MAX_NESTED_STATES,
           Up(m, g, t, k) \in Chain(m, g, s),
           \A j \in 0..(k - 1) : Up(m, g, t, j) \notin Chain(m, g, s)
    PROVE  Chain(m, g, s) \cap Chain(m, g, t) = Chain(m, g, Up(m, g, t, k))
<1> DEFINE c == Up(m, g, t, k)
<1>1. c \in Chain(m, g, t) /\ c \in State
  BY ChainType DEF Chain
<1>2. Chain(m, g, c) \subseteq Chain(m, g, s) \cap Chain(m, g, t)
  BY <1>1, ChainTransitive
<1>3. ASSUME NEW x \in Chain(m, g, s) \cap Chain(m, g, t)
      PROVE  x \in Chain(m, g, c)
  <2>1. PICK j \in 0..RTHSM_MAX_NESTED_STATES : x = Up(m, g, t, j)
    BY <1>3 DEF Chain
  <2>2. j >= k
    BY <1>3, <2>1 DEF RTHSM_MAX_NESTED_STATES
  <2>3. Up(m, g, t, j) \in {c, Climb(m, g, c), Climb(m, g, Climb(m, g, c)),
                            Climb(m, g, Climb(m, g, Climb(m, g, c)))}
    BY <2>2 DEF Up, RTHSM_MAX_NESTED_STATES
  <2> QED
    BY <2>1, <2>3, ChainEnumerated
<1> QED
  BY <1>2, <1>3

(* Climbing from t meets the chain of s, at the global state if not before. *)
LEMMA CommonExists ==
    ASSUME NEW m, NEW g, IsTree(m, g), NEW s \in State, NEW t \in State
    PROVE  \E k \in 0..RTHSM_MAX_NESTED_STATES :
              /\ Up(m, g, t, k) \in Chain(m, g, s)
              /\ \A j \in 0..(k - 1) : Up(m, g, t, j) \notin Chain(m, g, s)
<1> DEFINE Meets(k) == Up(m, g, t, k) \in Chain(m, g, s)
<1>1. Meets(3)
  BY ThreeLevels DEF Up
<1> HIDE DEF Meets
<1>2. \E k \in 0..3 : Meets(k) /\ \A j \in 0..(k - 1) : ~Meets(j)
  <2>1. CASE Meets(0)
    BY <2>1
  <2>2. CASE ~Meets(0) /\ Meets(1)
    BY <2>2
  <2>3. CASE ~Meets(0) /\ ~Meets(1) /\ Meets(2)
    BY <2>3
  <2>4. CASE ~Meets(0) /\ ~Meets(1) /\ ~Meets(2)
    BY <1>1, <2>4
  <2> QED
    BY <2>1, <2>2, <2>3, <2>4
<1> QED
  BY <1>2 DEF Meets, RTHSM_MAX_NESTED_STATES

(* One place further in dstParents is one level up. *)
LEMMA UpNext ==
    ASSUME NEW m, NEW g, NEW t, NEW k \in 0..(RTHSM_MAX_NESTED_STATES - 1)
    PROVE  Up(m, g, t, k + 1) = Climb(m, g, Up(m, g, t, k))
  BY DEF Up, RTHSM_MAX_NESTED_STATES

LEMMA UpInChain ==
    ASSUME NEW m, NEW g, NEW t, NEW k \in 0..RTHSM_MAX_NESTED_STATES
    PROVE  Up(m, g, t, k) \in Chain(m, g, t)
  BY DEF Chain

(***************************************************************************)
(* The nested states around a state.                                       *)
(***************************************************************************)

Inside(s) == Parents(s) \ {global}

(***************************************************************************)
(* The inductive invariant: what has been entered, phase by phase.         *)
(***************************************************************************)

NotReady ==
    phase \in {"off", "panic"} =>
        global = None /\ current = None /\ active = {} /\ transition = None

Ready ==
    phase \notin {"off", "panic"} =>
        /\ IsTree(hsm, global)
        /\ phase # "idle" => current \in State
        /\ phase \in Stepping \ {"traverse", "return"} => transition # None
        /\ transition # None => transition.to # global

AtRest ==
    phase = "idle" =>
        /\ transition = None
        /\ current = None => active = {}
        /\ current # None => /\ active = Inside(current)
                             /\ hsm.initial[current] = None

(* The cursor of the exit loop has not passed the common parent. *)
Exiting ==
    phase = "exit" =>
        /\ state \in Parents(current)
        /\ active = Inside(state)
        /\ \A k \in 0..RTHSM_MAX_NESTED_STATES :
              IsCommon(k) => DstParent(k) \in Parents(state)

(* The states around the next one to enter have been entered. *)
Entering ==
    phase = "entry" =>
        /\ i \in -1..(RTHSM_MAX_NESTED_STATES - 1)
        /\ active = Inside(DstParent(i + 1))
        /\ \A k \in 0..i : DstParent(k) # global

Traversing ==
    phase \in {"traverse", "return"} =>
        /\ active = Inside(current)
        /\ Target \in Parents(current)
        /\ phase = "return" => hsm.initial[current] = None

OnSelf ==
    phase \in {"selfExit", "selfAction", "selfEntry"} =>
        /\ transition.to = current
        /\ hsm.initial[current] = None
        /\ phase = "selfExit" => ~transition.internal /\ active = Inside(current)
        /\ phase # "selfExit" =>
              active = Inside(current) \ (IF transition.internal THEN {} ELSE {current})

IInv ==
    /\ TypeOK
    /\ NotReady /\ Ready
    /\ AtRest /\ Exiting /\ Entering /\ Traversing /\ OnSelf
    /\ InnerFirst

(***************************************************************************)
(* Lemmas.                                                                 *)
(***************************************************************************)

LEMMA MachineTypes ==
    ASSUME hsm \in Machine
    PROVE  /\ hsm.parent \in [State -> State \cup {None}]
           /\ hsm.initial \in [State -> State \cup {None}]
           /\ hsm.final \subseteq State
           /\ hsm.transitions \in [State -> Seq(Transition)]
  BY DEF Machine

LEMMA ParentsUnfold ==
    ASSUME IsTree(hsm, global), NEW s \in State, s # global
    PROVE  /\ Inside(s) = {s} \cup Inside(Parent(s))
           /\ s \notin Inside(Parent(s))
           /\ Parent(s) = hsm.parent[s]
           /\ Parent(s) \in State
  BY ChainUnfold, Acyclic, ClimbType
  DEF Inside, Parents, Parent, Climb

LEMMA ParentsType ==
    ASSUME IsTree(hsm, global), NEW s \in State
    PROVE  /\ Parents(s) \subseteq State
           /\ s \in Parents(s)
           /\ global \in Parents(s)
           /\ Inside(s) \subseteq State
           /\ Parents(s) = Inside(s) \cup {global}
  BY ChainType, ThreeLevels DEF Inside, Parents

LEMMA DstParentType ==
    ASSUME IsTree(hsm, global), transition \in Transition,
           NEW k \in 0..RTHSM_MAX_NESTED_STATES
    PROVE  DstParent(k) \in State /\ DstParent(k) \in Parents(transition.to)
  BY UpInChain, ChainType DEF Transition, DstParent, Parents

LEMMA DstParentNext ==
    ASSUME NEW k \in 0..(RTHSM_MAX_NESTED_STATES - 1)
    PROVE  DstParent(k + 1) = Parent(DstParent(k))
  BY UpNext DEF DstParent, Parent

LEMMA DstParentZero == DstParent(0) = transition.to
  BY DEF DstParent, Up

(* The search for the common parent succeeds, and finds the innermost      *)
(* state around both ends.                                                 *)
LEMMA CommonParent ==
    ASSUME IsTree(hsm, global), transition \in Transition, current \in State
    PROVE  /\ CommonParentIndex \in 0..RTHSM_MAX_NESTED_STATES
           /\ IsCommon(CommonParentIndex)
           /\ Parents(current) \cap Parents(transition.to)
                = Parents(DstParent(CommonParentIndex))
<1>1. transition.to \in State
  BY DEF Transition
<1>2. \E k \in 0..RTHSM_MAX_NESTED_STATES : IsCommon(k)
  BY <1>1, CommonExists DEF IsCommon, DstParent, Parents
<1>3. /\ CommonParentIndex \in 0..RTHSM_MAX_NESTED_STATES
      /\ IsCommon(CommonParentIndex)
  BY <1>2 DEF CommonParentIndex
<1>4. ASSUME NEW k \in 0..RTHSM_MAX_NESTED_STATES, IsCommon(k)
      PROVE  Parents(current) \cap Parents(transition.to) = Parents(DstParent(k))
  BY <1>1, <1>4, CommonChain DEF IsCommon, DstParent, Parents
<1> QED
  BY <1>3, <1>4

LEMMA CallbackType ==
    ASSUME TypeOK, Callback
    PROVE  queue' \in Seq(Event) /\ Len(queue') <= QueueCapacity
<1>0. PICK n \in 0..(QueueCapacity - Len(queue)) :
         \E es \in [1..n -> CallbackEvents] : queue' = queue \o es
  BY DEF Callback
<1>1. PICK es \in [1..n -> CallbackEvents] : queue' = queue \o es
  BY <1>0
<1>2. queue \in Seq(Event) /\ Len(queue) \in Nat /\ QueueCapacity \in Nat /\ n \in Nat
  BY HsmAssumption, LenProperties DEF TypeOK
<1>3. es \in Seq(Event) /\ Len(es) = n
  BY <1>2, HsmAssumption
<1> QED
  BY <1>1, <1>2, <1>3, ConcatProperties

(***************************************************************************)
(* The invariant holds.                                                    *)
(***************************************************************************)

LEMMA InitInv == Init => IInv
<1> SUFFICES ASSUME Init PROVE IInv
  OBVIOUS
<1>1. TypeOK
  <2>1. hsm \in Machine
    BY HsmAssumption DEF Init, Unstarted
  <2>2. queue \in Seq(Event) /\ Len(queue) <= QueueCapacity
    BY HsmAssumption DEF Init, Unstarted
  <2>3. guardResult \in 0..GuardMax
    BY HsmAssumption DEF Init, Unstarted
  <2> QED
    BY <2>1, <2>2, <2>3 DEF Init, Unstarted, TypeOK, Phase, RTHSM_MAX_NESTED_STATES
<1> QED
  BY <1>1 DEF Init, Unstarted, IInv, NotReady, Ready, AtRest, Exiting, Entering,
              Traversing, OnSelf, InnerFirst

LEMMA StutterInv ==
    ASSUME IInv, UNCHANGED vars
    PROVE  IInv'
<1> USE DEF vars, cursors, fixed
<1>1. TypeOK'
  BY DEF IInv, TypeOK
<1>2. NotReady' /\ Ready' /\ AtRest'
  BY DEF IInv, NotReady, Ready, AtRest, Inside, Parents
<1>3. Exiting' /\ Entering'
  BY DEF IInv, Exiting, Entering, Inside, Parents, DstParent, IsCommon
<1>4. Traversing' /\ OnSelf' /\ InnerFirst'
  BY DEF IInv, Traversing, OnSelf, InnerFirst, Inside, Parents, Target, Reacts
<1> QED
  BY <1>1, <1>2, <1>3, <1>4 DEF IInv

LEMMA RTHsmInitInv ==
    ASSUME IInv, RTHsmInit
    PROVE  IInv'
<1> USE DEF cursors, fixed
<1>1. TypeOK'
  BY DEF RTHsmInit, IInv, TypeOK, Phase
<1>2. NotReady' /\ AtRest'
  BY DEF RTHsmInit, IInv, NotReady, AtRest
<1>3. Ready'
  <2>1. CASE phase' = "panic"
    BY <2>1 DEF Ready
  <2>2. CASE phase' = "idle"
    <3>1. PICK g \in State : Valid(hsm, g) /\ global' = g
      BY <2>2 DEF RTHsmInit
    <3>2. IsTree(hsm, g)
      BY <3>1, MachineTypes DEF IInv, TypeOK, IsTree
    <3>3. IsTree(hsm, global)'
      BY <3>1, <3>2 DEF RTHsmInit
    <3>4. transition' = None
      BY DEF RTHsmInit, IInv, NotReady
    <3> QED
      BY <2>2, <3>3, <3>4 DEF Ready, Stepping
  <2> QED
    BY <2>1, <2>2 DEF RTHsmInit
<1>4. phase' \in {"idle", "panic"}
  BY DEF RTHsmInit
<1>5. Exiting' /\ Entering' /\ Traversing' /\ OnSelf' /\ InnerFirst'
  BY <1>4 DEF Exiting, Entering, Traversing, OnSelf, InnerFirst
<1> QED
  BY <1>1, <1>2, <1>3, <1>5 DEF IInv

(* A step that leaves the machine at rest where it was. *)
LEMMA RestInv ==
    ASSUME IInv, phase = "idle",
           UNCHANGED <<hsm, global, current, phase, cursors, active>>,
           queue' \in Seq(Event), Len(queue') <= QueueCapacity,
           result' \in Result \cup {None}, guardResult' \in 0..GuardMax
    PROVE  IInv'
<1> USE DEF cursors, fixed
<1>1. TypeOK'
  BY DEF IInv, TypeOK
<1>2. NotReady' /\ Ready' /\ AtRest'
  BY DEF IInv, NotReady, Ready, AtRest, Inside, Parents
<1>3. Exiting' /\ Entering' /\ Traversing' /\ OnSelf' /\ InnerFirst'
  BY DEF Exiting, Entering, Traversing, OnSelf, InnerFirst
<1> QED
  BY <1>1, <1>2, <1>3 DEF IInv

LEMMA PushEventInv ==
    ASSUME IInv, NEW e \in Event, RTHsmPushEvent(e)
    PROVE  IInv'
<1>1. queue' \in Seq(Event) /\ Len(queue') <= QueueCapacity
  <2>1. queue \in Seq(Event) /\ Len(queue) <= QueueCapacity /\ QueueCapacity \in Nat
    BY HsmAssumption DEF IInv, TypeOK
  <2> QED
    BY <2>1, AppendProperties, LenProperties DEF RTHsmPushEvent, Pushed
<1> QED
  BY <1>1, RestInv DEF RTHsmPushEvent, IInv, TypeOK, fixed

LEMMA PoppedType ==
    ASSUME TypeOK, queue # <<>>
    PROVE  Tail(queue) \in Seq(Event) /\ Len(Tail(queue)) <= QueueCapacity
  BY HsmAssumption, HeadTailProperties, LenProperties DEF TypeOK

LEMMA ReturnsInv ==
    ASSUME IInv, StepTerminated \/ StepEmpty \/ StepDiscards \/ StepDenied
    PROVE  IInv'
<1>1. CASE StepTerminated \/ StepEmpty
  BY <1>1, RestInv
  DEF StepTerminated, StepEmpty, Running, Returns, Result, IInv, TypeOK
<1>2. CASE StepDiscards
  BY <1>2, RestInv, PoppedType
  DEF StepDiscards, Running, Returns, Result, IInv, TypeOK
<1>3. CASE StepDenied
  <2>1. guardResult' \in 0..GuardMax
    BY <1>3 DEF StepDenied, Answers
  <2> QED
    BY <1>3, <2>1, RestInv, PoppedType
    DEF StepDenied, Running, Returns, Result, IInv, TypeOK
<1> QED
  BY <1>1, <1>2, <1>3

LEMMA FirstStepInv ==
    ASSUME IInv, FirstStep
    PROVE  IInv'
<1> USE DEF cursors, fixed
<1>1. phase = "idle" /\ IsTree(hsm, global) /\ global \in State
  BY DEF FirstStep, IInv, Ready, IsTree
<1>2. TypeOK'
  BY <1>1 DEF FirstStep, IInv, TypeOK, Phase, Stepping
<1>3. Ready' /\ NotReady'
  BY <1>1 DEF FirstStep, IInv, Ready, NotReady, AtRest, Stepping
<1>4. Traversing'
  <2>1. Parents(global) = {global}
    BY ChainEnumerated, ClimbGlobal DEF Parents
  <2>2. Parents(current)' = {global}
    BY <2>1 DEF FirstStep, Parents
  <2>3. Target' = global
    BY DEF FirstStep, IInv, AtRest, Target, Stepping
  <2>4. active' = {} /\ global' = global /\ phase' = "traverse"
    BY DEF FirstStep, IInv, AtRest
  <2> QED
    BY <2>2, <2>3, <2>4 DEF Traversing, Inside
<1>5. AtRest' /\ Exiting' /\ Entering' /\ OnSelf' /\ InnerFirst'
  BY DEF FirstStep, AtRest, Exiting, Entering, OnSelf, InnerFirst
<1> QED
  BY <1>2, <1>3, <1>4, <1>5 DEF IInv

LEMMA StepFiresInv ==
    ASSUME IInv, StepFires
    PROVE  IInv'
<1> USE DEF cursors, fixed
<1>1. /\ phase = "idle" /\ IsTree(hsm, global) /\ TypeOK
      /\ current \in State /\ queue # <<>>
      /\ active = Inside(current) /\ hsm.initial[current] = None
      /\ transition = None
  BY DEF StepFires, Running, IInv, TypeOK, Ready, AtRest
<1>0. PICK v \in Answers(Candidates(Head(queue))) : \E c \in DOMAIN v :
         /\ FirstTried(c, {d \in DOMAIN v : v[d] = 0})
         /\ source' = c[1]
         /\ transition' = At(c)
         /\ \/ At(c).to # current /\ phase' = "exit"
            \/ At(c).to = current /\ At(c).internal /\ phase' = "selfAction"
            \/ At(c).to = current /\ ~At(c).internal /\ phase' = "selfExit"
  BY DEF StepFires
<1>2. PICK c \in DOMAIN v :
         /\ FirstTried(c, {d \in DOMAIN v : v[d] = 0})
         /\ source' = c[1]
         /\ transition' = At(c)
         /\ \/ At(c).to # current /\ phase' = "exit"
            \/ At(c).to = current /\ At(c).internal /\ phase' = "selfAction"
            \/ At(c).to = current /\ ~At(c).internal /\ phase' = "selfExit"
  BY <1>0
<1>3. /\ DOMAIN v = Candidates(Head(queue))
      /\ \A d \in DOMAIN v : ~At(d).guarded => v[d] = 0
  BY DEF Answers
<1>4. \A d : d \in Candidates(Head(queue)) <=>
         \E s \in Inside(current) : \E j \in DOMAIN hsm.transitions[s] :
            d = <<s, j>> /\ At(d).event = Head(queue)
  BY DEF Candidates, Inside
<1>5. PICK s \in Inside(current) : \E j \in DOMAIN hsm.transitions[s] :
         c = <<s, j>> /\ At(c).event = Head(queue)
  BY <1>3, <1>4
<1>6. PICK j \in DOMAIN hsm.transitions[s] :
         c = <<s, j>> /\ At(c).event = Head(queue)
  BY <1>5
<1>7. /\ s \in State /\ s # global
      /\ At(c) = hsm.transitions[s][j]
      /\ At(c) \in Transition
      /\ At(c).to \in State /\ At(c).to # global
      /\ At(c) # None
  <2>1. s \in State /\ s # global
    BY <1>1, ParentsType DEF Inside
  <2>2. At(c) = hsm.transitions[s][j]
    BY <1>6 DEF At
  <2>3. hsm.transitions[s] \in Seq(Transition)
    BY <1>1, <2>1, MachineTypes DEF TypeOK
  <2>4. At(c) \in Transition
    BY <2>2, <2>3, ElementOfSeq, LenProperties
  <2>5. At(c).to # global
    BY <1>1, <2>1, <2>2 DEF IsTree, Valid
  <2> QED
    BY <2>1, <2>2, <2>4, <2>5, HsmAssumption DEF Transition
<1>8. phase' \in {"exit", "selfAction", "selfExit"}
  BY <1>2
<1>9. TypeOK'
  <2>1. queue' \in Seq(Event) /\ Len(queue') <= QueueCapacity
    BY <1>1, PoppedType DEF StepFires
  <2>2. transition' \in Transition \cup {None} /\ source' \in State
    BY <1>2, <1>6, <1>7
  <2> QED
    BY <1>1, <1>8, <2>1, <2>2 DEF StepFires, TypeOK, Phase, Stepping
<1>10. NotReady' /\ Ready' /\ AtRest'
  BY <1>1, <1>2, <1>7, <1>8 DEF StepFires, NotReady, Ready, AtRest, Stepping
<1>11. Exiting'
  <2>1. state' = current /\ current' = current /\ hsm' = hsm
        /\ global' = global /\ active' = active
    BY DEF StepFires
  <2>2. current \in Parents(current)
    BY <1>1, ParentsType
  <2>3. \A k \in 0..RTHSM_MAX_NESTED_STATES :
           IsCommon(k)' => DstParent(k)' \in Parents(current)
    BY <2>1 DEF IsCommon, Parents
  <2> QED
    BY <1>1, <2>1, <2>2, <2>3 DEF Exiting, Parents, Inside
<1>12. Entering' /\ Traversing'
  BY <1>8 DEF Entering, Traversing
<1>13. OnSelf'
  BY <1>1, <1>2 DEF StepFires, OnSelf, Inside, Parents
<1>14. InnerFirst'
  <2>1. current' = current /\ hsm' = hsm /\ global' = global
        /\ source' = s /\ transition'.event = Head(queue)
    BY <1>2, <1>6 DEF StepFires
  <2>2. ASSUME NEW t \in Parents(current) \ {s}, s \in Parents(t),
               Reacts(t, Head(queue))
        PROVE  FALSE
    <3>1. t \in State
      BY <1>1, ParentsType
    <3>2. t # global
      <4>1. Parents(global) = {global}
        BY ChainEnumerated, ClimbGlobal DEF Parents
      <4> QED
        BY <1>7, <2>2, <4>1
    <3>3. PICK l \in DOMAIN hsm.transitions[t] :
             /\ hsm.transitions[t][l].event = Head(queue)
             /\ ~hsm.transitions[t][l].guarded
      BY <2>2 DEF Reacts
    <3> DEFINE d == <<t, l>>
    <3>4. At(d) = hsm.transitions[t][l] /\ d[1] = t
      BY DEF At
    <3>5. d \in Candidates(Head(queue))
      BY <1>4, <2>2, <3>2, <3>3, <3>4 DEF Inside
    <3>6. v[d] = 0 /\ d # c /\ d \in DOMAIN v
      BY <1>3, <1>6, <2>2, <3>3, <3>4, <3>5
    <3>7. TriedBefore(c, d)
      BY <1>2, <3>6 DEF FirstTried
    <3>8. t \in Parents(s)
      BY <1>6, <2>2, <3>4, <3>7 DEF TriedBefore
    <3> QED
      BY <1>1, <1>7, <2>2, <3>1, <3>8, ChainAntisymmetric DEF Parents
  <2>3. s \in Parents(current) \ {global}
    BY <1>6 DEF Inside
  <2> QED
    BY <2>1, <2>2, <2>3 DEF InnerFirst, Parents, Reacts
<1> QED
  BY <1>9, <1>10, <1>11, <1>12, <1>13, <1>14 DEF IInv

LEMMA RTHsmStepInv ==
    ASSUME IInv, RTHsmStep
    PROVE  IInv'
  BY FirstStepInv, ReturnsInv, StepFiresInv DEF RTHsmStep

(* The walk out. *)
LEMMA ExitActionInv ==
    ASSUME IInv, ExitAction
    PROVE  IInv'
<1> USE DEF cursors, fixed
<1>1. /\ phase = "exit" /\ IsTree(hsm, global) /\ TypeOK
      /\ transition \in Transition /\ transition # None
      /\ current \in State /\ state \in Parents(current) /\ state \in State
  BY ParentsType
  DEF ExitAction, IInv, TypeOK, Ready, Exiting, Stepping
<1>2. /\ IsCommon(CommonParentIndex)
      /\ CommonParentIndex \in 0..RTHSM_MAX_NESTED_STATES
      /\ state # DstParent(CommonParentIndex)
  BY <1>1, CommonParent DEF ExitAction, AtCommonParent
<1>3. DstParent(CommonParentIndex) \in Parents(state)
  BY <1>1, <1>2 DEF IInv, Exiting
<1>4. state # global
  <2>1. Parents(global) = {global}
    BY ChainEnumerated, ClimbGlobal DEF Parents
  <2> QED
    BY <1>2, <1>3, <2>1
<1>5. /\ state' = Parent(state) /\ Parent(state) \in State
      /\ active' = Inside(Parent(state))
  BY <1>1, <1>4, ParentsUnfold DEF ExitAction, Exit, IInv, Exiting
<1>6. TypeOK'
  <2>1. queue' \in Seq(Event) /\ Len(queue') <= QueueCapacity
    BY <1>1, CallbackType DEF ExitAction, Exit
  <2>2. active' \subseteq State
    BY <1>1, <1>5, ParentsType
  <2> QED
    BY <1>1, <1>5, <2>1, <2>2 DEF ExitAction, TypeOK
<1>7. NotReady' /\ Ready' /\ AtRest'
  BY <1>1 DEF ExitAction, IInv, NotReady, Ready, AtRest
<1>8. Exiting'
  <2>1. Parent(state) \in Parents(current)
    <3>1. Parents(state) \subseteq Parents(current)
      BY <1>1, ChainTransitive DEF Parents
    <3>2. Parent(state) \in Parents(state)
      BY ChainEnumerated DEF Parents, Parent
    <3> QED
      BY <3>1, <3>2
  <2>2. ASSUME NEW k \in 0..RTHSM_MAX_NESTED_STATES, IsCommon(k)
        PROVE  DstParent(k) \in Parents(Parent(state))
    <3>1. DstParent(k) \in Parents(state)
      BY <1>1, <2>2 DEF IInv, Exiting
    <3>2. DstParent(k) = DstParent(CommonParentIndex)
      <4>1. k = CommonParentIndex
        BY <1>2, <2>2 DEF IsCommon, RTHSM_MAX_NESTED_STATES
      <4> QED
        BY <4>1
    <3>3. Parents(state) = {state} \cup Parents(Parent(state))
      BY <1>1, ChainUnfold DEF Parents, Parent
    <3> QED
      BY <1>2, <3>1, <3>2, <3>3
  <2>3. UNCHANGED <<hsm, global, current, transition>>
    BY DEF ExitAction
  <2>4. \A k \in 0..RTHSM_MAX_NESTED_STATES :
           IsCommon(k)' => DstParent(k)' \in Parents(Parent(state))
    BY <2>2, <2>3 DEF IsCommon, DstParent, Parents
  <2> QED
    BY <1>5, <2>1, <2>3, <2>4 DEF Exiting, Parents, Inside
<1>9. Entering' /\ Traversing' /\ OnSelf'
  BY <1>1 DEF ExitAction, Entering, Traversing, OnSelf
<1>10. InnerFirst'
  BY <1>1 DEF ExitAction, IInv, InnerFirst, Parents, Reacts
<1> QED
  BY <1>6, <1>7, <1>8, <1>9, <1>10 DEF IInv

(* At the common parent just the states around both ends are entered. *)
LEMMA AtCommonParentFacts ==
    ASSUME IInv, AtCommonParent
    PROVE  /\ CommonParentIndex \in 0..RTHSM_MAX_NESTED_STATES
           /\ IsCommon(CommonParentIndex)
           /\ active = Inside(DstParent(CommonParentIndex))
           /\ active = (Parents(current) \cap Parents(transition.to)) \ {global}
<1>1. /\ IsTree(hsm, global) /\ transition \in Transition /\ current \in State
      /\ phase = "exit" /\ state = DstParent(CommonParentIndex)
      /\ active = Inside(state)
  BY DEF AtCommonParent, IInv, TypeOK, Ready, Exiting, Stepping
<1> QED
  BY <1>1, CommonParent DEF Inside

LEMMA TransitionActionInv ==
    ASSUME IInv, TransitionAction
    PROVE  IInv'
<1> USE DEF cursors, fixed
<1>1. /\ phase = "exit" /\ IsTree(hsm, global) /\ TypeOK
      /\ transition \in Transition /\ current \in State
      /\ phase' = "entry" /\ i' = CommonParentIndex - 1
  BY DEF TransitionAction, FirstEntry, AtCommonParent, IInv, TypeOK, Ready, Stepping
<1>2. /\ CommonParentIndex \in 0..RTHSM_MAX_NESTED_STATES
      /\ IsCommon(CommonParentIndex)
      /\ active = Inside(DstParent(CommonParentIndex))
  BY AtCommonParentFacts DEF TransitionAction
<1>3. TypeOK'
  <2>1. queue' \in Seq(Event) /\ Len(queue') <= QueueCapacity
    BY <1>1, CallbackType DEF TransitionAction
  <2>2. i' \in -1..RTHSM_MAX_NESTED_STATES
    BY <1>1, <1>2 DEF RTHSM_MAX_NESTED_STATES
  <2> QED
    BY <1>1, <2>1, <2>2 DEF TransitionAction, TypeOK, Phase, Stepping
<1>4. NotReady' /\ Ready' /\ AtRest'
  BY <1>1 DEF TransitionAction, IInv, NotReady, Ready, AtRest, Stepping
<1>5. Entering'
  <2>1. UNCHANGED <<hsm, global, current, transition, active>>
    BY DEF TransitionAction
  <2>2. i' \in -1..(RTHSM_MAX_NESTED_STATES - 1) /\ i' + 1 = CommonParentIndex
    BY <1>1, <1>2 DEF RTHSM_MAX_NESTED_STATES
  <2>3. \A k \in 0..i' : DstParent(k) # global
    <3>1. \A k \in 0..i' : DstParent(k) \notin Parents(current)
      BY <1>1, <1>2 DEF IsCommon
    <3>2. global \in Parents(current)
      BY <1>1, ParentsType
    <3> QED
      BY <3>1, <3>2
  <2>4. active' = Inside(DstParent(i' + 1))
    BY <1>2, <2>1, <2>2
  <2> QED
    BY <2>1, <2>2, <2>3, <2>4 DEF Entering, Inside, Parents, DstParent
<1>6. Exiting' /\ Traversing' /\ OnSelf' /\ InnerFirst'
  BY <1>1 DEF Exiting, Traversing, OnSelf, InnerFirst
<1> QED
  BY <1>3, <1>4, <1>5, <1>6 DEF IInv

(* The walk in. *)
LEMMA EntryFacts ==
    ASSUME IInv, phase = "entry", i >= 0
    PROVE  /\ IsTree(hsm, global) /\ TypeOK /\ transition \in Transition
           /\ i \in 0..(RTHSM_MAX_NESTED_STATES - 1)
           /\ DstParent(i) \in State /\ DstParent(i) # global
           /\ DstParent(i) \in Parents(transition.to)
           /\ Parent(DstParent(i)) = DstParent(i + 1)
           /\ active = Inside(Parent(DstParent(i)))
           /\ Inside(DstParent(i)) = active \cup {DstParent(i)}
           /\ DstParent(i) \notin active
<1>1. /\ IsTree(hsm, global) /\ TypeOK /\ transition \in Transition
      /\ i \in -1..(RTHSM_MAX_NESTED_STATES - 1)
      /\ active = Inside(DstParent(i + 1))
      /\ \A k \in 0..i : DstParent(k) # global
  BY DEF IInv, TypeOK, Ready, Entering, Stepping
<1>2. /\ i \in 0..(RTHSM_MAX_NESTED_STATES - 1)
      /\ i \in 0..RTHSM_MAX_NESTED_STATES
      /\ DstParent(i) # global
  BY <1>1 DEF RTHSM_MAX_NESTED_STATES
<1>3. DstParent(i) \in State /\ DstParent(i) \in Parents(transition.to)
  BY <1>1, <1>2, DstParentType
<1>4. Parent(DstParent(i)) = DstParent(i + 1)
  BY <1>2, DstParentNext
<1>5. /\ Inside(DstParent(i)) = {DstParent(i)} \cup Inside(Parent(DstParent(i)))
      /\ DstParent(i) \notin Inside(Parent(DstParent(i)))
  BY <1>1, <1>2, <1>3, ParentsUnfold
<1> QED
  BY <1>1, <1>2, <1>3, <1>4, <1>5

LEMMA EntryActionInv ==
    ASSUME IInv, EntryAction
    PROVE  IInv'
<1> USE DEF cursors, fixed
<1>1. /\ phase = "entry" /\ i >= 0 /\ i' = i - 1 /\ phase' = phase
      /\ active' = active \cup {DstParent(i)}
      /\ UNCHANGED <<hsm, global, current, transition>>
  BY DEF EntryAction, Enter
<1>2. /\ i \in 0..(RTHSM_MAX_NESTED_STATES - 1) /\ TypeOK
      /\ active' = Inside(DstParent(i))
      /\ DstParent(i) \in State
  BY <1>1, EntryFacts
<1>3. TypeOK'
  <2>1. queue' \in Seq(Event) /\ Len(queue') <= QueueCapacity
    BY <1>2, CallbackType DEF EntryAction, Enter
  <2>2. i' \in -1..RTHSM_MAX_NESTED_STATES
    BY <1>1, <1>2 DEF RTHSM_MAX_NESTED_STATES
  <2>3. active' \subseteq State
    BY <1>1, <1>2 DEF TypeOK
  <2> QED
    BY <1>1, <1>2, <2>1, <2>2, <2>3 DEF EntryAction, TypeOK
<1>4. NotReady' /\ Ready' /\ AtRest'
  BY <1>1 DEF EntryAction, IInv, NotReady, Ready, AtRest
<1>5. Entering'
  <2>1. i' \in -1..(RTHSM_MAX_NESTED_STATES - 1) /\ i' + 1 = i
    BY <1>1, <1>2 DEF RTHSM_MAX_NESTED_STATES
  <2>2. \A k \in 0..i' : DstParent(k) # global
    BY <1>1, <1>2 DEF IInv, Entering
  <2>3. active' = Inside(DstParent(i' + 1))
    BY <1>2, <2>1
  <2> QED
    BY <1>1, <2>1, <2>2, <2>3 DEF Entering, Inside, Parents, DstParent
<1>6. Exiting' /\ Traversing' /\ OnSelf' /\ InnerFirst'
  BY <1>1 DEF Exiting, Traversing, OnSelf, InnerFirst
<1> QED
  BY <1>3, <1>4, <1>5, <1>6 DEF IInv

LEMMA EntriesDoneInv ==
    ASSUME IInv, EntriesDone
    PROVE  IInv'
<1> USE DEF cursors, fixed
<1>1. /\ phase = "entry" /\ i < 0 /\ phase' = "traverse"
      /\ current' = transition.to
      /\ UNCHANGED <<hsm, global, queue, result, guardResult, cursors, active>>
  BY DEF EntriesDone
<1>2. /\ IsTree(hsm, global) /\ TypeOK /\ transition \in Transition
      /\ transition # None /\ transition.to \in State
      /\ i = -1 /\ active = Inside(DstParent(i + 1))
  BY <1>1 DEF IInv, TypeOK, Ready, Entering, Stepping, Transition
<1>3. active = Inside(transition.to)
  BY <1>2, DstParentZero
<1>4. TypeOK'
  BY <1>1, <1>2 DEF TypeOK, Phase, Stepping
<1>5. NotReady' /\ Ready' /\ AtRest'
  BY <1>1, <1>2 DEF IInv, NotReady, Ready, AtRest, Stepping
<1>6. Traversing'
  <2>1. transition.to \in Parents(transition.to)
    BY <1>2, ParentsType
  <2>2. Target' = transition.to
    BY <1>1, <1>2 DEF Target, Stepping
  <2> QED
    BY <1>1, <1>3, <2>1, <2>2 DEF Traversing, Inside, Parents
<1>7. Exiting' /\ Entering' /\ OnSelf' /\ InnerFirst'
  BY <1>1 DEF Exiting, Entering, OnSelf, InnerFirst
<1> QED
  BY <1>4, <1>5, <1>6, <1>7 DEF IInv

LEMMA TraverseFacts ==
    ASSUME IInv, phase = "traverse", hsm.initial[current] # None
    PROVE  LET n == hsm.initial[current]
           IN  /\ IsTree(hsm, global) /\ TypeOK /\ current \in State
               /\ n \in State /\ n # global
               /\ Parent(n) = current
               /\ active = Inside(current)
               /\ Inside(n) = active \cup {n}
               /\ n \notin active
               /\ Parents(n) = {n} \cup Parents(current)
<1> DEFINE n == hsm.initial[current]
<1>1. /\ IsTree(hsm, global) /\ TypeOK /\ current \in State
      /\ active = Inside(current)
  BY DEF IInv, Ready, Traversing, Stepping
<1>2. n \in State
  BY <1>1, MachineTypes DEF TypeOK
<1>3. n # global /\ Parent(n) = current
  BY <1>1, <1>2, InitialInside DEF Parent
<1>4. Inside(n) = {n} \cup Inside(current) /\ n \notin Inside(current)
  BY <1>1, <1>2, <1>3, ParentsUnfold
<1>5. Parents(n) = {n} \cup Parents(current)
  BY <1>1, <1>2, <1>3, ChainUnfold DEF Parents, Parent
<1> QED
  BY <1>1, <1>2, <1>3, <1>4, <1>5

LEMMA TraverseEntryInv ==
    ASSUME IInv, TraverseEntry
    PROVE  IInv'
<1> USE DEF cursors, fixed
<1> DEFINE n == hsm.initial[current]
<1>1. /\ phase = "traverse" /\ n # None /\ current' = n
      /\ active' = active \cup {n}
      /\ UNCHANGED <<hsm, global, result, guardResult, phase, cursors>>
  BY DEF TraverseEntry, Enter, Descended
<1>2. /\ TypeOK /\ n \in State /\ active' = Inside(n)
      /\ Parents(current) \subseteq Parents(n)
  BY <1>1, TraverseFacts
<1>3. TypeOK'
  <2>1. queue' \in Seq(Event) /\ Len(queue') <= QueueCapacity
    BY <1>2, CallbackType DEF TraverseEntry, Enter
  <2> QED
    BY <1>1, <1>2, <2>1 DEF TypeOK
<1>4. NotReady' /\ Ready' /\ AtRest'
  BY <1>1, <1>2 DEF IInv, NotReady, Ready, AtRest
<1>5. Traversing'
  <2>1. Target' = Target /\ Target \in Parents(n)
    BY <1>1, <1>2 DEF Target, IInv, Traversing
  <2> QED
    BY <1>1, <1>2, <2>1 DEF Traversing, Inside, Parents
<1>6. Exiting' /\ Entering' /\ OnSelf' /\ InnerFirst'
  BY <1>1 DEF Exiting, Entering, OnSelf, InnerFirst
<1> QED
  BY <1>3, <1>4, <1>5, <1>6 DEF IInv

LEMMA TraverseDoneInv ==
    ASSUME IInv, TraverseDone
    PROVE  IInv'
<1> USE DEF cursors, fixed
<1>1. /\ phase = "traverse" /\ hsm.initial[current] = None
      /\ phase' = "return"
      /\ UNCHANGED <<hsm, global, current, queue, result, guardResult, cursors,
                     active>>
  BY DEF TraverseDone, Childmost
<1>2. TypeOK'
  BY <1>1 DEF IInv, TypeOK, Phase, Stepping
<1>3. NotReady' /\ Ready' /\ AtRest'
  BY <1>1 DEF IInv, NotReady, Ready, AtRest, Stepping
<1>4. Traversing'
  <2>1. Target' = Target
    BY <1>1 DEF Target, Stepping
  <2> QED
    BY <1>1, <2>1 DEF IInv, Traversing, Inside, Parents
<1>5. Exiting' /\ Entering' /\ OnSelf' /\ InnerFirst'
  BY <1>1 DEF Exiting, Entering, OnSelf, InnerFirst
<1> QED
  BY <1>2, <1>3, <1>4, <1>5 DEF IInv

(* Self-transitions. *)
LEMMA SelfFacts ==
    ASSUME IInv, phase \in {"selfExit", "selfAction", "selfEntry"}
    PROVE  /\ IsTree(hsm, global) /\ TypeOK /\ current \in State
           /\ transition \in Transition /\ transition # None
           /\ transition.to = current /\ current # global
           /\ hsm.initial[current] = None
           /\ current \in Inside(current)
<1>1. /\ IsTree(hsm, global) /\ TypeOK /\ current \in State
      /\ transition \in Transition /\ transition # None
      /\ transition.to = current /\ current # global
      /\ hsm.initial[current] = None
  BY DEF IInv, TypeOK, Ready, OnSelf, Stepping
<1> QED
  BY <1>1, ParentsUnfold

LEMMA SelfExitActionInv ==
    ASSUME IInv, SelfExitAction
    PROVE  IInv'
<1> USE DEF cursors, fixed
<1>1. /\ phase = "selfExit" /\ phase' = "selfAction"
      /\ active' = active \ {current}
      /\ UNCHANGED <<hsm, global, current, result, guardResult, cursors>>
  BY DEF SelfExitAction, Exit
<1>2. TypeOK'
  <2>1. queue' \in Seq(Event) /\ Len(queue') <= QueueCapacity
    BY CallbackType DEF IInv, SelfExitAction, Exit
  <2> QED
    BY <1>1, <2>1 DEF IInv, TypeOK, Phase, Stepping
<1>3. NotReady' /\ Ready' /\ AtRest'
  BY <1>1 DEF IInv, NotReady, Ready, AtRest, Stepping
<1>4. OnSelf'
  BY <1>1 DEF IInv, OnSelf, Inside, Parents
<1>5. InnerFirst'
  BY <1>1 DEF IInv, InnerFirst, Parents, Reacts
<1>6. Exiting' /\ Entering' /\ Traversing'
  BY <1>1 DEF Exiting, Entering, Traversing
<1> QED
  BY <1>2, <1>3, <1>4, <1>5, <1>6 DEF IInv

LEMMA SelfTransitionActionInv ==
    ASSUME IInv, SelfTransitionAction
    PROVE  IInv'
<1> USE DEF cursors, fixed
<1>1. /\ phase = "selfAction" /\ phase' = "selfEntry"
      /\ UNCHANGED <<hsm, global, current, result, guardResult, cursors, active>>
  BY DEF SelfTransitionAction
<1>2. TypeOK'
  <2>1. queue' \in Seq(Event) /\ Len(queue') <= QueueCapacity
    BY CallbackType DEF IInv, SelfTransitionAction
  <2> QED
    BY <1>1, <2>1 DEF IInv, TypeOK, Phase, Stepping
<1>3. NotReady' /\ Ready' /\ AtRest'
  BY <1>1 DEF IInv, NotReady, Ready, AtRest, Stepping
<1>4. OnSelf'
  BY <1>1 DEF IInv, OnSelf, Inside, Parents
<1>5. Exiting' /\ Entering' /\ Traversing' /\ InnerFirst'
  BY <1>1 DEF Exiting, Entering, Traversing, InnerFirst
<1> QED
  BY <1>2, <1>3, <1>4, <1>5 DEF IInv

LEMMA SelfEntryActionInv ==
    ASSUME IInv, SelfEntryAction
    PROVE  IInv'
<1> USE DEF cursors, fixed
<1>1. /\ phase = "selfEntry" /\ phase' = "return"
      /\ UNCHANGED <<hsm, global, current, result, guardResult, cursors>>
  BY DEF SelfEntryAction
<1>2. /\ TypeOK /\ IsTree(hsm, global) /\ current \in State
      /\ transition # None /\ transition.to = current
      /\ hsm.initial[current] = None /\ current \in Inside(current)
  BY <1>1, SelfFacts
<1>3. active' = Inside(current)
  BY <1>1, <1>2 DEF SelfEntryAction, Enter, IInv, OnSelf
<1>4. TypeOK'
  <2>1. queue' \in Seq(Event) /\ Len(queue') <= QueueCapacity
    BY <1>2, CallbackType DEF SelfEntryAction, Enter, TypeOK
  <2>2. active' \subseteq State
    BY <1>2, <1>3, ParentsType
  <2> QED
    BY <1>1, <1>2, <2>1, <2>2 DEF TypeOK, Phase, Stepping
<1>5. NotReady' /\ Ready' /\ AtRest'
  BY <1>1 DEF IInv, NotReady, Ready, AtRest, Stepping
<1>6. Traversing'
  <2>1. Target' = current
    BY <1>1, <1>2 DEF Target, Stepping
  <2>2. current \in Parents(current)
    BY <1>2, ParentsType
  <2> QED
    BY <1>1, <1>2, <1>3, <2>1, <2>2 DEF Traversing, Inside, Parents
<1>7. Exiting' /\ Entering' /\ OnSelf' /\ InnerFirst'
  BY <1>1 DEF Exiting, Entering, OnSelf, InnerFirst
<1> QED
  BY <1>4, <1>5, <1>6, <1>7 DEF IInv

LEMMA StepReturnsOKInv ==
    ASSUME IInv, StepReturnsOK
    PROVE  IInv'
<1>1. /\ phase = "return" /\ phase' = "idle" /\ result' = "OK"
      /\ transition' = None /\ source' = None /\ state' = None /\ i' = 0
      /\ UNCHANGED <<hsm, global, current, queue, guardResult, active>>
  BY DEF StepReturnsOK
<1>2. TypeOK'
  BY <1>1 DEF IInv, TypeOK, Phase, Result, RTHSM_MAX_NESTED_STATES
<1>3. NotReady' /\ Ready'
  BY <1>1 DEF IInv, NotReady, Ready, Stepping
<1>4. AtRest'
  <2>1. current # None
    BY <1>1, NoneAssumption DEF IInv, Ready
  <2> QED
    BY <1>1, <2>1 DEF IInv, Traversing, AtRest, Inside, Parents
<1>5. Exiting' /\ Entering' /\ Traversing' /\ OnSelf' /\ InnerFirst'
  BY <1>1 DEF Exiting, Entering, Traversing, OnSelf, InnerFirst
<1> QED
  BY <1>2, <1>3, <1>4, <1>5 DEF IInv

LEMMA NextInv ==
    ASSUME IInv, [Next]_vars
    PROVE  IInv'
<1>1. CASE UNCHANGED vars
  BY <1>1, StutterInv
<1>2. CASE RTHsmInit \/ (\E e \in Event : RTHsmPushEvent(e)) \/ RTHsmStep
  BY <1>2, RTHsmInitInv, PushEventInv, RTHsmStepInv
<1>3. CASE Engine
  BY <1>3, ExitActionInv, TransitionActionInv, EntryActionInv, EntriesDoneInv,
     TraverseEntryInv, TraverseDoneInv, SelfExitActionInv,
     SelfTransitionActionInv, SelfEntryActionInv, StepReturnsOKInv
  DEF Engine
<1> QED
  BY <1>1, <1>2, <1>3 DEF Next

LEMMA Invariance == Spec => []IInv
<1>1. Init => IInv
  BY InitInv
<1>2. IInv /\ [Next]_vars => IInv'
  BY NextInv
<1> QED
  BY <1>1, <1>2, PTL DEF Spec

(***************************************************************************)
(* What it implies.                                                        *)
(***************************************************************************)

(* The engine's variables stay in their types, and the queue within its    *)
(* capacity, whatever callbacks push.                                      *)
THEOREM TypeCorrect == Spec => []TypeOK
  BY Invariance, PTL DEF IInv

LEMMA InvAsserts == IInv => AssertionsHold
<1> SUFFICES ASSUME IInv PROVE AssertionsHold
  OBVIOUS
<1>1. phase \in Stepping => global # None /\ current # None
  BY NoneAssumption DEF IInv, Ready, Stepping, IsTree
<1>2. ASSUME phase = "idle", current # None
      PROVE  global \in Parents(current)
  BY <1>2, ParentsType DEF IInv, TypeOK, Ready
<1>3. ASSUME phase = "exit"
      PROVE  /\ global \in Parents(transition.to)
             /\ \E k \in 0..RTHSM_MAX_NESTED_STATES : IsCommon(k)
  <2>1. IsTree(hsm, global) /\ transition \in Transition /\ current \in State
    BY <1>3 DEF IInv, TypeOK, Ready, Stepping
  <2>2. transition.to \in State
    BY <2>1 DEF Transition
  <2> QED
    BY <2>1, <2>2, ParentsType, CommonParent
<1> QED
  BY <1>1, <1>2, <1>3 DEF AssertionsHold

(* No assertion of the engine fails on a machine RTHsmInit has accepted:   *)
(* the walks end within RTHSM_MAX_NESTED_STATES levels (rthsm.c:322, 396)  *)
(* and a common parent is found (429-430).                                 *)
THEOREM AssertionsNeverFail == Spec => []AssertionsHold
  BY InvAsserts, Invariance, PTL

(* Whenever no step is under way, the states entered are the current state *)
(* and the states around it.                                               *)
THEOREM SettledCorrect == Spec => []Settled
<1>1. IInv => Settled
  BY DEF IInv, AtRest, Settled, Inside
<1> QED
  BY <1>1, Invariance, PTL

(* The action of a transition runs between all exits and all entries: the  *)
(* states around both ends, and no others, are entered then.               *)
THEOREM ActionBetweenCorrect == Spec => []ActionBetween
<1>1. IInv => ActionBetween
  <2> SUFFICES ASSUME IInv PROVE ActionBetween
    OBVIOUS
  <2>1. AtCommonParent =>
           active = (Parents(current) \cap Parents(transition.to)) \ {global}
    BY AtCommonParentFacts
  <2>2. ASSUME phase = "selfAction"
        PROVE  /\ active \cup {current} = Inside(current)
               /\ current \in active <=> transition.internal
    BY <2>2, SelfFacts DEF IInv, OnSelf
  <2> QED
    BY <2>1, <2>2 DEF ActionBetween, Inside
<1> QED
  BY <1>1, Invariance, PTL

(* An unguarded answer of an inner state shadows those around it, for any  *)
(* number of transitions and whatever the guards say.                      *)
THEOREM InnerFirstCorrect == Spec => []InnerFirst
  BY Invariance, PTL DEF IInv

(* Once at rest in a final state, the engine calls no callback again.      *)
THEOREM TerminatedForeverCorrect == Spec => TerminatedForever
<1>1. [Next]_vars => [Terminated => Terminated' /\ UNCHANGED <<current, active>>]_vars
  <2> SUFFICES ASSUME [Next]_vars, Terminated
               PROVE  Terminated' /\ UNCHANGED <<current, active>>
    OBVIOUS
  <2>1. CASE UNCHANGED vars
    BY <2>1 DEF vars, Terminated
  <2>2. CASE RTHsmInit \/ (\E e \in Event : RTHsmPushEvent(e))
    BY <2>2 DEF RTHsmInit, RTHsmPushEvent, Terminated, fixed
  <2>3. CASE RTHsmStep
    BY <2>3 DEF RTHsmStep, FirstStep, StepTerminated, StepEmpty, StepDiscards,
                StepDenied, StepFires, Running, Returns, Terminated
  <2>4. CASE Engine
    BY <2>4 DEF Engine, ExitAction, TransitionAction, AtCommonParent,
                EntryAction, EntriesDone, TraverseEntry, TraverseDone,
                SelfExitAction, SelfTransitionAction, SelfEntryAction,
                StepReturnsOK, Terminated
  <2> QED
    BY <2>1, <2>2, <2>3, <2>4 DEF Next
<1> QED
  BY <1>1, PTL DEF Spec, TerminatedForever

(* No event is refused or discarded that some state around the current one *)
(* would take: for any number of transitions, nesting and answers.         *)
THEOREM EventAnsweredCorrect == Spec => EventAnswered
<1> DEFINE Given == Running /\ Len(queue') < Len(queue) /\ phase' = "idle"
           Around == Parents(current) \ {global}
           Answer == /\ \A s \in Around : ~Reacts(s, Head(queue))
                     /\ (\E s \in Around : Declares(s, Head(queue))) =>
                           result' = "GUARD" /\ guardResult' # 0
<1>1. IInv /\ [Next]_vars => [Given => Answer]_vars
  <2> SUFFICES ASSUME IInv, Next, Given PROVE Answer
    BY DEF vars
  <2>1. \A s \in Around : \A j :
           j \in DOMAIN hsm.transitions[s] /\ hsm.transitions[s][j].event = Head(queue)
              => /\ <<s, j>> \in Candidates(Head(queue))
                 /\ At(<<s, j>>) = hsm.transitions[s][j]
    BY DEF Candidates, At
  <2>2. queue \in Seq(Event) /\ phase = "idle" /\ current # None
    BY DEF IInv, TypeOK, Running
  <2>3. CASE StepDiscards
    <3>1. Candidates(Head(queue)) = {}
      BY <2>3 DEF StepDiscards
    <3> QED
      BY <2>1, <3>1 DEF Reacts, Declares
  <2>4. CASE StepDenied
    <3>1. /\ result' = "GUARD"
          /\ \E v \in Answers(Candidates(Head(queue))) :
                /\ \A c \in DOMAIN v : v[c] # 0
                /\ \E c \in DOMAIN v : guardResult' = v[c]
      BY <2>4 DEF StepDenied, Returns
    <3>2. PICK v \in Answers(Candidates(Head(queue))) :
                /\ \A c \in DOMAIN v : v[c] # 0
                /\ \E c \in DOMAIN v : guardResult' = v[c]
      BY <3>1
    <3>3. /\ DOMAIN v = Candidates(Head(queue))
          /\ \A c \in DOMAIN v : ~At(c).guarded => v[c] = 0
      BY DEF Answers
    <3>4. guardResult' # 0
      BY <3>2
    <3>5. \A c \in Candidates(Head(queue)) : At(c).guarded
      BY <3>2, <3>3
    <3>6. \A s \in Around : ~Reacts(s, Head(queue))
      BY <2>1, <3>5 DEF Reacts
    <3> QED
      BY <3>1, <3>4, <3>6
  <2>5. CASE RTHsmInit \/ Engine \/ FirstStep \/ StepFires
    BY <2>2, <2>5 DEF RTHsmInit, Engine, ExitAction, AtCommonParent,
       TransitionAction, EntryAction, EntriesDone, TraverseEntry, TraverseDone,
       SelfExitAction, SelfTransitionAction, SelfEntryAction, StepReturnsOK,
       FirstStep, StepFires
  <2>6. CASE \E e \in Event : RTHsmPushEvent(e)
    <3>1. PICK e \in Event : RTHsmPushEvent(e)
      BY <2>6
    <3>2. queue' = queue \/ queue' = Append(queue, e)
      BY <3>1 DEF RTHsmPushEvent, Pushed
    <3>3. Len(queue') >= Len(queue)
      BY <2>2, <3>2
    <3> QED
      BY <2>2, <3>2, <3>3
  <2>7. CASE StepTerminated \/ StepEmpty
    BY <2>2, <2>7 DEF StepTerminated, StepEmpty
  <2> QED
    BY <2>3, <2>4, <2>5, <2>6, <2>7 DEF Next, RTHsmStep
<1> QED
  BY <1>1, Invariance, PTL DEF Spec, EventAnswered

-----------------------------------------------------------------------------
(***************************************************************************)
(* The engine implements the statechart, for every machine: each callback  *)
(* is an exit, an action or an entry the statechart allows at that point,  *)
(* and every return is at rest.                                            *)
(***************************************************************************)

(***************************************************************************)
(* The two specifications see the same tree.                               *)
(***************************************************************************)

LEMMA SameChain ==
    ASSUME NEW m, NEW g, NEW s
    PROVE  Chart!Chain(m, g, s) = Chain(m, g, s)
<1>1. ASSUME NEW x PROVE Chart!Climb(m, g, x) = Climb(m, g, x)
  BY DEF Climb, Chart!Climb
<1>2. Chart!RTHSM_MAX_NESTED_STATES = RTHSM_MAX_NESTED_STATES
  BY DEF RTHSM_MAX_NESTED_STATES, Chart!RTHSM_MAX_NESTED_STATES
<1>3. ASSUME NEW k \in 0..RTHSM_MAX_NESTED_STATES
      PROVE  Chart!Up(m, g, s, k) = Up(m, g, s, k)
  BY <1>1 DEF Up, Chart!Up, RTHSM_MAX_NESTED_STATES
<1> QED
  BY <1>2, <1>3 DEF Chain, Chart!Chain

LEMMA SameAround ==
    ASSUME NEW s
    PROVE  Chart!Around(s) = Parents(s)
  BY SameChain DEF Chart!Around, Parents

LEMMA SameValid ==
    ASSUME NEW m, NEW g
    PROVE  Valid(m, g) => Chart!Valid(m, g)
<1>1. ASSUME NEW s PROVE Chart!BelongsToGlobal(m, g, s) = BelongsToGlobal(m, g, s)
  BY SameChain DEF BelongsToGlobal, Chart!BelongsToGlobal
<1> QED
  BY <1>1 DEF Valid, Chart!Valid

(* When the states around s are entered, s is the innermost of them.       *)
LEMMA InnermostIsLast ==
    ASSUME IsTree(hsm, global), NEW s \in State, active = Inside(s)
    PROVE  /\ Chart!Innermost(s)
           /\ \A t \in Chart!Open : Chart!Innermost(t) => t = s
<1>1. Chart!Innermost(s)
  BY NoChildInChain DEF Chart!Innermost, Inside, Parents
<1>2. ASSUME NEW t \in Chart!Open, t # s
      PROVE  ~Chart!Innermost(t)
  <2>1. t \in Parents(s)
    BY <1>2, ParentsType DEF Chart!Open
  <2> QED
    BY <1>2, <2>1, ChildInChain DEF Chart!Innermost, Inside, Parents
<1> QED
  BY <1>1, <1>2

(***************************************************************************)
(* Initial states and steps that the statechart does not see.              *)
(***************************************************************************)

LEMMA InitRefines == Init => Chart!Init
  BY DEF Init, Unstarted, Chart!Init, Mode, Target, Stepping

LEMMA UnseenRefines ==
    ASSUME UNCHANGED <<hsm, global, active, phase, transition>>
    PROVE  UNCHANGED Chart!vars
  BY DEF Chart!vars, Mode, Target

LEMMA RTHsmInitRefines ==
    ASSUME IInv, RTHsmInit
    PROVE  [Chart!Next]_(Chart!vars)
<1>1. /\ phase = "off" /\ global = None
      /\ UNCHANGED <<hsm, active, transition>>
  BY DEF RTHsmInit, IInv, NotReady, cursors, fixed
<1>2. phase' \in {"idle", "panic"}
  BY DEF RTHsmInit
<1>3. Mode = "rest" /\ Mode' = "rest" /\ Target = None /\ Target' = None
  BY <1>1, <1>2 DEF Mode, Target, Stepping
<1>4. CASE phase' = "idle"
  <2>1. PICK g \in State : Valid(hsm, g) /\ global' = g
    BY <1>4 DEF RTHsmInit
  <2>2. Chart!Adopt(g)
    BY <1>1, <1>3, <2>1, SameValid DEF Chart!Adopt
  <2> QED
    BY <2>2 DEF Chart!Next
<1>5. CASE phase' = "panic"
  <2>1. global' = global
    BY <1>5 DEF RTHsmInit
  <2> QED
    BY <1>1, <1>3, <2>1 DEF Chart!vars
<1> QED
  BY <1>2, <1>4, <1>5

(***************************************************************************)
(* RTHsmStep up to the first callback.                                     *)
(***************************************************************************)

LEMMA FirstStepRefines ==
    ASSUME IInv, FirstStep
    PROVE  [Chart!Next]_(Chart!vars)
<1>1. /\ phase = "idle" /\ phase' = "traverse"
      /\ transition = None /\ transition' = None
      /\ active = {} /\ IsTree(hsm, global)
      /\ UNCHANGED <<hsm, global, active>>
  BY DEF FirstStep, IInv, Ready, AtRest, cursors, fixed
<1>2. /\ Mode = "rest" /\ Mode' = "arriving"
      /\ Target' = global
  BY <1>1 DEF Mode, Target, Stepping
<1>3. global # None
  BY <1>1, NoneAssumption DEF IsTree
<1>4. Chart!Start
  BY <1>1, <1>2, <1>3 DEF Chart!Start
<1> QED
  BY <1>4 DEF Chart!Next

LEMMA StepFiresRefines ==
    ASSUME IInv, StepFires
    PROVE  [Chart!Next]_(Chart!vars)
<1>1. /\ phase = "idle" /\ IsTree(hsm, global) /\ current \in State
      /\ current \notin hsm.final
      /\ active = Inside(current) /\ hsm.initial[current] = None
      /\ UNCHANGED <<hsm, global, active>>
  BY DEF StepFires, Running, IInv, TypeOK, Ready, AtRest, fixed
<1>2. phase' \in {"exit", "selfAction", "selfExit"}
  BY DEF StepFires
<1>3. /\ transition' \in Transition /\ transition' # None
      /\ transition'.to # global
      /\ transition'.to \in State
  <2>1. IInv'
    BY StepFiresInv
  <2>2. transition' \in Transition /\ transition' # None /\ transition'.to # global'
    BY <1>2, <2>1 DEF IInv, TypeOK, Ready, Stepping
  <2> QED
    BY <1>1, <2>2 DEF Transition
<1>4. /\ Mode = "rest" /\ Mode' = "leaving" /\ Target' = transition'.to
  BY <1>1, <1>2, <1>3 DEF Mode, Target, Stepping
<1>5. current # global
  BY <1>1 DEF IsTree, Valid
<1>6. active # {}
  BY <1>1, <1>5, ParentsType DEF Inside
<1>7. \A s \in active : Chart!Innermost(s) => s \notin hsm.final
  BY <1>1, InnermostIsLast DEF Chart!Open
<1>8. Chart!Begin(transition'.to)
  BY <1>1, <1>3, <1>4, <1>6, <1>7 DEF Chart!Begin
<1> QED
  BY <1>3, <1>8 DEF Chart!Next

LEMMA RTHsmStepRefines ==
    ASSUME IInv, RTHsmStep
    PROVE  [Chart!Next]_(Chart!vars)
<1>1. CASE StepTerminated \/ StepEmpty \/ StepDiscards \/ StepDenied
  BY <1>1, UnseenRefines
  DEF StepTerminated, StepEmpty, StepDiscards, StepDenied, Returns, cursors, fixed
<1> QED
  BY <1>1, FirstStepRefines, StepFiresRefines DEF RTHsmStep

(***************************************************************************)
(* Callbacks of rthsmDoTransition.                                         *)
(***************************************************************************)

LEMMA ExitActionRefines ==
    ASSUME IInv, ExitAction
    PROVE  [Chart!Next]_(Chart!vars)
<1>1. /\ phase = "exit" /\ phase' = "exit" /\ IsTree(hsm, global)
      /\ transition \in Transition /\ transition # None
      /\ current \in State /\ state \in State /\ state \in Parents(current)
      /\ active = Inside(state) /\ active' = active \ {state}
      /\ UNCHANGED <<hsm, global, transition>>
  BY ParentsType
  DEF ExitAction, Exit, IInv, TypeOK, Ready, Exiting, Stepping, fixed
<1> DEFINE c == DstParent(CommonParentIndex)
<1>2. /\ Parents(current) \cap Parents(transition.to) = Parents(c)
      /\ c \in Parents(state) /\ state # c /\ c \in State
  BY <1>1, CommonParent, DstParentType
  DEF IInv, Exiting, ExitAction, AtCommonParent
<1>3. state # global
  <2>1. Parents(global) = {global}
    BY ChainEnumerated, ClimbGlobal DEF Parents
  <2> QED
    BY <1>2, <2>1
<1>4. state \in active
  BY <1>1, <1>3, ParentsUnfold
<1>5. state \notin Parents(transition.to)
  <2> SUFFICES ASSUME state \in Parents(transition.to) PROVE FALSE
    OBVIOUS
  <2>1. state \in Parents(c)
    BY <1>1, <1>2
  <2> QED
    BY <1>1, <1>2, <2>1, ChainAntisymmetric DEF Parents
<1>6. Mode = "leaving" /\ Mode' = "leaving"
      /\ Target = transition.to /\ Target' = Target
  BY <1>1 DEF Mode, Target, Stepping
<1>7. Chart!Innermost(state)
  BY <1>1, InnermostIsLast
<1>8. Chart!Leave(state)
  BY <1>1, <1>4, <1>5, <1>6, <1>7, SameAround DEF Chart!Leave
<1> QED
  BY <1>1, <1>8 DEF Chart!Next

LEMMA TransitionActionRefines ==
    ASSUME IInv, TransitionAction
    PROVE  [Chart!Next]_(Chart!vars)
<1>1. /\ phase = "exit" /\ phase' = "entry" /\ transition # None
      /\ active \subseteq Parents(transition.to)
      /\ UNCHANGED <<hsm, global, transition, active>>
  BY AtCommonParentFacts
  DEF TransitionAction, AtCommonParent, IInv, Ready, Stepping, fixed
<1>2. Mode = "leaving" /\ Mode' = "arriving"
      /\ Target = transition.to /\ Target' = Target
  BY <1>1 DEF Mode, Target, Stepping
<1>3. Chart!Act
  BY <1>1, <1>2, SameAround DEF Chart!Act
<1> QED
  BY <1>3 DEF Chart!Next

(* Entering a state whose parent is the innermost one entered. *)
LEMMA ArriveRefines ==
    ASSUME IsTree(hsm, global), NEW s \in State, s # global,
           Parent(s) \in State, active = Inside(Parent(s)), s \notin active,
           Mode = "arriving", Mode' = "arriving", Target' = Target,
           \/ s \in Parents(Target)
           \/ Target \in Parents(s) /\ s = hsm.initial[Parent(s)],
           active' = active \cup {s}, UNCHANGED <<hsm, global>>
    PROVE  [Chart!Next]_(Chart!vars)
<1>1. hsm.parent[s] = Parent(s)
  BY DEF Parent, Climb
<1>2. Parent(s) \in Chart!Open
  BY ParentsType DEF Chart!Open
<1>3. Chart!Innermost(Parent(s))
  BY InnermostIsLast
<1>4. Chart!Arrive(s)
  BY <1>1, <1>2, <1>3, SameAround DEF Chart!Arrive, Chart!Open
<1> QED
  BY <1>4 DEF Chart!Next

LEMMA EntryActionRefines ==
    ASSUME IInv, EntryAction
    PROVE  [Chart!Next]_(Chart!vars)
<1>1. /\ phase = "entry" /\ i >= 0 /\ phase' = phase
      /\ active' = active \cup {DstParent(i)}
      /\ UNCHANGED <<hsm, global, transition>>
  BY DEF EntryAction, Enter, fixed
<1>2. /\ IsTree(hsm, global)
      /\ DstParent(i) \in State /\ DstParent(i) # global
      /\ DstParent(i) \in Parents(transition.to)
      /\ active = Inside(Parent(DstParent(i)))
      /\ DstParent(i) \notin active
  BY <1>1, EntryFacts
<1>3. Parent(DstParent(i)) \in State
  BY <1>2, ParentsUnfold
<1>4. Mode = "arriving" /\ Mode' = "arriving"
      /\ Target = transition.to /\ Target' = Target
  BY <1>1 DEF Mode, Target, Stepping, IInv, Ready
<1> QED
  BY <1>1, <1>2, <1>3, <1>4, ArriveRefines

LEMMA EntriesDoneRefines ==
    ASSUME IInv, EntriesDone
    PROVE  [Chart!Next]_(Chart!vars)
<1>1. /\ phase = "entry" /\ phase' = "traverse"
      /\ UNCHANGED <<hsm, global, transition, active>>
  BY DEF EntriesDone, cursors, fixed
<1>2. Mode' = Mode /\ Target' = Target
  BY <1>1 DEF Mode, Target, Stepping
<1> QED
  BY <1>1, <1>2 DEF Chart!vars

LEMMA TraverseEntryRefines ==
    ASSUME IInv, TraverseEntry
    PROVE  [Chart!Next]_(Chart!vars)
<1> DEFINE n == hsm.initial[current]
<1>1. /\ phase = "traverse" /\ n # None /\ phase' = phase
      /\ active' = active \cup {n}
      /\ UNCHANGED <<hsm, global, transition>>
  BY DEF TraverseEntry, Enter, cursors, fixed
<1>2. /\ IsTree(hsm, global) /\ current \in State
      /\ n \in State /\ n # global
      /\ Parent(n) = current
      /\ active = Inside(current) /\ n \notin active
      /\ Parents(current) \subseteq Parents(n)
  BY <1>1, TraverseFacts
<1>3. Mode = "arriving" /\ Mode' = "arriving" /\ Target' = Target
  BY <1>1 DEF Mode, Target, Stepping
<1>4. Target \in Parents(n) /\ n = hsm.initial[Parent(n)]
  BY <1>1, <1>2 DEF IInv, Traversing
<1> HIDE DEF n
<1> QED
  BY <1>1, <1>2, <1>3, <1>4, ArriveRefines

LEMMA TraverseDoneRefines ==
    ASSUME IInv, TraverseDone
    PROVE  [Chart!Next]_(Chart!vars)
<1>1. /\ phase = "traverse" /\ phase' = "return"
      /\ UNCHANGED <<hsm, global, transition, active>>
  BY DEF TraverseDone, cursors, fixed
<1>2. Mode' = Mode /\ Target' = Target
  BY <1>1 DEF Mode, Target, Stepping
<1> QED
  BY <1>1, <1>2 DEF Chart!vars

(***************************************************************************)
(* Callbacks of rthsmDoSelfTransition, and the return.                     *)
(***************************************************************************)

LEMMA SelfExitActionRefines ==
    ASSUME IInv, SelfExitAction
    PROVE  [Chart!Next]_(Chart!vars)
<1>1. /\ phase = "selfExit" /\ phase' = "selfAction"
      /\ active' = active \ {current}
      /\ UNCHANGED <<hsm, global, transition>>
  BY DEF SelfExitAction, Exit, cursors, fixed
<1>2. /\ IsTree(hsm, global) /\ current \in State /\ transition # None
      /\ transition.to = current /\ current \in Inside(current)
      /\ active = Inside(current)
  BY <1>1, SelfFacts DEF IInv, OnSelf
<1>3. Mode = "leaving" /\ Mode' = "leaving"
      /\ Target = current /\ Target' = Target
  BY <1>1, <1>2 DEF Mode, Target, Stepping
<1>4. Chart!Leave(current)
  BY <1>1, <1>2, <1>3, InnermostIsLast DEF Chart!Leave
<1> QED
  BY <1>2, <1>4 DEF Chart!Next

LEMMA SelfTransitionActionRefines ==
    ASSUME IInv, SelfTransitionAction
    PROVE  [Chart!Next]_(Chart!vars)
<1>1. /\ phase = "selfAction" /\ phase' = "selfEntry"
      /\ UNCHANGED <<hsm, global, transition, active>>
  BY DEF SelfTransitionAction, cursors, fixed
<1>2. /\ transition # None /\ transition.to = current
      /\ active \subseteq Parents(current)
  BY <1>1, SelfFacts DEF IInv, OnSelf, Inside
<1>3. Mode = "leaving" /\ Mode' = "arriving"
      /\ Target = current /\ Target' = Target
  BY <1>1, <1>2 DEF Mode, Target, Stepping
<1>4. Chart!Act
  BY <1>1, <1>2, <1>3, SameAround DEF Chart!Act
<1> QED
  BY <1>4 DEF Chart!Next

LEMMA SelfEntryActionRefines ==
    ASSUME IInv, SelfEntryAction
    PROVE  [Chart!Next]_(Chart!vars)
<1>1. /\ phase = "selfEntry" /\ phase' = "return"
      /\ UNCHANGED <<hsm, global, current, transition>>
  BY DEF SelfEntryAction, cursors, fixed
<1>2. /\ IsTree(hsm, global) /\ current \in State /\ current # global
      /\ transition # None /\ transition.to = current
      /\ active = Inside(current) \ (IF transition.internal THEN {} ELSE {current})
  BY <1>1, SelfFacts DEF IInv, OnSelf
<1>3. Mode = "arriving" /\ Mode' = "arriving"
      /\ Target = current /\ Target' = Target
  BY <1>1, <1>2 DEF Mode, Target, Stepping
<1>4. CASE transition.internal
  BY <1>1, <1>3, <1>4 DEF SelfEntryAction, Chart!vars
<1>5. CASE ~transition.internal
  <2>1. /\ active = Inside(Parent(current)) /\ current \notin active
        /\ Parent(current) \in State
    BY <1>2, <1>5, ParentsUnfold
  <2>2. current \in Parents(Target)
    BY <1>2, <1>3, ParentsType
  <2>3. active' = active \cup {current}
    BY <1>5 DEF SelfEntryAction, Enter
  <2> QED
    BY <1>1, <1>2, <1>3, <2>1, <2>2, <2>3, ArriveRefines
<1> QED
  BY <1>4, <1>5

LEMMA StepReturnsOKRefines ==
    ASSUME IInv, StepReturnsOK
    PROVE  [Chart!Next]_(Chart!vars)
<1>1. /\ phase = "return" /\ phase' = "idle"
      /\ UNCHANGED <<hsm, global, active>>
  BY DEF StepReturnsOK
<1>2. /\ IsTree(hsm, global) /\ current \in State
      /\ active = Inside(current) /\ hsm.initial[current] = None
      /\ Target \in Parents(current)
  BY <1>1 DEF IInv, Ready, Traversing, Stepping
<1>3. Mode = "arriving" /\ Mode' = "rest" /\ Target' = None
  BY <1>1 DEF Mode, Target, Stepping
<1>4. Target \in Chart!Open
  BY <1>2, ParentsType DEF Chart!Open
<1>5. \A s \in Chart!Open : Chart!Innermost(s) => hsm.initial[s] = None
  BY <1>2, InnermostIsLast
<1>6. Chart!Rest
  BY <1>1, <1>3, <1>4, <1>5 DEF Chart!Rest
<1> QED
  BY <1>6 DEF Chart!Next

LEMMA NextRefines ==
    ASSUME IInv, [Next]_vars
    PROVE  [Chart!Next]_(Chart!vars)
<1>1. CASE UNCHANGED vars
  BY <1>1, UnseenRefines DEF vars
<1>2. ASSUME NEW e \in Event, RTHsmPushEvent(e)
      PROVE  [Chart!Next]_(Chart!vars)
  BY <1>2, UnseenRefines DEF RTHsmPushEvent, cursors, fixed
<1>3. CASE RTHsmInit \/ RTHsmStep
  BY <1>3, RTHsmInitRefines, RTHsmStepRefines
<1>4. CASE Engine
  BY <1>4, ExitActionRefines, TransitionActionRefines, EntryActionRefines,
     EntriesDoneRefines, TraverseEntryRefines, TraverseDoneRefines,
     SelfExitActionRefines, SelfTransitionActionRefines,
     SelfEntryActionRefines, StepReturnsOKRefines
  DEF Engine
<1> QED
  BY <1>1, <1>2, <1>3, <1>4 DEF Next

(* RTHsmStep calls exit, transition and entry actions in the order a       *)
(* statechart prescribes, and returns only at rest: for every tree of      *)
(* states, every pair of source and destination, every choice of initial   *)
(* sub-states, and any pushes and guards.                                  *)
THEOREM EngineImplementsStatechart == Spec => ImplementsStatechart
<1>1. Init => Chart!Init
  BY InitRefines
<1>2. IInv /\ [Next]_vars => [Chart!Next]_(Chart!vars)
  BY NextRefines
<1> QED
  BY <1>1, <1>2, Invariance, PTL DEF Spec, ImplementsStatechart, Chart!Spec
=============================================================================
