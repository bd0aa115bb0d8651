------------------------------- MODULE RTHsm -------------------------------
(***************************************************************************)
(* The engine of hierarchical state machines, src/rthsm/src/rthsm.c.       *)
(*                                                                         *)
(* rthsm calls back into the program: the exit actions of the states it    *)
(* leaves, the action of the transition, the entry actions of the states   *)
(* it enters.  Any of them may push events on the machine's queue, so a    *)
(* call of RTHsmStep is one step here up to its first callback, one step   *)
(* per callback, and one for its return; what the C function keeps in its  *)
(* locals in between is in `phase', `transition', `state' and `i'.  A NULL *)
(* callback is one that does nothing.                                      *)
(*                                                                         *)
(* Guards only look (rthsm.h:143-151), so evaluating them is part of the   *)
(* step that pops the event; what they answer is left open.  An event is   *)
(* its id: its parameters reach the callbacks only.                        *)
(***************************************************************************)
EXTENDS Integers, Sequences, StateTree

CONSTANTS
    Event,              \* event ids
    CallbackEvents,     \* those that callbacks may push
    Machines,           \* the machines programs hand to RTHsmInit
    QueueCapacity,      \* of the FIFO handed to RTHsmInit
    GuardMax            \* the largest answer of a guard

Transition == [event : Event, to : State, internal : BOOLEAN, guarded : BOOLEAN]

Machine == [parent : [State -> State \cup {None}],
            initial : [State -> State \cup {None}],
            final : SUBSET State,
            transitions : [State -> Seq(Transition)]]

Result == {"OK", "EMPTY", "DISCARDED", "GUARD", "TERMINATED"}

ASSUME HsmAssumption ==
    /\ Machines \subseteq Machine
    /\ CallbackEvents \subseteq Event
    /\ QueueCapacity \in Nat \ {0}
    /\ GuardMax \in Nat
    /\ None \notin Transition /\ None \notin Result

VARIABLES
    hsm,            \* the states array: the machine's description
    global,         \* hsm->global, None before RTHsmInit
    current,        \* hsm->current, None for NULL
    queue,          \* what hsm->eventQueue holds, oldest first
    result,         \* what the last RTHsmStep returned
    guardResult,    \* the caller's variable behind the pointer argument
    phase,          \* where in RTHsmStep the engine is
    transition,     \* the transition being actioned, None if there is none
    source,         \* the state that transition is declared in
    state,          \* the cursor of the exit loop
    i,              \* the cursor of the entry loop
    active          \* history: the states entered and not yet left

vars == <<hsm, global, current, queue, result, guardResult, phase,
          transition, source, state, i, active>>

cursors == <<transition, source, state, i>>
fixed == <<hsm, global, result, guardResult>>    \* until the step returns

Stepping == {"exit", "entry", "selfExit", "selfAction", "selfEntry",
             "traverse", "return"}

Phase == {"off", "idle", "panic"} \cup Stepping

-----------------------------------------------------------------------------
(* Operators on the machine. *)

Parent(s) == Climb(hsm, global, s)
Parents(s) == Chain(hsm, global, s)

(* dstParents[k] of rthsmDoTransition. *)
DstParent(k) == Up(hsm, global, transition.to, k)

(* Faulty variants: the destination itself is not looked at; the global    *)
(* state is not looked at.                                                 *)
IsCommonAbove(k) ==
    LET around == Parents(current) \ {transition.to}
    IN  DstParent(k) \in around /\ \A j \in 0..(k - 1) : DstParent(j) \notin around

IsCommonNested(k) ==
    LET around == Parents(current) \ {global}
    IN  DstParent(k) \in around /\ \A j \in 0..(k - 1) : DstParent(j) \notin around

(* The first of the destination and its parents that is the current state  *)
(* or one of its parents, the global state in last resort.                 *)
IsCommon(k) ==
    /\ DstParent(k) \in Parents(current)
    /\ \A j \in 0..(k - 1) : DstParent(j) \notin Parents(current)

CommonParentIndex ==
    CHOOSE k \in 0..RTHSM_MAX_NESTED_STATES : IsCommon(k)

(* A transition is found by the state that declares it and its place there. *)
At(c) == hsm.transitions[c[1]][c[2]]

(* Faulty variant: the states around the current one are not asked.        *)
CandidatesInnermost(e) ==
    {c \in {current} \X DOMAIN hsm.transitions[current] : At(c).event = e}

Candidates(e) ==
    {c \in UNION {{s} \X DOMAIN hsm.transitions[s] :
                     s \in Parents(current) \ {global}} : At(c).event = e}

(* Faulty variant: from the outermost state inwards. *)
TriedOutermostFirst(c, d) ==
    \/ c[1] # d[1] /\ c[1] \in Parents(d[1])
    \/ c[1] = d[1] /\ c[2] < d[2]

(* rthsmGetBestTransition tries states from the current one outwards, and  *)
(* the transitions of a state in the order they are declared.              *)
TriedBefore(c, d) ==
    \/ c[1] # d[1] /\ d[1] \in Parents(c[1])
    \/ c[1] = d[1] /\ c[2] < d[2]

FirstTried(c, cs) == c \in cs /\ \A d \in cs \ {c} : TriedBefore(c, d)
LastTried(c, cs) == c \in cs /\ \A d \in cs \ {c} : TriedBefore(d, c)

(* What the guards may answer: 0 is "go", and so is having no guard. *)
Answers(cs) ==
    {v \in [cs -> 0..GuardMax] : \A c \in cs : ~At(c).guarded => v[c] = 0}

-----------------------------------------------------------------------------
(* Callbacks. *)

(* A callback may push events; what the full queue refuses leaves no trace. *)
Callback ==
    \E n \in 0..(QueueCapacity - Len(queue)) :
        \E es \in [1..n -> CallbackEvents] : queue' = queue \o es

Enter(s) == active' = active \cup {s} /\ Callback
Exit(s) == active' = active \ {s} /\ Callback

-----------------------------------------------------------------------------
Unstarted ==
    /\ global = None /\ current = None
    /\ queue = <<>>
    /\ result = None /\ guardResult = 0
    /\ phase = "off"
    /\ transition = None /\ source = None /\ state = None /\ i = 0
    /\ active = {}

Init == hsm \in Machines /\ Unstarted

(* RTHsmInit caches the global state, or panics at a broken constraint. *)
RTHsmInit ==
    /\ phase = "off"
    /\ \/ \E g \in State :
             /\ Valid(hsm, g)
             /\ global' = g
             /\ phase' = "idle"
       \/ /\ \A g \in State : ~Valid(hsm, g)
          /\ phase' = "panic"
          /\ UNCHANGED global
    /\ UNCHANGED <<hsm, current, queue, result, guardResult, cursors, active>>

(* Faulty variant: the event is stored whatever the queue holds. *)
PushedUnchecked(e) == IF Len(queue) <= QueueCapacity THEN Append(queue, e) ELSE queue

Pushed(e) == IF Len(queue) < QueueCapacity THEN Append(queue, e) ELSE queue

(* The program pushes an event between two steps; a full queue refuses it. *)
RTHsmPushEvent(e) ==
    /\ phase = "idle"
    /\ queue' = Pushed(e)
    /\ UNCHANGED <<fixed, current, phase, cursors, active>>

-----------------------------------------------------------------------------
(* RTHsmStep, up to the first callback or to a return without one. *)

(* The very first step enters the initial configuration. *)
FirstStep ==
    /\ phase = "idle" /\ current = None
    /\ current' = global
    /\ phase' = "traverse"
    /\ UNCHANGED <<fixed, queue, cursors, active>>

Returns(r) ==
    /\ result' = r
    /\ UNCHANGED <<hsm, global, current, phase, cursors, active>>

StepTerminated ==
    /\ phase = "idle" /\ current # None
    /\ current \in hsm.final
    /\ Returns("TERMINATED")
    /\ UNCHANGED <<queue, guardResult>>

(* Faulty variant: a final state is a state like any other. *)
RunningOn == phase = "idle" /\ current # None

Running == phase = "idle" /\ current # None /\ current \notin hsm.final

StepEmpty ==
    /\ Running /\ queue = <<>>
    /\ Returns("EMPTY")
    /\ UNCHANGED <<queue, guardResult>>

StepDiscards ==
    /\ Running /\ queue # <<>>
    /\ Candidates(Head(queue)) = {}
    /\ queue' = Tail(queue)
    /\ Returns("DISCARDED")
    /\ UNCHANGED guardResult

(* Every guard says no: the answer of the last one tried is reported. *)
StepDenied ==
    /\ Running /\ queue # <<>>
    /\ \E v \in Answers(Candidates(Head(queue))) :
          /\ \A c \in DOMAIN v : v[c] # 0
          /\ \E c \in DOMAIN v :
                LastTried(c, DOMAIN v) /\ guardResult' = v[c]
    /\ queue' = Tail(queue)
    /\ Returns("GUARD")

(* The first transition whose guard says go is actioned.  hsm->current     *)
(* stays what it was until the destination has been entered.               *)
StepFires ==
    /\ Running /\ queue # <<>>
    /\ \E v \in Answers(Candidates(Head(queue))) : \E c \in DOMAIN v :
          /\ FirstTried(c, {d \in DOMAIN v : v[d] = 0})
          /\ source' = c[1]
          /\ transition' = At(c)
          /\ \/ At(c).to # current /\ phase' = "exit"
             \/ At(c).to = current /\ At(c).internal /\ phase' = "selfAction"
             \/ At(c).to = current /\ ~At(c).internal /\ phase' = "selfExit"
    /\ queue' = Tail(queue)
    /\ state' = current
    /\ UNCHANGED <<fixed, current, i, active>>

RTHsmStep ==
    \/ FirstStep
    \/ StepTerminated
    \/ StepEmpty
    \/ StepDiscards
    \/ StepDenied
    \/ StepFires

-----------------------------------------------------------------------------
(* rthsmDoTransition. *)

AtCommonParent == phase = "exit" /\ state = DstParent(CommonParentIndex)

ExitAction ==
    /\ phase = "exit" /\ ~AtCommonParent
    /\ Exit(state)
    /\ state' = Parent(state)
    /\ UNCHANGED <<fixed, current, phase, transition, source, i>>

(* Faulty variant: the common parent is entered as well. *)
FirstEntryTooHigh == CommonParentIndex

FirstEntry == CommonParentIndex - 1

TransitionAction ==
    /\ AtCommonParent
    /\ Callback
    /\ i' = FirstEntry
    /\ phase' = "entry"
    /\ UNCHANGED <<fixed, current, transition, source, state, active>>

EntryAction ==
    /\ phase = "entry" /\ i >= 0
    /\ Enter(DstParent(i))
    /\ i' = i - 1
    /\ UNCHANGED <<fixed, current, phase, transition, source, state>>

EntriesDone ==
    /\ phase = "entry" /\ i < 0
    /\ current' = transition.to
    /\ phase' = "traverse"
    /\ UNCHANGED <<fixed, queue, cursors, active>>

(* Faulty variants: the cursor of the loop stays where it is; the loop     *)
(* ends after any sub-state.                                               *)
DescendedNowhere == current
ChildmostSoon == current # global

Descended == hsm.initial[current]
Childmost == hsm.initial[current] = None

(* rthsmTraverseToChildmostState, one initial sub-state at a time. *)
TraverseEntry ==
    /\ phase = "traverse"
    /\ hsm.initial[current] # None
    /\ current' = Descended
    /\ Enter(hsm.initial[current])
    /\ UNCHANGED <<fixed, phase, cursors>>

TraverseDone ==
    /\ phase = "traverse"
    /\ Childmost
    /\ phase' = "return"
    /\ UNCHANGED <<fixed, current, queue, cursors, active>>

(* rthsmDoSelfTransition. *)

SelfExitAction ==
    /\ phase = "selfExit"
    /\ Exit(current)
    /\ phase' = "selfAction"
    /\ UNCHANGED <<fixed, current, cursors>>

SelfTransitionAction ==
    /\ phase = "selfAction"
    /\ Callback
    /\ phase' = "selfEntry"
    /\ UNCHANGED <<fixed, current, cursors, active>>

SelfEntryAction ==
    /\ phase = "selfEntry"
    /\ \/ transition.internal /\ UNCHANGED <<queue, active>>
       \/ ~transition.internal /\ Enter(current)
    /\ phase' = "return"
    /\ UNCHANGED <<fixed, current, cursors>>

(* RTHsmStep returns; its locals are gone. *)
StepReturnsOK ==
    /\ phase = "return"
    /\ phase' = "idle"
    /\ result' = "OK"
    /\ transition' = None /\ source' = None /\ state' = None /\ i' = 0
    /\ UNCHANGED <<hsm, global, current, queue, guardResult, active>>

Engine ==
    \/ ExitAction \/ TransitionAction \/ EntryAction \/ EntriesDone
    \/ TraverseEntry \/ TraverseDone
    \/ SelfExitAction \/ SelfTransitionAction \/ SelfEntryAction
    \/ StepReturnsOK

Next ==
    \/ RTHsmInit
    \/ \E e \in Event : RTHsmPushEvent(e)
    \/ RTHsmStep
    \/ Engine

Spec == Init /\ [][Next]_vars

(* Callbacks return, and so the engine goes on. *)
FairSpec == Spec /\ WF_vars(Engine)

-----------------------------------------------------------------------------
(* Properties. *)

TypeOK ==
    /\ hsm \in Machine
    /\ global \in State \cup {None}
    /\ current \in State \cup {None}
    /\ queue \in Seq(Event) /\ Len(queue) <= QueueCapacity
    /\ result \in Result \cup {None}
    /\ guardResult \in 0..GuardMax
    /\ phase \in Phase
    /\ transition \in Transition \cup {None}
    /\ source \in State \cup {None}
    /\ state \in State \cup {None}
    /\ i \in -1..RTHSM_MAX_NESTED_STATES
    /\ active \subseteq State

(* Whatever RTHsmInit lets through, the assertions of the engine hold: the *)
(* walk from the current state (rthsm.c:322) and the one from the          *)
(* destination (396) reach the global state within the array, and a common *)
(* parent is found (429-430).                                              *)
AssertionsHold ==
    /\ phase \in Stepping => global # None /\ current # None
    /\ phase = "idle" /\ current # None => global \in Parents(current)
    /\ phase = "exit" =>
          /\ global \in Parents(transition.to)
          /\ \E k \in 0..RTHSM_MAX_NESTED_STATES : IsCommon(k)

(* Between two steps the entry and exit actions called so far have entered *)
(* exactly the current state and the states around it, and the current     *)
(* state has no initial sub-state left to enter.                           *)
Settled ==
    phase = "idle" =>
        IF current = None
        THEN active = {}
        ELSE /\ active = Parents(current) \ {global}
             /\ hsm.initial[current] = None

(* The action of a transition runs after all the exits and before any      *)
(* entry: just the states around both ends are entered then.  In a         *)
(* transition of the current state to itself the internal flag decides     *)
(* whether that state is left (rthsm.h:105-108).                           *)
ActionBetween ==
    /\ AtCommonParent =>
          active = (Parents(current) \cap Parents(transition.to)) \ {global}
    /\ phase = "selfAction" =>
          /\ active \cup {current} = Parents(current) \ {global}
          /\ current \in active => transition.internal
          /\ source = current /\ transition.internal => current \in active

Reacts(s, e) ==
    \E j \in DOMAIN hsm.transitions[s] :
        LET t == hsm.transitions[s][j] IN t.event = e /\ ~t.guarded

(* An inner state's answer to an event shadows those of the states around  *)
(* it: a transition is never taken from a state when a state inside it,    *)
(* still active, answers the same event without a guard.                   *)
InnerFirst ==
    phase \in {"exit", "selfExit", "selfAction"} =>
        /\ source \in Parents(current) \ {global}
        /\ \A s \in Parents(current) \ {source} :
              source \in Parents(s) => ~Reacts(s, transition.event)

Declares(s, e) ==
    \E j \in DOMAIN hsm.transitions[s] : hsm.transitions[s][j].event = e

(* No event is given up that a state around the current one could take: it *)
(* is never refused when one of them answers it without a guard, however   *)
(* many guards inside that state say no; and it is not discarded, but      *)
(* refused with the value of a guard, when there are transitions for it at *)
(* all (rthsm.c:313-341, rthsm.h:343-348).                                 *)
EventAnswered ==
    [][Running /\ Len(queue') < Len(queue) /\ phase' = "idle" =>
          LET around == Parents(current) \ {global}
          IN  /\ \A s \in around : ~Reacts(s, Head(queue))
              /\ (\E s \in around : Declares(s, Head(queue))) =>
                    result' = "GUARD" /\ guardResult' # 0]_vars

(* A final state is for good: once RTHsmStep has come to rest in one, no   *)
(* callback is called again, whatever events arrive.                       *)
Terminated == phase = "idle" /\ current # None /\ current \in hsm.final

TerminatedForever ==
    [][Terminated => Terminated' /\ UNCHANGED <<current, active>>]_vars

(* RTHsmStep returns, if its callbacks do. *)
StepReturns == phase \in Stepping ~> phase = "idle"

(* Entry and exit actions come in the order a statechart prescribes. *)
Mode ==
    CASE phase \in {"off", "idle", "panic"} -> "rest"
      [] phase \in {"exit", "selfExit", "selfAction"} -> "leaving"
      [] OTHER -> "arriving"

Target ==
    IF phase \notin Stepping THEN None
    ELSE IF transition = None THEN global
    ELSE transition.to

Chart == INSTANCE Statechart
            WITH chart <- hsm, root <- global, config <- active,
                 mode <- Mode, target <- Target

ImplementsStatechart == Chart!Spec

-----------------------------------------------------------------------------
(* What rthsm.h says and the engine does not do. *)

(* rthsm.h:105-111: whether source and destination are the same decides    *)
(* what is left.  If they are, the exit action of that state is called,    *)
(* unless the internal flag is there; if they are not, the flag is         *)
(* ignored, and the current state is left as without it.                   *)
SourceDecides ==
    /\ AtCommonParent /\ source = transition.to /\ ~transition.internal =>
          source \notin active
    /\ phase = "selfAction" /\ source # transition.to => current \notin active

(* rthsm.h:90-91: the engine stops when it transitions to a final state.   *)
FinalStops ==
    phase = "return" /\ transition # None =>
        (transition.to \in hsm.final => current \in hsm.final)
=============================================================================
