\* A final state with a sub-state.
CONSTANTS
    None = None
    Size = 2
    State <- MCState
    Event <- AllEvents
    CallbackEvents = {}
    Machines <- Charts
    QueueCapacity = 1
    GuardMax = 0
SPECIFICATION Spec
INVARIANTS FinalStops
