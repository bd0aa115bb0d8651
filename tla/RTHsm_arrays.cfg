\* Arrays with and without mistakes; guards that answer anything, callbacks
\* that push events.
CONSTANTS
    None = None
    StatesSize = 5
    State <- MCState
    Event <- OneEvent
    CallbackEvents <- OneEvent
    Machines = {}
    Arrays <- MCArrays
    QueueCapacity = 2
    GuardMax = 2
SPECIFICATION ArraySpec
INVARIANTS InnerFirst AssertionsHold Settled InitAccepts InitRejects
PROPERTIES EventAnswered
\* RTHsmInit panics.
CHECK_DEADLOCK FALSE
