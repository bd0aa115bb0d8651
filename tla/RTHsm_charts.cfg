\* All shapes of three nested states, all transitions between them.
CONSTANTS
    None = None
    Size = 3
    State <- MCState
    Event <- AllEvents
    CallbackEvents <- OneOfThem
    Machines <- SomeCharts
    QueueCapacity = 1
    GuardMax = 1
SPECIFICATION FairSpec
INVARIANTS TypeOK AssertionsHold Settled ActionBetween
PROPERTIES ImplementsStatechart TerminatedForever StepReturns
\* RTHsmInit panics.
CHECK_DEADLOCK FALSE
