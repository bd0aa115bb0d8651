\* UINT8_MAX scaled to 3: three slots use the whole range of the counters.
CONSTANTS
    CounterMax = 3
    IntMax = 9
    Byte = {0, 1}
    Memory = 6
SPECIFICATION SmallSpec
INVARIANTS TypeOK RingInv FullOrEmpty OffsetDefined
PROPERTIES ImplementsQueue
\* An RTASSERT that fails stops the program.
CHECK_DEADLOCK FALSE
