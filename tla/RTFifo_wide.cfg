\* UINT16_MAX and INT_MAX scaled to 3 and 3: as in C, a field fits an int and
\* the square of its largest value does not.
CONSTANTS
    CounterMax = 3
    IntMax = 3
    Byte = {0, 1}
    Memory = 6
SPECIFICATION Spec
INVARIANTS RingInv FullOrEmpty
PROPERTIES ImplementsQueue
\* A failed RTASSERT, and an overflow, stop the program.
CHECK_DEADLOCK FALSE
