\* Calls in any order on one array.
CONSTANTS
    Bits = 4
    LongBits = 6
    RTSTRMAX = 6
    Room = 5
    Sizes <- MCSizes
    Numbers <- MCNumbers
    Strings <- MCStrings
    Times <- MCTimes
    Hz = 3
    NULL = NULL
SPECIFICATION Spec
INVARIANTS TypeOK Terminated PrintedIsCounted RoundTrip CopiesWhatFits
    ReadsNumbers ComparesInOrder
PROPERTIES Elapsed CopyIsTold
\* A panic ends the program.
CHECK_DEADLOCK FALSE
