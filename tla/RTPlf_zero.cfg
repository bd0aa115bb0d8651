\* RTBASE_AUTO and the text "0".
CONSTANTS
    Bits = 4
    LongBits = 6
    RTSTRMAX = 6
    Room = 5
    Sizes <- MCSizes
    Numbers <- MCNumbers
    Strings <- MCStrings
    Times <- MCTimes
    Hz = 3
    NULL = NULL
SPECIFICATION Spec
INVARIANT ZeroIsRead
CHECK_DEADLOCK FALSE
