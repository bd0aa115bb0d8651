\* RTTestRun returns the failures of the last group only.
CONSTANTS
    OctetBits = 2
    FourCC <- MCFourCC
    EnterGroup = 1
    ExitGroup = 2
    EndOfFile = 3
    Group <- TwoGroups
    Sources <- GoodSource
    Selections <- SelectAll
SPECIFICATION Spec
INVARIANT CountsFailures
CONSTRAINT RunnerAlone
CHECK_DEADLOCK FALSE
