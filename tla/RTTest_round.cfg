\* Two groups of test cases, refusals, losses and panics anywhere.
CONSTANTS
    OctetBits = 2
    FourCC <- MCFourCC
    EnterGroup = 1
    ExitGroup = 2
    EndOfFile = 3
    Group <- TwoGroups
    Sources <- SomeSources
    Selections <- SelectSome
SPECIFICATION FairSpec
INVARIANTS TypeOK ReportIsWhatHappened RefusalReported AbortStopsItsGroup
    PassIsTrue FailuresAreNamed NoFalseAlarm MapIsDeclared
PROPERTIES NoTestAfterRefusal VerdictReached
CONSTRAINTS OneGroupUnlessGood OneGap
CHECK_DEADLOCK FALSE
