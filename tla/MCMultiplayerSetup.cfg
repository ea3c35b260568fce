SPECIFICATION LiveSpec
CONSTANTS
    Levels = {l1, l2}
    MaxCrashes = 2
INVARIANTS
    TypeOK
    CountIsRight
    FinishedIsComplete
PROPERTIES
    RerunChangesNothing
    SetUpInTheEnd
