SPECIFICATION Spec
CONSTANTS
    MaxLevels = 1
    MaxCloses = 1
    FullyAtMenu = {FALSE}
PROPERTY EnterMeansLevel
CHECK_DEADLOCK FALSE
