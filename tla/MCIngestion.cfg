SPECIFICATION AdoptionSpec
CONSTANTS
    Ids = {"parent", "reply", "empty"}
    Windows <- MCWindows
    Artifacts <- MCArtifacts
    ParentOf <- MCParentOf
    Changing <- MCChanging
    Doubtful <- MCDoubtful
    Nobody = Nobody
    Absent = Absent
    MaxEdits = 2
    MaxReadings = 3
    MaxOdd = 1
    MaxAdoptionFaults = 2
ACTION_CONSTRAINT StillWhenRead
INVARIANTS
    CompleteIsHeld
    NewsIsAccepted
PROPERTIES
    CapturesNeverGoBack
    HistoryIsKept
CHECK_DEADLOCK FALSE
