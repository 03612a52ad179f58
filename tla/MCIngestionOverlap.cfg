SPECIFICATION AdoptionSpec
CONSTANTS
    Ids = {"parent", "reply", "empty"}
    Windows <- MCWiderWindows
    Artifacts <- MCArtifacts
    ParentOf <- MCParentOf
    Changing <- MCChanging
    Doubtful <- MCDoubtful
    Nobody = Nobody
    Absent = Absent
    MaxEdits = 2
    MaxReadings = 2
    MaxOdd = 1
    MaxAdoptionFaults = 0
INVARIANTS
    RecoveringIsInterrupted
