CONSTANTS
    MaxHeight = 6
    Span = 2
    SnapshotEvery = 2
    IndexEvery = 2
    Window = 1
    Retain = 2
    IndexHistory = {TRUE, FALSE}
    Good = {1, 4}
    Homes <- StartHomes
    MaxFaults = 2
SPECIFICATION Spec
INVARIANTS ServesWhatItAdvertises SigmaIsCanonical IndexCovers
PROPERTIES ResumesWhereItStopped
