SPECIFICATION Spec
CONSTANTS
    Sessions <- MCSessions
    Applications <- MCApplications
    AutostartDirs <- MCAutostartDirs
    Blacklist = {"old"}
    Session = "main"
    Programs = {"editor"}
    Ids = {"i1", "i2", "i3", "i4", "i5", "i6", "i7", "i8", "i9"}
    MaxState = 1
    MaxClients = 2
    MaxLogins = 3
    Faults = {"crash", "write"}
INVARIANTS SavedIsWhole StatesSurvive EverybodyComesBack RequiredAreThere
CHECK_DEADLOCK FALSE
