SPECIFICATION Spec
CONSTANTS
    Sessions <- MCSessions
    Applications <- MCApplications
    AutostartDirs <- DockAutostartDirs
    Blacklist = {"old"}
    Session = "main"
    Programs = {"editor"}
    Ids = {"i1", "i2", "i3", "i4", "i5", "i6", "i7", "i8", "i9"}
    MaxState = 2
    MaxClients = 2
    MaxLogins = 2
    Faults = {"crash", "write"}
INVARIANT EveryServiceIsProvided
CHECK_DEADLOCK FALSE
