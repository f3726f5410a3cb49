CONSTANTS
    Cookies = {1, 2}
    Names = {n1}
    Flags = {{"suspend"}, {"suspend", "idle"}}
    MaxLocks = 2
    MaxMessages = 2
    MaxWatches = 2
SPECIFICATION FairSpec
INVARIANTS LockIsHeld StatusIsRemembered ScreensaverIsKnown
PROPERTIES MonitorRespectsInhibitors IdleEnds
