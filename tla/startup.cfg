CONSTANTS
    x1 = x1
    x2 = x2
    Apps = {x1, x2}
    Sessions <- MCSessions
    MaxProcs = 2
    MaxEvents = 2
SPECIFICATION FairSpec
INVARIANTS TypeOK StartupWaits WaitsForTheLiving NotBeforeItsPhase
PROPERTIES StartupEnds ConditionIsHonoured NobodyIsOvertaken StoppedStaysStopped RestartsAreLimited
