CONSTANTS
    Features = {"interact", "phase2", "checkpoint"}
    MaxMessages = 2
SPECIFICATION FairSpec
INVARIANTS SaveInProgressIsAnswered RunningSavesAreLocal
PROPERTIES ShutdownSavesBelongToLogout TooLateToInteract QueuedSaveIsSent
