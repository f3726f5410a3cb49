CONSTANTS
    Inhibitors = {1}
    Flags = {{"logout"}, {"suspend"}}
    Backends = {"consolekit"}
    Answers <- SomeAnswers
    MaxMessages = 2
SPECIFICATION FairSpec
PROPERTY AnySessionLeaves
CHECK_DEADLOCK FALSE
