CONSTANTS
    Inhibitors = {1}
    Flags = {{"logout"}, {"suspend"}}
    Backends = {"logind"}
    Answers <- SomeAnswers
    MaxMessages = 2
SPECIFICATION FairSpec
INVARIANTS InhibitViewIsOfAction NoDialogInTheEnd
PROPERTIES ChoiceIsAnswered EndedSessionLeaves
CHECK_DEADLOCK FALSE
