CONSTANTS
    Features = {}
    MaxMessages = 2
SPECIFICATION Spec
INVARIANT AskedBeforeTheEnd
