CONSTANTS
    Servers = {s1, s2}
    Peers = {c1}
    Pids = {11, 12}
    SocketLists <- SomeSocketLists
    MaxStarts = 4
SPECIFICATION FairSpec
INVARIANT LookupIsAccepted
PROPERTY EveryConnectionIsSettled
CHECK_DEADLOCK FALSE
