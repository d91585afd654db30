CONSTANTS
    c1 = c1
    c2 = c2
    None = None
    Command = {c1, c2}
    MaxSession = 3
    MaxQueue = 2
SPECIFICATION FairSpec
CHECK_DEADLOCK FALSE
INVARIANTS TypeOK OneConnection ShownCommandRuns
PROPERTY ConnectingEnds
