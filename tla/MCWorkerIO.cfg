SPECIFICATION FairSpec
CHECK_DEADLOCK FALSE
CONSTANTS
    MaxTyped = 8
    MaxMessage = 4
    Window = 3
    PacketSize = 2
    OutWindow = 2
    BufSize = 1
INVARIANT TypeOK
INVARIANT EveryCharOnceInOrder
INVARIANT WaitingIsRetried
PROPERTY RetriesDoNotMultiply
PROPERTY ImplementsByteStream
PROPERTY TypedIsShown
PROPERTY ExitCloses
