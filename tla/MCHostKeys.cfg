SPECIFICATION FairSpec
CHECK_DEADLOCK FALSE
CONSTANTS
    c1 = c1  c2 = c2  c3 = c3
    h1 = h1  h2 = h2
    k1 = k1  k2 = k2  k3 = k3
    None = None
    Connection = {c1, c2, c3}
    Host = {h1, h2}
    Key = {k1, k2, k3}
    HostOf <- Hosts
    TypeOf <- Types
    MaxStarts = 1
INVARIANT TypeOK
INVARIANT OneKeyPerType
PROPERTY ImplementsKnownHosts
INVARIANT AcceptedIsKept
PROPERTY LostOnlyInSave
PROPERTY ConnectionsEnd
