SPECIFICATION Spec
CHECK_DEADLOCK FALSE
CONSTANTS
    r1 = r1  r2 = r2  r3 = r3
    i1 = i1  i2 = i2
    t1 = t1
    p = p  regA = regA  regB = regB  svcA = svcA  svcB = svcB  revA = revA
    Null = Null
    Request = {r1, r2, r3}
    Instance = {i1}
    Tunnel = {t1}
    Name = {p, regA, regB, svcA, svcB, revA}
    PathOf <- Paths
    MethodOf <- Posts
    InstanceOf <- OneInstance
    TunnelOf <- OneTunnel
    Timeout = 1
    MaxTime = 1
SYMMETRY Swap
PROPERTY RenewedKept
