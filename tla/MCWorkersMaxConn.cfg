SPECIFICATION Spec
CHECK_DEADLOCK FALSE
CONSTANTS
    w1 = w1  w2 = w2  w3 = w3  w4 = w4
    s1 = s1  s2 = s2
    ip1 = ip1  ip2 = ip2
    Null = Null
    Worker = {w1, w2, w3}
    Socket = {s1, s2}
    Ip = {ip1, ip2}
    IpOf <- OneClient
    MaxConn = 1
SYMMETRY AllAlike
INVARIANT MaxConnKept
