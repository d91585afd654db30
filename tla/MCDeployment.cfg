CONSTANTS
    i1 = i1
    Instance = {i1}
    Timeout = 3
    MaxRuns = 2
    MaxLost = 1
    MaxRestarts = 1
SPECIFICATION FairSpec
INVARIANTS TypeOK LiveIsRegistered ForgottenInTime
PROPERTY BecomesReachable
