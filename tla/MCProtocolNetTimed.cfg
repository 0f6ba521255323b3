SPECIFICATION FairNetSpec
CONSTANTS
    Requests = {r1}
    Runs = {k1}
    NoRun = norun
    Copies = 1
    ConnectTries = 2
    ReqTries = 2
    ResetTries = 1
    ConnectWait = 1
    AckWait = 1
    RepWait = 2
    DropDead = 3
    a1 = a1
    Args = {a1}
    ArgsOf <- SameArgs
    RepTries = 2
    MaxPreps = 1
    MaxRecvErrors = 1
    MaxDups = 0
INVARIANTS TypeOK SendBound AckPatience RepPatience ConcludedOnce
PROPERTIES RequestConcludes ServiceEnds
