SPECIFICATION NetSpec
CONSTANTS
    Requests = {r1}
    Runs = {k1, k2}
    NoRun = norun
    Copies = 2
    ConnectTries = 1
    ReqTries = 1
    ResetTries = 1
    ConnectWait = 0
    AckWait = 0
    RepWait = 0
    DropDead = 0
    a1 = a1
    Args = {a1}
    ArgsOf <- SameArgs
    RepTries = 2
    MaxPreps = 1
    MaxRecvErrors = 1
    MaxDups = 1
INVARIANTS AtMostOneRunning GenuineReply NakLeavesNoService AckedMeansConcluded
SYMMETRY RunSymmetry
