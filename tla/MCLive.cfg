CONSTANTS
    a1 = a1
    a2 = a2
    a3 = a3
    s1 = s1
    P = P
    S = S
    Boot = Boot
    Threads <- MCService
    Procs <- MCProcs
    Owner <- MCServiceOwner
    UserModes <- MCUserModes
    ProcMode <- MCProcMode
    FirstMode = "SECURE"
    Addrs = {1}
    Quantum = 1
    MaxSlice = 1
    MaxAcc = 1
    MaxTotal = 1
    Weight = 2
    StallTokens = 2
    MaxTokens = 3
    ReapBudget = 2
    MaxEpoch = 3
    MaxDepth = 0
    \* Smp
    SmpCpus = {0, 1, 2}
    SmpPages = {1, 2}
    SmpInitiators = {0}
    SmpMaxTimeouts = 1
    SmpMaxRequests = 3
CHECK_DEADLOCK FALSE
SPECIFICATION LiveSpec

    
PROPERTIES
    NoStarvation
    ShootdownCompletes
