CONSTANTS
    a1 = a1
    a2 = a2
    s1 = s1
    P = P
    Q = Q
    S = S
    Boot = Boot
    Threads <- MCThreads
    Procs <- MCProcs
    Owner <- MCOwner
    UserModes <- MCUserModes
    ProcMode <- MCProcMode
    FirstMode = "SECURE"
    Addrs = {1}
    Quantum = 1
    MaxSlice = 1
    MaxAcc = 1
    MaxTotal = 2
    Weight = 1
    StallTokens = 1
    MaxTokens = 0
    ReapBudget = 2
    MaxEpoch = 3
    MaxDepth = 0
SPECIFICATION ModesSpec
SYMMETRY Twins
PROPERTIES
    
    NoIllegalTransition
