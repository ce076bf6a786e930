SPECIFICATION Spec
CONSTANTS
    WordBits = 4
    PageSize = 4
    StackDepth = 7
    MemSize = 48
    MDS = 16
    CB = 32
    GF = 14
    LF = 6
    MaxWDC = 7
    RunSize = 4
    PsbSize = 2
    VpSize = 12
    MaxFaults = 2
    StackRest = 9
    TableAlign = 4
    Display = {24, 25, 26, 27}
    BltTables <- MCTables
    Scenarios <- MCScenarios
    InitialMem <- MCMem
    InitialReg <- MCReg
INVARIANTS
    Transparent
    TrapsPrecise
    WrittenIsDirty
    ScalarsExact
    BlocksExact
CHECK_DEADLOCK FALSE
