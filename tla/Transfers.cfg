SPECIFICATION Spec
CONSTANTS
    Nil = Nil
    fMain = fMain
    fCo = fCo
    fTrap = fTrap
    free0 = free0
    free1 = free1
    s1 = s1
    s2 = s2
    P = P
    Q = Q
    X = X
    A = A
    B = B
    H = H
    Frames = {fMain, fCo, fTrap, free0, free1, s1, s2}
    Ports = {P, Q}
    Cells = {X}
    Modules = {A, B, H}
    Fsi = {0, 1}
    Root = fMain
    Spare = {s1, s2}
    FirstPC = 4
    StackDepth = 4
    MaxWDC = 2
    InitXTS = {0, 2}
    TrapXfers = {}
    MaxFaults = 2
    MaxEvents = 1
    Code <- MCCode
    Handler <- MCHandler
    InitCell <- Unbound
    BoundCell <- Bound
    InitFrame <- MCFrame
    InitAV <- MCAV
    InitPort <- MCPort
INVARIANTS
    LinksLive
    FramesSound
    GlobalsCoherent
PROPERTIES
    ImplementsActivations
    RootRunsAgain
