\* A Main and its standby on two nodes, over three terms, under fair timers and a
\* coordinator that is reached again and again.
SPECIFICATION FairSpec
CONSTANTS
    a1 = a1
    a2 = a2
    b1 = b1
    A = A
    B = B
    Proc = {a1, b1}
    NoProc = NoProc
    Node = {A, B}
    NodeOf <- MCNodeOf
    Strongest = A
    TTL = 2
    Margin = 1
    MaxEpoch = 3
    MaxOpen = 1
    Extra = {}
INVARIANTS
    MutualExclusion
    FenceBacked
PROPERTIES
    StandbyTakesOver
