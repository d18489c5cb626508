\* A hand-back whose answer is lost.
SPECIFICATION Spec
CONSTANTS
    a1 = a1
    a2 = a2
    b1 = b1
    A = A
    B = B
    Proc = {a1, b1}
    NoProc = NoProc
    Node = {A, B}
    NodeOf <- MCNodeOf
    Strongest = A
    TTL = 2
    Margin = 1
    MaxEpoch = 2
    MaxOpen = 2
    Extra = {"shutdown"}
INVARIANTS
    OneMainWhenSettled
