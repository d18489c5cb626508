\* A change that commits while the next Main reads the logs.
SPECIFICATION Spec
SYMMETRY Alike
CONSTANTS
    n1 = n1
    n2 = n2
    n3 = n3
    Node = {n1, n2, n3}
    Eligible = {n1, n2}
    NoNode = NoNode
    Job = {"take"}
    SnapshotEvery = 9
    MaxEpoch = 2
    MaxEntry = 4
    MaxOpen = 1
    MaxReads = 2
    Extra = {}
INVARIANTS
    RestoreIsComplete
CHECK_DEADLOCK FALSE
