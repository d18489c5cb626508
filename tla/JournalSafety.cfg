\* Three replicas, two of which may become Main: takeovers and second terms of one epoch,
\* and marks raised by what a node sees of the lease.
SPECIFICATION Spec
SYMMETRY Alike
CONSTANTS
    n1 = n1
    n2 = n2
    n3 = n3
    Node = {n1, n2, n3}
    Eligible = {n1, n2}
    NoNode = NoNode
    Job = {"take"}
    SnapshotEvery = 9
    MaxEpoch = 2
    MaxEntry = 4
    MaxOpen = 1
    MaxReads = 1
    Extra = {"observe"}
INVARIANTS
    TypeOK
    LateNeverCommits
    QuietCommitsSurvive
CHECK_DEADLOCK FALSE
