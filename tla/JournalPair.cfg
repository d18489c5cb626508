\* Two replicas: crashes, late deliveries, lost answers, snapshots, restores of a bound
\* service beside those of nova-main, and a refresh timer that adopts a second time.
SPECIFICATION Spec
SYMMETRY Alike
CONSTANTS
    n1 = n1
    n2 = n2
    n3 = n3
    Node = {n1, n2}
    Eligible = {n1, n2}
    NoNode = NoNode
    Job = {"take", "bound", "refresh"}
    SnapshotEvery = 1
    MaxEpoch = 2
    MaxEntry = 4
    MaxOpen = 1
    MaxReads = 1
    Extra = {"crash", "late", "lost", "observe"}
INVARIANTS
    LogsRestart
    QuietCommitsHeld
PROPERTIES
    MarksNeverFall
    ImplementsDurableChanges
CHECK_DEADLOCK FALSE
