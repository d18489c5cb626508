\* A process and another instance on the same node, which the release cannot tell
\* apart: every interleaving of requests, replies, late requests, timers, releases,
\* crashes, fenced work, fenced writes and a deleted row over two terms.
SPECIFICATION Spec
SYMMETRY Alike
CONSTANTS
    a1 = a1
    a2 = a2
    b1 = b1
    A = A
    B = B
    Proc = {a1, a2}
    NoProc = NoProc
    Node = {A}
    NodeOf <- MCNodeOf
    Strongest = A
    TTL = 2
    Margin = 1
    MaxEpoch = 2
    MaxOpen = 2
    Extra = {"delete", "work", "write", "shutdown"}
INVARIANTS
    TypeOK
    MutualExclusion
    FenceBacked
    EpochUnique
    WorkBoundToTerm
    RenewsWhatItHolds
    NeverDeaf
    ReleaseHitsOwnTerm
PROPERTIES
    NewestTermWrites
    ImplementsRegister
