SPECIFICATION Spec
CONSTANTS
    n1 = n1
    n2 = n2
    c1 = c1
    c2 = c2
    c3 = c3
    w1 = w1
    w2 = w2
    w3 = w3
    NoNode = NoNode
    Client = {c1, c2}
    Node <- MCNodes
    NodeOf <- MCNodeOf
    Witness <- MCWitnesses
    Down = {}
    TTL = 1
    MaxEpoch = 2
    MaxStray = 0
    Frail = {n1}
    Extra = {"loss", "stall", "restart", "drop", "floor", "race"}
SYMMETRY Symmetric
INVARIANTS
    TypeOK
    MutualExclusion
    MajorityBehind
    EpochUnique
PROPERTIES
    TermsRise
