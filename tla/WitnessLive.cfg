SPECIFICATION FairSpec
CONSTANTS
    n1 = n1
    n2 = n2
    c1 = c1
    c2 = c2
    c3 = c3
    w1 = w1
    w2 = w2
    w3 = w3
    NoNode = NoNode
    Client = {c1, c2, c3}
    Node <- MCNodes
    NodeOf <- MCNodeOf
    Witness <- MCWitnesses
    Down = {w3}
    TTL = 2
    MaxEpoch = 2
    MaxStray = 1
    Frail = {n2}
    Extra = {}
INVARIANTS
    MutualExclusion
    MajorityBehind
PROPERTIES
    TermsRise
    LoneCandidateWins
