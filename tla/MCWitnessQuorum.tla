--------------------------- MODULE MCWitnessQuorum ---------------------------
\* Small instances of WitnessQuorum: three witnesses, one or two services on a node.
EXTENDS WitnessQuorum, TLC

CONSTANTS n1, n2, c1, c2, c3, w1, w2, w3

MCWitnesses == {w1, w2, w3}
MCNodes == {n1, n2}

\* c1 and c3 are services of one node.
MCNodeOf == [c \in Client |-> IF c = c2 THEN n2 ELSE n1]

\* Each service of the node that is left gets its lease (decideWitnessQuorum).  c1
\* and c3 are alike, so c1 stands for both; the node of c2 is the one that dies.
LoneCandidateWins == GetsItsLease(c1)

Symmetric == Permutations(MCWitnesses)
=============================================================================
