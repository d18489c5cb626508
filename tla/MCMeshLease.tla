----------------------------- MODULE MCMeshLease -----------------------------
(***************************************************************************)
(* Small instances of MeshLease for TLC.                                   *)
(***************************************************************************)
EXTENDS MeshLease, TLC

CONSTANTS a1, a2, b1, A, B

\* a2 is a restart of a1: another instance on the same node.
MCNodeOf == [p \in Proc |-> IF p = b1 THEN B ELSE A]

\* Instances on one node differ in nothing.
Alike == Permutations({a1, a2})
=============================================================================
