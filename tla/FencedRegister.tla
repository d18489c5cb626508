--------------------------- MODULE FencedRegister ---------------------------
(***************************************************************************)
(* What the mesh coordinator promises to everybody who stores shared state *)
(* behind a fencing token: terms are issued with ever larger epochs, and a *)
(* write is accepted only from the owner of the newest term.  MeshLease is *)
(* shown to implement it; WitnessQuorum models no write behind its fence.  *)
(***************************************************************************)
EXTENDS Naturals

CONSTANTS Proc, NoProc

VARIABLES issued,   \* the largest epoch ever issued
          owner,    \* who was given the epoch `issued`, or NoProc
          written   \* the epoch of the last accepted write, 0 for none

vars == <<issued, owner, written>>

Init == issued = 0 /\ owner = NoProc /\ written = 0

\* A new term: any process, any epoch above all earlier ones.
Issue(p) == /\ issued' \in Nat /\ issued' > issued
            /\ owner' = p
            /\ UNCHANGED written

\* The newest term is taken back and nobody owns it any more.
Revoke == owner' = NoProc /\ UNCHANGED <<issued, written>>

\* The owner of the newest term writes.
Write == /\ owner # NoProc
         /\ written' = issued
         /\ UNCHANGED <<issued, owner>>

Next == (\E p \in Proc : Issue(p)) \/ Revoke \/ Write

Spec == Init /\ [][Next]_vars
=============================================================================
