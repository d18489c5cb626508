--------------------------- MODULE MCStateJournal ---------------------------
(***************************************************************************)
(* Small instances of StateJournal for TLC.                                *)
(***************************************************************************)
EXTENDS StateJournal, TLC

CONSTANTS n1, n2, n3

\* Nodes differ only in whether their owner lets them become Main.
Alike == Permutations(Eligible) \cup Permutations(Node \ Eligible)
=============================================================================
