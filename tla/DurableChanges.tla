--------------------------- MODULE DurableChanges ---------------------------
(***************************************************************************)
(* What the journal of the Main promises to whoever records a change in it: *)
(* each term begins with a state of its own, and a change that has been     *)
(* promised is in the state that every later term begins with.  It is never *)
(* made a second time.  StateJournal is shown to implement it.              *)
(***************************************************************************)
CONSTANTS Term, Change

VARIABLES known,     \* the changes in the state of each term that has begun
          promised   \* the changes reported as committed

vars == <<known, promised>>

Init == DOMAIN known = {} /\ promised = {}

\* A new Main starts from a state that has everything promised so far, and
\* possibly changes that were made and never promised.
Begin(t, s) ==
    /\ t \notin DOMAIN known /\ promised \subseteq s
    /\ known' = [u \in DOMAIN known \cup {t} |-> IF u = t THEN s ELSE known[u]]
    /\ UNCHANGED promised

\* The Main of a term makes a change.
Make(t, c) ==
    /\ t \in DOMAIN known /\ c \notin promised
    /\ known' = [known EXCEPT ![t] = @ \cup {c}]
    /\ UNCHANGED promised

\* A change that some term made is promised.
Promise(c) ==
    /\ \E t \in DOMAIN known : c \in known[t]
    /\ promised' = promised \cup {c}
    /\ UNCHANGED known

Next ==
    \/ \E t \in Term, s \in SUBSET Change : Begin(t, s)
    \/ \E t \in Term, c \in Change : Make(t, c)
    \/ \E c \in Change : Promise(c)

Spec == Init /\ [][Next]_vars
=============================================================================
