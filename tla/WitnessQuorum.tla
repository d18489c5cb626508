---------------------------- MODULE WitnessQuorum ----------------------------
(***************************************************************************)
(* Leadership by a majority of three witnesses: the witness store and its  *)
(* acquire handler (src/mesh/quorum-witness.ts), the vote rounds of a node *)
(* (src/mesh/witness-quorum.ts) and the fences won with them.              *)
(*                                                                         *)
(* A client is one exclusive service on one node.  All of them ask for the *)
(* same authority lease, so a witness tells nodes apart but not the        *)
(* services or the process instances of a node, and several calls of one   *)
(* node run at once.  Time is relative, as in MeshLease.                   *)
(***************************************************************************)
EXTENDS Integers, FiniteSets

CONSTANTS Client,     \* exclusive services, each on a node
          Node,       \* mesh nodes
          NodeOf,     \* the node of a client
          NoNode,     \* holder of a vote never given
          Witness,    \* the configured witnesses
          Down,       \* witnesses that are never reached
          Frail,      \* bound: nodes that crash and whose calls time out
          TTL,        \* lease time (90 s in the code)
          MaxEpoch,   \* bound: epochs a witness may give
          MaxStray,   \* bound: requests left in the network
          Extra       \* bound: the side stories a run follows

ASSUME WitnessAssumption ==
    /\ NoNode \notin Node
    /\ NodeOf \in [Client -> Node]
    /\ IsFiniteSet(Witness) /\ Down \subseteq Witness
    /\ Frail \subseteq Node
    /\ TTL \in Nat \ {0}
    /\ MaxEpoch \in Nat /\ MaxStray \in Nat
    /\ Extra \subseteq {"loss", "stall", "floor", "drop", "restart", "race"}

VARIABLES
    vote,       \* per witness: the stored lease of the authority service
    up,         \* per node: whether its process runs
    highWater,  \* per node: witnessEpochHighWater
    ballot,     \* per client: the acquireWitnessQuorumLease call under way
    held,       \* per client: the adopted fence
    strays,     \* requests whose caller no longer waits for the answer
    terms       \* history: every term a node became leader in

vars == <<vote, up, highWater, ballot, held, strays, terms>>

Time == 0..TTL
Reply == [st : {"sent", "none", "yes", "no"}, epoch : Nat]
Ballot == [round : 0..2, epoch : Nat, age : Time, reply : [Witness -> Reply]]
Term == [epoch : Nat, node : Node]

NoVote == [holder |-> NoNode, epoch |-> 0, left |-> 0]
NoFence == [epoch |-> 0, left |-> 0]
NoAnswer == [st |-> "none", epoch |-> 0]
Sent == [st |-> "sent", epoch |-> 0]
NoBallot == [round |-> 0, epoch |-> 0, age |-> 0, reply |-> [w \in Witness |-> NoAnswer]]

TypeOK ==
    /\ vote \in [Witness -> [holder : Node \cup {NoNode}, epoch : Nat, left : Time]]
    /\ up \in [Node -> BOOLEAN]
    /\ highWater \in [Node -> Nat]
    /\ ballot \in [Client -> Ballot]
    /\ held \in [Client -> [epoch : Nat, left : Time]]
    /\ strays \in SUBSET [by : Node, epoch : Nat, to : Witness]
    /\ terms \in SUBSET Term

Init ==
    /\ vote = [w \in Witness |-> NoVote]
    /\ up = [n \in Node |-> TRUE]
    /\ highWater = [n \in Node |-> 0]
    /\ ballot = [c \in Client |-> NoBallot]
    /\ held = [c \in Client |-> NoFence]
    /\ strays = {} /\ terms = {}

Less(t) == IF t = 0 THEN 0 ELSE t - 1
More(t) == IF t = TTL THEN TTL ELSE t + 1

\* A call takes two fetch timeouts at most, unless its process is stalled.
Tick ==
    /\ "stall" \in Extra \/ \A c \in Client : ballot[c].age = 0
    /\ vote' = [w \in Witness |-> [vote[w] EXCEPT !.left = Less(vote[w].left)]]
    /\ held' = [c \in Client |-> [held[c] EXCEPT !.left = Less(held[c].left)]]
    /\ ballot' = [c \in Client |-> IF ballot[c].round = 0 THEN ballot[c]
                                   ELSE [ballot[c] EXCEPT !.age = More(ballot[c].age)]]
    /\ UNCHANGED <<up, highWater, strays, terms>>

-----------------------------------------------------------------------------
(* A witness: acquire, one call after the other, on disk before it answers *)

Larger(d, e) == IF d > e THEN d ELSE e

Live(w) == vote[w].left > 0

\* Fault: a proposal above the stored epoch overrides a live lease.
GrantsHigherEpoch(w, n) == ~Live(w) \/ vote[w].holder = n \/ highWater[n] > vote[w].epoch

\* Denied while another node's lease is live.
Grants(w, n) == ~Live(w) \/ vote[w].holder = n

\* Fault: a takeover keeps the stored epoch when the proposal is not larger.
VoteEpochKept(w, n, e) == Larger(Larger(vote[w].epoch, e), 1)

\* Fault: a renewal ignores the proposal.
VoteEpochUnraised(w, n, e) ==
    IF Live(w) /\ vote[w].holder = n
    THEN vote[w].epoch
    ELSE Larger(vote[w].epoch + 1, e)

\* A live lease of the same node keeps its term, raised to the proposal; all
\* else starts a term above the stored epoch and not below the proposal.
VoteEpoch(w, n, e) ==
    IF Live(w) /\ vote[w].holder = n
    THEN Larger(vote[w].epoch, e)
    ELSE Larger(vote[w].epoch + 1, e)

Acquire(w, n, e) ==
    IF Grants(w, n)
    THEN /\ VoteEpoch(w, n, e) <= MaxEpoch
         /\ vote' = [vote EXCEPT ![w] =
                        [holder |-> n, epoch |-> VoteEpoch(w, n, e), left |-> TTL]]
    ELSE UNCHANGED vote

\* The decision the witness answers with.
Decision(w, n, e) ==
    IF Grants(w, n) THEN [st |-> "yes", epoch |-> VoteEpoch(w, n, e)]
    ELSE [st |-> "no", epoch |-> vote[w].epoch]

-----------------------------------------------------------------------------
(* A node: one or two vote rounds                                          *)

\* Fault: floor(n/2) approvals are enough.
MajorityLoose(S) == 2 * Cardinality(S) + 1 >= Cardinality(Witness)

Majority(S) == 2 * Cardinality(S) > Cardinality(Witness)

\* The requests of a round go out together; one to a witness of Down is lost.
Requests == [w \in Witness |-> IF w \in Down THEN NoAnswer ELSE Sent]

Asking(c) == [ballot[c] EXCEPT !.reply = Requests]

\* A call of shouldStartExclusiveService, of the watcher or of a renewal.
Ask(c) ==
    /\ up[NodeOf[c]] /\ ballot[c].round = 0
    /\ "race" \in Extra \/ \A d \in Client : ballot[d].round > 0 => NodeOf[d] = NodeOf[c]
    /\ ballot' = [ballot EXCEPT ![c] =
           [Asking(c) EXCEPT !.round = 1, !.epoch = highWater[NodeOf[c]], !.age = 0]]
    /\ UNCHANGED <<vote, up, highWater, held, strays, terms>>

Request(c, w) == [by |-> NodeOf[c], epoch |-> ballot[c].epoch, to |-> w]
Waits(c, w) == ballot[c].round > 0 /\ ballot[c].reply[w] = Sent

\* The witness decides and its answer is heard.
Answer(c, w) ==
    /\ Waits(c, w)
    /\ Acquire(w, NodeOf[c], ballot[c].epoch)
    /\ ballot' = [ballot EXCEPT ![c].reply[w] = Decision(w, NodeOf[c], ballot[c].epoch)]
    /\ UNCHANGED <<up, highWater, held, strays, terms>>

\* The bound: a witness out of epochs answers nobody.
UsedUp(w, n, e) == Grants(w, n) /\ VoteEpoch(w, n, e) > MaxEpoch

Pending(c) == {w \in Witness : Waits(c, w)}

\* What a caller that gives up may leave in the network.
Unanswered(c) ==
    {Request(c, w) : w \in {v \in Pending(c) : ~UsedUp(v, NodeOf[c], ballot[c].epoch)}}
Leave(requests) ==
    \E left \in SUBSET requests :
        /\ Cardinality(strays \cup left) <= MaxStray
        /\ strays' = strays \cup left

\* The fetches give up together; a request without answer is lost, or reaches
\* the witness later, or has reached it and only the answer was lost.
TimesOut(c) ==
    /\ Pending(c) # {}
    /\ \/ ("loss" \in Extra /\ NodeOf[c] \in Frail)
       \/ \A w \in Pending(c) : UsedUp(w, NodeOf[c], ballot[c].epoch)
    /\ ballot' = [ballot EXCEPT ![c].reply =
           [w \in Witness |-> IF Waits(c, w) THEN NoAnswer ELSE ballot[c].reply[w]]]
    /\ Leave(Unanswered(c))
    /\ UNCHANGED <<vote, up, highWater, held, terms>>

Settled(c) == ballot[c].round > 0 /\ Pending(c) = {}
Yes(c) == {w \in Witness : ballot[c].reply[w].st = "yes"}
YesTo(c, e) == {w \in Yes(c) : ballot[c].reply[w].epoch = e}
Denied(c) == \E w \in Witness : ballot[c].reply[w].st = "no"

\* noteSeen: the high-water mark after every answer has been looked at.
Seen(c, e) ==
    LET epochs == {highWater[NodeOf[c]]} \cup {ballot[c].reply[w].epoch : w \in Witness}
    IN  e \in epochs /\ \A d \in epochs : d <= e

\* Fault: the largest epoch is used without committing it.
AgreesUncommitted(c, e) == Majority(Yes(c))

\* The first round decides only when all approvals name the epoch, and the
\* second when a majority does.
Agrees(c, e) ==
    /\ Majority(YesTo(c, e))
    /\ ballot[c].round = 1 => Yes(c) = YesTo(c, e)

\* The largest epoch seen in the first round is the term; the second round
\* asks for it again and takes nothing else.
TermOf(c, e) == IF ballot[c].round = 1 THEN e ELSE ballot[c].epoch

\* Fault: the certificate is counted from the answers.
RemainingFromAnswer(age) == TTL

\* Fault: the second of reserve is added and not taken off.
RemainingPlusReserve(age) == TTL - age + 1

\* acquireServiceLease counts from before the first request.
Remaining(age) == TTL - age

\* A certificate: the caller adopts its fence in the same turn.
Wins(c, seen) ==
    LET e == TermOf(c, seen) IN
    /\ Settled(c) /\ Seen(c, seen)
    /\ Agrees(c, e) /\ Remaining(ballot[c].age) > 0
    /\ highWater' = [highWater EXCEPT ![NodeOf[c]] = seen]
    /\ held' = [held EXCEPT ![c] = [epoch |-> e, left |-> Remaining(ballot[c].age)]]
    /\ ballot' = [ballot EXCEPT ![c] = NoBallot]
    /\ terms' = terms \cup {[epoch |-> e, node |-> NodeOf[c]]}
    /\ UNCHANGED <<vote, up, strays>>

\* A majority approved, but not of one epoch: commit the largest seen.
AsksAgain(c, seen) ==
    /\ Settled(c) /\ Seen(c, seen)
    /\ ballot[c].round = 1 /\ Majority(Yes(c)) /\ ~Agrees(c, seen)
    /\ highWater' = [highWater EXCEPT ![NodeOf[c]] = seen]
    /\ ballot' = [ballot EXCEPT ![c] = [Asking(c) EXCEPT !.round = 2, !.epoch = seen]]
    /\ UNCHANGED <<vote, up, held, strays, terms>>

\* No majority, no commit or an expired certificate.  Only a first round names
\* another holder, and then the fence goes at once if the call is a renewal; one
\* ballot stands for the calls of starters, watcher and renewal alike.
Fails(c, seen) ==
    /\ Settled(c) /\ Seen(c, seen)
    /\ \/ ballot[c].round = 1 /\ ~Majority(Yes(c))
       \/ ballot[c].round = 2 /\ ~Agrees(c, ballot[c].epoch)
       \/ Agrees(c, TermOf(c, seen)) /\ Remaining(ballot[c].age) = 0
    /\ highWater' = [highWater EXCEPT ![NodeOf[c]] = seen]
    /\ \/ UNCHANGED held
       \/ /\ ballot[c].round = 1 /\ ~Majority(Yes(c)) /\ Denied(c)
          /\ held' = [held EXCEPT ![c] = NoFence]
    /\ ballot' = [ballot EXCEPT ![c] = NoBallot]
    /\ UNCHANGED <<vote, up, strays, terms>>

\* Self-fencing (misses, margin, deadline): MeshLease says when.
Drop(c) ==
    /\ "drop" \in Extra /\ held[c] # NoFence
    /\ held' = [held EXCEPT ![c] = NoFence]
    /\ UNCHANGED <<vote, up, highWater, ballot, strays, terms>>

\* raiseWitnessEpochFloor: beforeMainAcquire, for a service without a lease.
RaiseFloor(c) ==
    LET n == NodeOf[c] IN
    /\ "floor" \in Extra /\ up[n]
    /\ ballot[c].round = 0 /\ held[c] = NoFence
    /\ highWater[n] < MaxEpoch
    /\ highWater' = [highWater EXCEPT ![n] = highWater[n] + 1]
    /\ UNCHANGED <<vote, up, ballot, held, strays, terms>>

On(n) == {c \in Client : NodeOf[c] = n}

\* The process of a node dies; requests under way may still arrive.
Crash(n) ==
    /\ n \in Frail /\ up[n]
    /\ up' = [up EXCEPT ![n] = FALSE]
    /\ highWater' = [highWater EXCEPT ![n] = 0]
    /\ held' = [c \in Client |-> IF c \in On(n) THEN NoFence ELSE held[c]]
    /\ ballot' = [c \in Client |-> IF c \in On(n) THEN NoBallot ELSE ballot[c]]
    /\ Leave(UNION {Unanswered(c) : c \in On(n)})
    /\ UNCHANGED <<vote, terms>>

Restart(n) ==
    /\ "restart" \in Extra /\ ~up[n]
    /\ up' = [up EXCEPT ![n] = TRUE]
    /\ UNCHANGED <<vote, highWater, ballot, held, strays, terms>>

StrayArrives(r) ==
    /\ r \in strays
    /\ strays' = strays \ {r}
    /\ Acquire(r.to, r.by, r.epoch)
    /\ UNCHANGED <<up, highWater, ballot, held, terms>>

-----------------------------------------------------------------------------

Step(c) ==
    \/ Ask(c)
    \/ TimesOut(c)
    \/ \E w \in Witness : Answer(c, w)
    \/ \E seen \in 0..MaxEpoch : Wins(c, seen) \/ AsksAgain(c, seen) \/ Fails(c, seen)
    \/ Drop(c) \/ RaiseFloor(c)

Next ==
    \/ Tick
    \/ \E c \in Client : Step(c)
    \/ \E n \in Node : Crash(n) \/ Restart(n)
    \/ \E r \in strays : StrayArrives(r)

Spec == Init /\ [][Next]_vars

-----------------------------------------------------------------------------
(* Properties                                                              *)

Usable(c) == held[c].epoch # 0 /\ held[c].left > 0

\* Two nodes never act as Main at once, whatever the witnesses were told late,
\* twice or never (decideWitnessQuorum, acquireServiceLease).
MutualExclusion ==
    \A c, d \in Client : Usable(c) /\ Usable(d) => NodeOf[c] = NodeOf[d]

\* Behind every usable fence stands a majority of live votes for its node that
\* outlive it and know its epoch.
MajorityBehind ==
    \A c \in Client :
        Usable(c) => Majority({w \in Witness : /\ vote[w].holder = NodeOf[c]
                                               /\ vote[w].epoch >= held[c].epoch
                                               /\ vote[w].left >= held[c].left})

\* No two nodes ever lead under the same epoch, although the witnesses count
\* their epochs apart from each other and forget nothing but who asked.
EpochUnique ==
    \A s, t \in terms : s.epoch = t.epoch => s = t

\* The term of a new node is above every term any other node ever had.
TermsRise ==
    [][\A s \in terms, t \in terms' \ terms : s.node # t.node => s.epoch < t.epoch]_vars

-----------------------------------------------------------------------------
(* Liveness                                                                *)

\* A service that has no call under way makes one, and a call goes on: reachable
\* witnesses answer, the others time out, and the answers are counted.
Proceeds(c) ==
    \/ Ask(c) \/ TimesOut(c)
    \/ \E w \in Witness : Answer(c, w)
    \/ \E seen \in 0..MaxEpoch : Wins(c, seen) \/ AsksAgain(c, seen) \/ Fails(c, seen)

\* A node of Frail may stop at any time and is promised nothing.
Fairness ==
    /\ WF_vars(Tick)
    /\ \A c \in Client : NodeOf[c] \notin Frail => WF_vars(Proceeds(c))

FairSpec == Spec /\ Fairness

Alone(c) == \A n \in Node : up[n] <=> n = NodeOf[c]

\* The bound: a witness has no epoch left to answer a call of the node with.
EpochsUsedUp(c) ==
    \E d \in On(NodeOf[c]), w \in Witness :
        Waits(d, w) /\ UsedUp(w, NodeOf[d], ballot[d].epoch)

\* A service of a node that is the only one left gets its lease with two of three
\* witnesses, and again whenever it has lost it, whatever votes, epochs and late
\* requests the others left behind and whatever its sibling services ask for.
GetsItsLease(c) == Alone(c) ~> (Usable(c) \/ ~Alone(c) \/ EpochsUsedUp(c))

\* "Keep a standby alive and promote it automatically when the active lease
\* dies" (leader-election.ts:869): somebody is promoted when nobody leads.
SomebodyIsPromoted == <>(\E c \in Client : Usable(c))

=============================================================================
