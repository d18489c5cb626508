------------------------- MODULE WitnessQuorumProofs -------------------------
(***************************************************************************)
(* Proofs about WitnessQuorum for every number of witnesses, nodes and     *)
(* services.  The argument: an answer that a node may still use stands for *)
(* a live vote, a live vote goes to nobody else, and any two majorities    *)
(* share a witness, which has raised its epoch since the earlier term.     *)
(***************************************************************************)
EXTENDS WitnessQuorum, FiniteSetTheorems, TLAPS

\* An approval that can still become part of a certificate.
LiveYes(c, w) ==
    /\ ballot[c].round > 0 /\ ballot[c].age < TTL
    /\ ballot[c].reply[w].st = "yes"

\* It stands for a vote that lasts as long as the certificate would.
AnswersStand ==
    \A c \in Client, w \in Witness :
        LiveYes(c, w) =>
            /\ vote[w].holder = NodeOf[c]
            /\ vote[w].left >= TTL - ballot[c].age
            /\ vote[w].epoch >= ballot[c].reply[w].epoch
            /\ ballot[c].reply[w].epoch >= 1

\* The vote of w stands behind the fence of c.
Behind(c, w) ==
    /\ vote[w].holder = NodeOf[c]
    /\ vote[w].epoch >= held[c].epoch
    /\ vote[w].left >= held[c].left

FencesStand ==
    \A c \in Client : Usable(c) =>
        \E Q \in SUBSET Witness : Majority(Q) /\ \A w \in Q : Behind(c, w)

\* The term t is behind the witness w: its vote is above t or still for t, and
\* what it has approved for other nodes since is above t.
Passed(t, w) ==
    /\ vote[w].epoch >= t.epoch
    /\ vote[w].epoch = t.epoch => vote[w].holder = t.node
    /\ \A c \in Client :
           LiveYes(c, w) /\ NodeOf[c] # t.node => ballot[c].reply[w].epoch > t.epoch

TermsStand ==
    \A t \in terms :
        \E Q \in SUBSET Witness : Majority(Q) /\ \A w \in Q : Passed(t, w)

\* A live vote has an epoch.
VotesCount == \A w \in Witness : vote[w].left > 0 => vote[w].epoch >= 1

IInv ==
    /\ TypeOK
    /\ VotesCount
    /\ AnswersStand
    /\ FencesStand
    /\ TermsStand
    /\ EpochUnique

-----------------------------------------------------------------------------
(* Facts about constants and majorities                                    *)

LEMMA Constants ==
    /\ NoNode \notin Node
    /\ \A c \in Client : NodeOf[c] \in Node
    /\ IsFiniteSet(Witness)
    /\ TTL \in Nat /\ TTL > 0
    /\ MaxEpoch \in Nat
BY WitnessAssumption

\* Any two majorities have a witness in common.
LEMMA QuorumsMeet ==
    ASSUME NEW S \in SUBSET Witness, NEW T \in SUBSET Witness, Majority(S), Majority(T)
    PROVE  \E w \in Witness : w \in S /\ w \in T
<1>1. IsFiniteSet(Witness) /\ IsFiniteSet(S) /\ IsFiniteSet(T)
  BY Constants, FS_Subset
<1>2. Cardinality(S) \in Nat /\ Cardinality(T) \in Nat /\ Cardinality(Witness) \in Nat
  BY <1>1, FS_CardinalityType
<1>3. Cardinality(S) + Cardinality(T) > Cardinality(Witness)
  BY <1>2 DEF Majority
<1>4. S \cap T # {}
  BY <1>1, <1>3, FS_MajoritiesIntersect
<1> QED
  BY <1>4

\* A set of witnesses that contains a majority is one.
LEMMA MajorityGrows ==
    ASSUME NEW S \in SUBSET Witness, NEW T \in SUBSET Witness, S \subseteq T, Majority(S)
    PROVE  Majority(T)
<1>1. IsFiniteSet(T) /\ IsFiniteSet(S)
  BY Constants, FS_Subset
<1>2. Cardinality(S) <= Cardinality(T)
  BY <1>1, FS_Subset
<1>3. Cardinality(S) \in Nat /\ Cardinality(T) \in Nat /\ Cardinality(Witness) \in Nat
  BY <1>1, Constants, FS_CardinalityType
<1> QED
  BY <1>2, <1>3 DEF Majority

\* A majority is not empty.
LEMMA MajorityHasOne ==
    ASSUME NEW S \in SUBSET Witness, Majority(S)
    PROVE  \E w \in Witness : w \in S
BY QuorumsMeet

-----------------------------------------------------------------------------
(* Type correctness                                                        *)

LEMMA TypeInit == Init => TypeOK
<1> SUFFICES ASSUME Init PROVE TypeOK
  OBVIOUS
<1>1. NoVote \in [holder : Node \cup {NoNode}, epoch : Nat, left : Time]
  BY Constants DEF NoVote, Time
<1>2. NoBallot \in Ballot
  BY Constants DEF NoBallot, Ballot, NoAnswer, Reply, Time
<1>3. NoFence \in [epoch : Nat, left : Time]
  BY Constants DEF NoFence, Time
<1> QED
  BY <1>1, <1>2, <1>3 DEF Init, TypeOK

\* What the handler of a witness does to its vote: it goes on for the same
\* holder, or it changes hands when it has run out, and then its epoch rises.
VoteRises(w) ==
    \/ vote'[w] = vote[w]
    \/ /\ vote'[w].left = TTL
       /\ vote'[w].holder \in Node
       /\ vote'[w].epoch >= vote[w].epoch /\ vote'[w].epoch >= 1
       /\ \/ vote[w].holder = vote'[w].holder /\ vote[w].left > 0
          \/ vote[w].left = 0 /\ vote'[w].epoch > vote[w].epoch

VoteType == vote \in [Witness -> [holder : Node \cup {NoNode}, epoch : Nat, left : Time]]

LEMMA AcquireRises ==
    ASSUME VoteType, VotesCount,
           NEW w \in Witness, NEW n \in Node, NEW e \in Nat, Acquire(w, n, e)
    PROVE  /\ VoteType' /\ VotesCount'
           /\ \A v \in Witness : VoteRises(v)
           /\ Grants(w, n) => /\ vote'[w].holder = n /\ vote'[w].left = TTL
                              /\ vote'[w].epoch = VoteEpoch(w, n, e)
                              /\ vote'[w].epoch >= 1
           /\ VoteEpoch(w, n, e) \in Nat
<1>1. vote[w].epoch \in Nat /\ vote[w].left \in Time /\ vote[w].holder \in Node \cup {NoNode}
  BY DEF VoteType
<1>2. VoteEpoch(w, n, e) \in Nat /\ VoteEpoch(w, n, e) >= vote[w].epoch
  BY <1>1 DEF VoteEpoch, Larger
<1>3. CASE Grants(w, n)
  <2>1. vote' = [vote EXCEPT ![w] = [holder |-> n, epoch |-> VoteEpoch(w, n, e), left |-> TTL]]
    BY <1>3 DEF Acquire
  <2>2. TTL \in Time
    BY Constants DEF Time
  <2>3. VoteType'
    BY <1>2, <2>1, <2>2 DEF VoteType
  <2>4. /\ vote'[w].holder = n /\ vote'[w].left = TTL
        /\ vote'[w].epoch = VoteEpoch(w, n, e)
    BY <2>1 DEF VoteType
  <2>5. \A v \in Witness : v # w => vote'[v] = vote[v]
    BY <2>1 DEF VoteType
  <2>6. CASE Live(w) /\ vote[w].holder = n
    BY <1>1, <1>2, <2>3, <2>4, <2>5, <2>6 DEF VoteRises, Live, VotesCount
  <2>7. CASE ~(Live(w) /\ vote[w].holder = n)
    <3>1. vote[w].left = 0
      BY <1>1, <1>3, <2>7, Constants DEF Grants, Live, Time
    <3>2. VoteEpoch(w, n, e) > vote[w].epoch
      BY <1>1, <2>7 DEF VoteEpoch, Larger
    <3> QED
      BY <1>1, <1>2, <2>3, <2>4, <2>5, <3>1, <3>2 DEF VoteRises, VotesCount
  <2> QED
    BY <2>6, <2>7
<1>4. CASE ~Grants(w, n)
  <2>1. vote' = vote
    BY <1>4 DEF Acquire
  <2> QED
    BY <1>2, <1>4, <2>1 DEF VoteType, VoteRises, VotesCount
<1> QED
  BY <1>3, <1>4

\* The answers and proposals of a call are numbers of its own and of votes.
LEMMA CallTypes ==
    ASSUME TypeOK, NEW c \in Client
    PROVE  /\ NodeOf[c] \in Node
           /\ ballot[c] \in Ballot /\ ballot[c].epoch \in Nat
           /\ highWater[NodeOf[c]] \in Nat
           /\ \A w \in Witness : Request(c, w) \in [by : Node, epoch : Nat, to : Witness]
           /\ \A w \in Witness : ballot[c].reply[w] \in Reply
           /\ \A e : Seen(c, e) => e \in Nat
<1>1. NodeOf[c] \in Node /\ ballot[c] \in Ballot /\ highWater[NodeOf[c]] \in Nat
  BY Constants DEF TypeOK
<1>2. \A w \in Witness : ballot[c].reply[w] \in Reply
  BY <1>1 DEF Ballot
<1>3. \A w \in Witness : ballot[c].reply[w].epoch \in Nat
  BY <1>2 DEF Reply
<1> QED
  BY <1>1, <1>2, <1>3 DEF Ballot, Request, Seen

LEMMA LeftTypes ==
    ASSUME TypeOK, NEW C \in SUBSET Client, Leave(UNION {Unanswered(c) : c \in C})
    PROVE  strays' \in SUBSET [by : Node, epoch : Nat, to : Witness]
<1>1. \A c \in C : Unanswered(c) \subseteq [by : Node, epoch : Nat, to : Witness]
  BY CallTypes DEF Unanswered, Pending
<1> QED
  BY <1>1 DEF Leave, TypeOK

LEMMA TypeTick == ASSUME TypeOK, Tick PROVE TypeOK'
<1>1. \A t \in Time : Less(t) \in Time /\ More(t) \in Time
  BY Constants DEF Less, More, Time
<1>2. VoteType'
  <2>1. VoteType /\ vote' = [w \in Witness |-> [vote[w] EXCEPT !.left = Less(vote[w].left)]]
    BY DEF TypeOK, Tick, VoteType
  <2>2. ASSUME NEW w \in Witness
        PROVE  [vote[w] EXCEPT !.left = Less(vote[w].left)]
                 \in [holder : Node \cup {NoNode}, epoch : Nat, left : Time]
    BY <1>1, <2>1 DEF VoteType
  <2> QED
    BY <2>1, <2>2 DEF VoteType
<1>3. held' \in [Client -> [epoch : Nat, left : Time]]
  BY <1>1 DEF TypeOK, Tick
<1>4. ASSUME NEW c \in Client
      PROVE  (IF ballot[c].round = 0 THEN ballot[c]
              ELSE [ballot[c] EXCEPT !.age = More(ballot[c].age)]) \in Ballot
  <2>1. ballot[c] \in Ballot
    BY CallTypes
  <2>2. More(ballot[c].age) \in Time
    BY <1>1, <2>1 DEF Ballot
  <2> QED
    BY <2>1, <2>2 DEF Ballot
<1>5. ballot' \in [Client -> Ballot]
  BY <1>4 DEF Tick
<1> QED
  BY <1>2, <1>3, <1>5 DEF TypeOK, Tick, VoteType

LEMMA TypeAnswer ==
    ASSUME TypeOK, VotesCount, NEW c \in Client, NEW w \in Witness, Answer(c, w)
    PROVE  TypeOK'
<1>1. Acquire(w, NodeOf[c], ballot[c].epoch) /\ VoteType
  BY DEF Answer, TypeOK, VoteType
<1>2. VoteType' /\ VoteEpoch(w, NodeOf[c], ballot[c].epoch) \in Nat
  BY <1>1, AcquireRises, CallTypes
<1>3. Decision(w, NodeOf[c], ballot[c].epoch) \in Reply
  BY <1>1, <1>2 DEF Decision, Reply, VoteType
<1>a. ballot[c] \in Ballot /\ ballot \in [Client -> Ballot]
  BY CallTypes DEF TypeOK
<1>b. [ballot[c] EXCEPT !.reply[w] = Decision(w, NodeOf[c], ballot[c].epoch)] \in Ballot
  BY <1>3, <1>a DEF Ballot
<1>4. ballot' \in [Client -> Ballot]
  BY <1>a, <1>b DEF Answer
<1> QED
  BY <1>2, <1>4 DEF TypeOK, Answer, VoteType

\* A call that starts a round.
LEMMA BallotWith ==
    ASSUME NEW b \in Ballot, NEW r \in 1..2, NEW e \in Nat
    PROVE  /\ [b EXCEPT !.round = r, !.epoch = e] \in Ballot
           /\ \A a \in Time : [b EXCEPT !.round = r, !.epoch = e, !.age = a] \in Ballot
<1>1. r \in 0..2
  OBVIOUS
<1>2. [b EXCEPT !.round = r, !.epoch = e] \in Ballot
  BY <1>1 DEF Ballot
<1>3. ASSUME NEW a \in Time PROVE [b EXCEPT !.round = r, !.epoch = e, !.age = a] \in Ballot
  BY <1>1 DEF Ballot
<1> QED
  BY <1>2, <1>3

LEMMA TypeStep ==
    ASSUME TypeOK, VotesCount, NEW c \in Client, Step(c)
    PROVE  TypeOK'
<1>1. NoBallot \in Ballot /\ NoFence \in [epoch : Nat, left : Time] /\ TTL \in Time /\ 0 \in Time
  BY Constants DEF NoBallot, Ballot, NoAnswer, Reply, Time, NoFence
<1>2. Sent \in Reply /\ NoAnswer \in Reply
  BY DEF Sent, NoAnswer, Reply
<1>r. Requests \in [Witness -> Reply]
  BY <1>2 DEF Requests
<1>k. 1 \in 1..2 /\ 2 \in 1..2
  OBVIOUS
<1>b. Asking(c) \in Ballot
  BY <1>r, CallTypes DEF Ballot, Asking
<1>3. CASE Ask(c)
  <2>1. [Asking(c) EXCEPT !.round = 1, !.epoch = highWater[NodeOf[c]], !.age = 0] \in Ballot
    BY <1>b, <1>1, <1>k, BallotWith, CallTypes, Zenon
  <2>2. ballot' \in [Client -> Ballot]
    BY <1>3, <2>1 DEF Ask, TypeOK
  <2> QED
    BY <1>3, <2>2 DEF Ask, TypeOK
<1>4. CASE TimesOut(c)
  <2>1. ballot' \in [Client -> Ballot]
    BY <1>2, <1>4, CallTypes DEF TimesOut, TypeOK, Ballot
  <2>2. UNION {Unanswered(d) : d \in {c}} = Unanswered(c)
    OBVIOUS
  <2>3. {c} \in SUBSET Client /\ Leave(UNION {Unanswered(d) : d \in {c}})
    BY <1>4, <2>2 DEF TimesOut
  <2>4. strays' \in SUBSET [by : Node, epoch : Nat, to : Witness]
    BY <2>3, LeftTypes
  <2> QED
    BY <1>4, <2>1, <2>4 DEF TimesOut, TypeOK
<1>5. CASE \E w \in Witness : Answer(c, w)
  BY <1>5, TypeAnswer
<1>6. ASSUME NEW seen \in 0..MaxEpoch, Wins(c, seen) PROVE TypeOK'
  <2> DEFINE e == TermOf(c, seen)
  <2>1. e \in Nat
    BY <1>6, CallTypes DEF TermOf, Wins
  <2>2. Remaining(ballot[c].age) \in Time
    BY <1>6, CallTypes, Constants DEF Wins, Remaining, Time, Ballot
  <2>3. [epoch |-> e, node |-> NodeOf[c]] \in Term
    BY <2>1, CallTypes DEF Term
  <2> QED
    BY <1>1, <1>6, <2>1, <2>2, <2>3, CallTypes DEF Wins, TypeOK
<1>7. ASSUME NEW seen \in 0..MaxEpoch, AsksAgain(c, seen) PROVE TypeOK'
  <2>1. seen \in Nat
    BY <1>7, CallTypes DEF AsksAgain
  <2>2. [Asking(c) EXCEPT !.round = 2, !.epoch = seen] \in Ballot
    BY <1>b, <1>k, <2>1, BallotWith, Zenon
  <2>3. ballot' \in [Client -> Ballot]
    BY <2>2, <1>7 DEF AsksAgain, TypeOK
  <2> QED
    BY <1>7, <2>1, <2>3, CallTypes DEF AsksAgain, TypeOK
<1>8. ASSUME NEW seen \in 0..MaxEpoch, Fails(c, seen) PROVE TypeOK'
  BY <1>1, <1>8, CallTypes DEF Fails, TypeOK
<1>9. CASE Drop(c)
  BY <1>1, <1>9 DEF Drop, TypeOK
<1>10. CASE RaiseFloor(c)
  <2>1. highWater[NodeOf[c]] + 1 \in Nat
    BY CallTypes
  <2>2. highWater' = [highWater EXCEPT ![NodeOf[c]] = highWater[NodeOf[c]] + 1]
    BY <1>10 DEF RaiseFloor
  <2> QED
    BY <1>10, <2>1, <2>2 DEF RaiseFloor, TypeOK
<1> QED
  BY <1>3, <1>4, <1>5, <1>6, <1>7, <1>8, <1>9, <1>10 DEF Step

LEMMA TypeNext == ASSUME TypeOK, VotesCount, [Next]_vars PROVE TypeOK'
<1>1. NoBallot \in Ballot /\ NoFence \in [epoch : Nat, left : Time]
  BY Constants DEF NoBallot, Ballot, NoAnswer, Reply, Time, NoFence
<1>2. ASSUME NEW n \in Node, Crash(n) PROVE TypeOK'
  <2>1. strays' \in SUBSET [by : Node, epoch : Nat, to : Witness]
    BY <1>2, LeftTypes DEF Crash, On
  <2> QED
    BY <1>1, <1>2, <2>1 DEF Crash, TypeOK
<1>3. ASSUME NEW n \in Node, Restart(n) PROVE TypeOK'
  BY <1>3 DEF Restart, TypeOK
<1>4. ASSUME NEW r \in strays, StrayArrives(r) PROVE TypeOK'
  <2>1. r.to \in Witness /\ r.by \in Node /\ r.epoch \in Nat
    BY DEF TypeOK
  <2>2. VoteType'
    BY <1>4, <2>1, AcquireRises DEF StrayArrives, TypeOK, VoteType
  <2> QED
    BY <1>4, <2>2 DEF StrayArrives, TypeOK, VoteType
<1>5. CASE UNCHANGED vars
  BY <1>5 DEF vars, TypeOK
<1> QED
  BY <1>2, <1>3, <1>4, <1>5, TypeTick, TypeStep DEF Next

-----------------------------------------------------------------------------
(* The inductive invariant                                                 *)

\* The answer that c has from w is an old one,
SameAnswer(c, w) ==
    LiveYes(c, w)' =>
        /\ LiveYes(c, w)
        /\ ballot'[c].reply[w] = ballot[c].reply[w]
        /\ ballot'[c].age = ballot[c].age

\* or w has given it in this step.
FreshAnswer(c, w) ==
    LiveYes(c, w)' =>
        /\ vote'[w].holder = NodeOf[c] /\ vote'[w].left = TTL
        /\ ballot'[c].reply[w].epoch = vote'[w].epoch
        /\ vote'[w].epoch >= 1

\* What all steps but Tick and Wins do: votes rise, answers are heard, calls
\* and fences end.
Evolves ==
    /\ VotesCount'
    /\ \A w \in Witness : VoteRises(w)
    /\ \A c \in Client, w \in Witness : SameAnswer(c, w) \/ FreshAnswer(c, w)
    /\ \A c \in Client : held'[c] \in {held[c], NoFence}
    /\ terms' = terms

LEMMA AnswersStandOn ==
    ASSUME TypeOK, TypeOK', AnswersStand, \A w \in Witness : VoteRises(w),
           \A c \in Client, w \in Witness : SameAnswer(c, w) \/ FreshAnswer(c, w)
    PROVE  AnswersStand'
<1> SUFFICES ASSUME NEW c \in Client, NEW w \in Witness, LiveYes(c, w)'
             PROVE  /\ vote'[w].holder = NodeOf[c]
                    /\ vote'[w].left >= TTL - ballot'[c].age
                    /\ vote'[w].epoch >= ballot'[c].reply[w].epoch
                    /\ ballot'[c].reply[w].epoch >= 1
  BY DEF AnswersStand
<1>1. /\ vote[w].left \in 0..TTL /\ vote[w].epoch \in Nat /\ TTL \in Nat
      /\ vote'[w].epoch \in Nat
  BY Constants DEF TypeOK, Time
<1>2. ballot[c].age \in 0..TTL /\ ballot[c].reply[w].epoch \in Nat
  BY CallTypes DEF Ballot, Reply, Time
<1>3. ballot'[c].age \in 0..TTL /\ ballot'[c].reply[w].epoch \in Nat
  BY DEF TypeOK, Ballot, Reply, Time
<1>4. CASE SameAnswer(c, w)
  <2>1. /\ LiveYes(c, w) /\ ballot'[c].reply[w] = ballot[c].reply[w]
        /\ ballot'[c].age = ballot[c].age
    BY <1>4 DEF SameAnswer
  <2>2. /\ vote[w].holder = NodeOf[c] /\ vote[w].left >= TTL - ballot[c].age
        /\ vote[w].epoch >= ballot[c].reply[w].epoch /\ ballot[c].reply[w].epoch >= 1
    BY <2>1 DEF AnswersStand
  <2>3. vote[w].left > 0
    BY <1>1, <1>2, <2>1, <2>2 DEF LiveYes
  <2> QED
    BY <1>1, <1>2, <2>1, <2>2, <2>3 DEF VoteRises
<1>5. CASE FreshAnswer(c, w)
  BY <1>1, <1>3, <1>5 DEF FreshAnswer
<1> QED
  BY <1>4, <1>5

LEMMA FencesStandOn ==
    ASSUME TypeOK, TypeOK', FencesStand, \A w \in Witness : VoteRises(w),
           NEW c \in Client, held'[c] \in {held[c], NoFence}, Usable(c)'
    PROVE  \E Q \in SUBSET Witness : Majority(Q) /\ \A w \in Q : Behind(c, w)'
<1>1. held'[c] = held[c] /\ Usable(c)
  BY DEF Usable, NoFence
<1>2. PICK Q \in SUBSET Witness : Majority(Q) /\ \A w \in Q : Behind(c, w)
  BY <1>1 DEF FencesStand
<1>3. ASSUME NEW w \in Q PROVE Behind(c, w)'
  <2>1. /\ vote[w].left \in Nat /\ vote[w].epoch \in Nat /\ vote'[w].epoch \in Nat
        /\ held[c].left \in 0..TTL /\ held[c].epoch \in Nat /\ TTL \in Nat
    BY Constants DEF TypeOK, Time
  <2>2. vote[w].left > 0 /\ Behind(c, w) /\ VoteRises(w)
    BY <1>1, <1>2, <1>3, <2>1 DEF Behind, Usable
  <2>3. vote'[w] = vote[w] \/ (/\ vote'[w].holder = vote[w].holder
                               /\ vote'[w].epoch >= vote[w].epoch
                               /\ vote'[w].left = TTL)
    BY <2>1, <2>2 DEF VoteRises
  <2> QED
    BY <1>1, <2>1, <2>2, <2>3 DEF Behind
<1> QED
  BY <1>2, <1>3

\* A witness that a term has passed stays passed: another node gets the vote
\* only above the term.
LEMMA PassedOn ==
    ASSUME TypeOK, TypeOK', NEW t \in terms, NEW w \in Witness, Passed(t, w), VoteRises(w),
           \A c \in Client : SameAnswer(c, w) \/ FreshAnswer(c, w)
    PROVE  Passed(t, w)'
<1>1. /\ vote[w].epoch \in Nat /\ vote'[w].epoch \in Nat /\ t.epoch \in Nat
      /\ vote[w].left \in Nat
  BY Constants DEF TypeOK, Term, Time
<1>2. /\ vote'[w].epoch >= t.epoch
      /\ vote'[w].epoch = t.epoch => vote'[w].holder = t.node
  BY <1>1 DEF Passed, VoteRises
<1>3. ASSUME NEW c \in Client, LiveYes(c, w)', NodeOf[c] # t.node
      PROVE  ballot'[c].reply[w].epoch > t.epoch
  <2>1. CASE SameAnswer(c, w)
    BY <1>3, <2>1 DEF SameAnswer, Passed
  <2>2. CASE FreshAnswer(c, w)
    BY <1>1, <1>2, <1>3, <2>2 DEF FreshAnswer
  <2> QED
    BY <2>1, <2>2
<1> QED
  BY <1>2, <1>3 DEF Passed

LEMMA TermsStandOn ==
    ASSUME TypeOK, TypeOK', NEW t \in terms, TermsStand, \A w \in Witness : VoteRises(w),
           \A c \in Client, w \in Witness : SameAnswer(c, w) \/ FreshAnswer(c, w)
    PROVE  \E Q \in SUBSET Witness : Majority(Q) /\ \A w \in Q : Passed(t, w)'
<1>1. PICK Q \in SUBSET Witness : Majority(Q) /\ \A w \in Q : Passed(t, w)
  BY DEF TermsStand
<1>2. \A w \in Q : Passed(t, w)'
  BY <1>1, PassedOn
<1> QED
  BY <1>1, <1>2

LEMMA EvolvesKeeps ==
    ASSUME IInv, TypeOK', Evolves
    PROVE  IInv'
<1>1. AnswersStand'
  BY AnswersStandOn DEF IInv, Evolves
<1>2. FencesStand'
  <2> SUFFICES ASSUME NEW c \in Client, Usable(c)'
               PROVE  \E Q \in SUBSET Witness : Majority(Q) /\ \A w \in Q : Behind(c, w)'
    BY DEF FencesStand, Majority
  <2> QED
    BY FencesStandOn DEF IInv, Evolves
<1>3. TermsStand'
  <2> SUFFICES ASSUME NEW t \in terms
               PROVE  \E Q \in SUBSET Witness : Majority(Q) /\ \A w \in Q : Passed(t, w)'
    BY DEF TermsStand, Majority, Evolves
  <2> QED
    BY TermsStandOn DEF IInv, Evolves
<1>4. EpochUnique' /\ VotesCount'
  BY DEF IInv, Evolves, EpochUnique
<1> QED
  BY <1>1, <1>2, <1>3, <1>4 DEF IInv

-----------------------------------------------------------------------------
(* The steps                                                               *)

\* A step that leaves the votes alone.
LEMMA QuietEvolves ==
    ASSUME IInv, vote' = vote,
           \A c \in Client, w \in Witness : SameAnswer(c, w),
           \A c \in Client : held'[c] \in {held[c], NoFence},
           terms' = terms
    PROVE  Evolves
BY DEF IInv, Evolves, VotesCount, VoteRises

\* A call that has not changed keeps its answers.
LEMMA SameCall ==
    ASSUME NEW c \in Client, ballot'[c] = ballot[c]
    PROVE  \A w \in Witness : SameAnswer(c, w)
BY DEF SameAnswer, LiveYes

LEMMA AnswerEvolves ==
    ASSUME IInv, NEW c \in Client, NEW w \in Witness, Answer(c, w)
    PROVE  Evolves
<1> DEFINE n == NodeOf[c]
           e == ballot[c].epoch
<1>1. TypeOK /\ VoteType /\ VotesCount /\ n \in Node /\ e \in Nat /\ ballot[c] \in Ballot
  BY CallTypes DEF IInv, TypeOK, VoteType
<1>2. Acquire(w, n, e)
  BY DEF Answer
<1>3. /\ VotesCount' /\ \A v \in Witness : VoteRises(v)
      /\ Grants(w, n) => /\ vote'[w].holder = n /\ vote'[w].left = TTL
                         /\ vote'[w].epoch = VoteEpoch(w, n, e)
                         /\ vote'[w].epoch >= 1
  BY <1>1, <1>2, AcquireRises
<1>4. /\ \A d \in Client : d # c => ballot'[d] = ballot[d]
      /\ \A v \in Witness : v # w => ballot'[c].reply[v] = ballot[c].reply[v]
      /\ ballot'[c].reply[w] = Decision(w, n, e)
      /\ ballot'[c].age = ballot[c].age /\ ballot'[c].round = ballot[c].round
  BY <1>1 DEF Answer, TypeOK, Ballot
<1>5. \A v \in Witness : v # w => SameAnswer(c, v)
  BY <1>4 DEF SameAnswer, LiveYes
<1>6. FreshAnswer(c, w)
  <2> SUFFICES ASSUME LiveYes(c, w)' PROVE FreshAnswer(c, w)
    BY DEF FreshAnswer
  <2>1. Grants(w, n)
    BY <1>4 DEF LiveYes, Decision
  <2> QED
    BY <1>3, <1>4, <2>1 DEF FreshAnswer, Decision
<1>7. \A d \in Client, v \in Witness : SameAnswer(d, v) \/ FreshAnswer(d, v)
  BY <1>4, <1>5, <1>6, SameCall
<1> QED
  BY <1>3, <1>7 DEF Answer, Evolves

LEMMA StrayEvolves ==
    ASSUME IInv, NEW r \in strays, StrayArrives(r)
    PROVE  Evolves
<1>1. r.to \in Witness /\ r.by \in Node /\ r.epoch \in Nat /\ VoteType /\ VotesCount
  BY DEF IInv, TypeOK, VoteType
<1>2. VotesCount' /\ \A v \in Witness : VoteRises(v)
  BY <1>1, AcquireRises DEF StrayArrives
<1> QED
  BY <1>2, SameCall DEF StrayArrives, Evolves

\* A call that ends, or has no approvals yet.
LEMMA NoYes ==
    ASSUME NEW c \in Client, NEW w \in Witness,
           ballot'[c].round = 0 \/ ballot'[c].reply[w].st # "yes"
    PROVE  SameAnswer(c, w)
BY DEF SameAnswer, LiveYes

\* A call that starts a round has no answers.
First(b, e) == [b EXCEPT !.round = 1, !.epoch = e, !.age = 0]
Second(b, e) == [b EXCEPT !.round = 2, !.epoch = e]

LEMMA RoundReply ==
    ASSUME NEW b \in Ballot, NEW e
    PROVE  First(b, e).reply = b.reply /\ Second(b, e).reply = b.reply
<1>1. b = [round |-> b.round, epoch |-> b.epoch, age |-> b.age, reply |-> b.reply]
  BY DEF Ballot
<1> DEFINE d == [round |-> b.round, epoch |-> b.epoch, age |-> b.age, reply |-> b.reply]
<1>2. First(d, e).reply = b.reply /\ Second(d, e).reply = b.reply
  BY DEF First, Second
<1> QED
  BY <1>1, <1>2, Zenon

LEMMA AskingCall ==
    ASSUME NEW c \in Client, ballot[c] \in Ballot
    PROVE  \A e : /\ First(Asking(c), e).reply = Requests
                  /\ Second(Asking(c), e).reply = Requests
<1>1. Requests \in [Witness -> Reply]
  BY DEF Requests, Sent, NoAnswer, Reply
<1>2. Asking(c) \in Ballot /\ Asking(c).reply = Requests
  BY <1>1 DEF Asking, Ballot
<1> QED
  BY <1>2, RoundReply

LEMMA QuietStep ==
    ASSUME IInv, NEW c \in Client,
           \/ Ask(c) \/ TimesOut(c) \/ Drop(c) \/ RaiseFloor(c)
           \/ \E seen \in 0..MaxEpoch : AsksAgain(c, seen) \/ Fails(c, seen)
    PROVE  Evolves
<1>1. TypeOK /\ ballot[c] \in Ballot
  BY CallTypes DEF IInv
<1>2. vote' = vote /\ terms' = terms
  BY DEF Ask, TimesOut, Drop, RaiseFloor, AsksAgain, Fails
<1>3. \A d \in Client : held'[d] \in {held[d], NoFence}
  BY <1>1 DEF Ask, TimesOut, Drop, RaiseFloor, AsksAgain, Fails, TypeOK
<1>4. \A d \in Client : d # c => ballot'[d] = ballot[d]
  BY <1>1 DEF Ask, TimesOut, Drop, RaiseFloor, AsksAgain, Fails, TypeOK
<1>5. ASSUME NEW w \in Witness PROVE SameAnswer(c, w)
  <2>1. ASSUME ballot'[c].reply = Requests PROVE SameAnswer(c, w)
    <3>1. ballot'[c].reply[w].st # "yes"
      BY <2>1 DEF Requests, Sent, NoAnswer
    <3> QED
      BY <3>1, NoYes
  <2>5. CASE Ask(c)
    <3>1. ballot'[c] = First(Asking(c), highWater[NodeOf[c]])
      BY <1>1, <2>5, Zenon DEF Ask, TypeOK, First
    <3>2. ballot'[c].reply = Requests
      BY <1>1, <3>1, AskingCall
    <3> QED
      BY <2>1, <3>2
  <2>6. ASSUME NEW seen \in 0..MaxEpoch, AsksAgain(c, seen) PROVE SameAnswer(c, w)
    <3>1. ballot'[c] = Second(Asking(c), seen)
      BY <1>1, <2>6, Zenon DEF AsksAgain, TypeOK, Second
    <3>2. ballot'[c].reply = Requests
      BY <1>1, <3>1, AskingCall
    <3> QED
      BY <2>1, <3>2
  <2>2. CASE TimesOut(c)
    <3>1. /\ ballot'[c].round = ballot[c].round /\ ballot'[c].age = ballot[c].age
          /\ ballot'[c].reply[w] \in {NoAnswer, ballot[c].reply[w]}
      BY <1>1, <2>2 DEF TimesOut, TypeOK, Ballot
    <3> QED
      BY <3>1 DEF SameAnswer, LiveYes, NoAnswer
  <2>3. CASE \E seen \in 0..MaxEpoch : Fails(c, seen)
    <3>1. ballot'[c].round = 0
      BY <1>1, <2>3 DEF Fails, TypeOK, NoBallot
    <3> QED
      BY <3>1, NoYes
  <2>4. CASE Drop(c) \/ RaiseFloor(c)
    BY <2>4, SameCall DEF Drop, RaiseFloor
  <2> QED
    BY <2>2, <2>3, <2>4, <2>5, <2>6
<1>6. \A d \in Client, w \in Witness : SameAnswer(d, w)
  BY <1>4, <1>5, SameCall
<1> QED
  BY <1>2, <1>3, <1>6, QuietEvolves

LEMMA QuietNode ==
    ASSUME IInv, NEW n \in Node, Crash(n) \/ Restart(n)
    PROVE  Evolves
<1>1. vote' = vote /\ terms' = terms
  BY DEF Crash, Restart
<1>2. \A d \in Client : held'[d] \in {held[d], NoFence}
  BY DEF Crash, Restart
<1>3. ASSUME NEW d \in Client, NEW w \in Witness PROVE SameAnswer(d, w)
  <2>1. ballot'[d] = ballot[d] \/ ballot'[d].round = 0
    BY DEF Crash, Restart, NoBallot
  <2> QED
    BY <2>1, NoYes, SameCall
<1> QED
  BY <1>1, <1>2, <1>3, QuietEvolves

\* Time takes from a vote what it takes from the fences and certificates that
\* rest on it.
LEMMA TickKeeps ==
    ASSUME IInv, TypeOK', Tick
    PROVE  IInv'
<1>1. /\ \A w \in Witness : /\ vote'[w].holder = vote[w].holder
                            /\ vote'[w].epoch = vote[w].epoch
                            /\ vote'[w].left = Less(vote[w].left)
                            /\ vote[w].left \in 0..TTL /\ vote[w].epoch \in Nat
      /\ \A c \in Client : /\ held'[c].epoch = held[c].epoch
                           /\ held'[c].left = Less(held[c].left)
                           /\ held[c].left \in 0..TTL /\ held[c].epoch \in Nat
      /\ TTL \in Nat
  BY Constants DEF IInv, TypeOK, Tick, Time
<1>2. ASSUME NEW c \in Client, NEW w \in Witness, LiveYes(c, w)'
      PROVE  /\ LiveYes(c, w) /\ ballot'[c].reply[w] = ballot[c].reply[w]
             /\ ballot'[c].age = ballot[c].age + 1
             /\ ballot[c].age \in 0..TTL /\ ballot[c].reply[w].epoch \in Nat
  <2>1. ballot[c] \in Ballot /\ ballot[c].age \in 0..TTL /\ ballot[c].reply[w].epoch \in Nat
    BY CallTypes DEF IInv, Ballot, Time, Reply
  <2>2. ballot[c].round # 0
    BY <1>2 DEF IInv, TypeOK, Tick, LiveYes
  <2>3. /\ ballot'[c].age = More(ballot[c].age)
        /\ ballot'[c].reply = ballot[c].reply /\ ballot'[c].round = ballot[c].round
    BY <2>1, <2>2 DEF IInv, TypeOK, Tick, Ballot
  <2>4. ballot[c].round > 0
    BY <2>1, <2>2 DEF Ballot
  <2> QED
    BY <1>1, <1>2, <2>1, <2>3, <2>4 DEF LiveYes, More
<1>3. VotesCount'
  BY <1>1 DEF IInv, VotesCount, Less
<1>4. AnswersStand'
  <2> SUFFICES ASSUME NEW c \in Client, NEW w \in Witness, LiveYes(c, w)'
               PROVE  /\ vote'[w].holder = NodeOf[c]
                      /\ vote'[w].left >= TTL - ballot'[c].age
                      /\ vote'[w].epoch >= ballot'[c].reply[w].epoch
                      /\ ballot'[c].reply[w].epoch >= 1
    BY DEF AnswersStand
  <2>1. /\ LiveYes(c, w) /\ ballot'[c].reply[w] = ballot[c].reply[w]
        /\ ballot'[c].age = ballot[c].age + 1
        /\ ballot[c].age \in 0..TTL /\ ballot[c].reply[w].epoch \in Nat
    BY <1>2
  <2>2. /\ vote[w].holder = NodeOf[c] /\ vote[w].left >= TTL - ballot[c].age
        /\ vote[w].epoch >= ballot[c].reply[w].epoch /\ ballot[c].reply[w].epoch >= 1
    BY <2>1 DEF IInv, AnswersStand
  <2> QED
    BY <1>1, <2>1, <2>2 DEF Less
<1>5. FencesStand'
  <2> SUFFICES ASSUME NEW c \in Client, Usable(c)'
               PROVE  \E Q \in SUBSET Witness : Majority(Q) /\ \A w \in Q : Behind(c, w)'
    BY DEF FencesStand, Majority
  <2>1. Usable(c)
    BY <1>1 DEF Usable, Less
  <2>2. PICK Q \in SUBSET Witness : Majority(Q) /\ \A w \in Q : Behind(c, w)
    BY <2>1 DEF IInv, FencesStand
  <2>3. \A w \in Q : Behind(c, w)'
    BY <1>1, <2>2 DEF Behind, Less
  <2> QED
    BY <2>2, <2>3
<1>6. TermsStand'
  <2> SUFFICES ASSUME NEW t \in terms
               PROVE  \E Q \in SUBSET Witness : Majority(Q) /\ \A w \in Q : Passed(t, w)'
    BY DEF TermsStand, Majority, Tick
  <2>1. PICK Q \in SUBSET Witness : Majority(Q) /\ \A w \in Q : Passed(t, w)
    BY DEF IInv, TermsStand
  <2>2. \A w \in Q : Passed(t, w)'
    BY <1>1, <1>2, <2>1 DEF Passed
  <2> QED
    BY <2>1, <2>2
<1>7. EpochUnique'
  BY DEF IInv, Tick, EpochUnique
<1> QED
  BY <1>3, <1>4, <1>5, <1>6, <1>7 DEF IInv

\* A certificate rests on live votes of a majority for its node, at its epoch.
LEMMA CertificateRests ==
    ASSUME IInv, NEW c \in Client, NEW seen, Wins(c, seen)
    PROVE  LET e == TermOf(c, seen)
               Q == YesTo(c, e)
           IN  /\ Q \in SUBSET Witness /\ Majority(Q) /\ e \in Nat /\ e >= 1
               /\ \A w \in Q : /\ LiveYes(c, w) /\ ballot[c].reply[w].epoch = e
                               /\ vote[w].holder = NodeOf[c] /\ vote[w].epoch >= e
                               /\ vote[w].left >= TTL - ballot[c].age
<1> DEFINE e == TermOf(c, seen)
           Q == YesTo(c, e)
<1>1. /\ ballot[c] \in Ballot /\ ballot[c].age \in 0..TTL /\ TTL \in Nat
      /\ ballot[c].round \in 0..2
  BY CallTypes, Constants DEF IInv, Ballot, Time
<1>2. e \in Nat
  BY CallTypes DEF IInv, TermOf, Wins
<1>3. Q \in SUBSET Witness /\ Majority(Q)
  BY DEF Wins, Agrees, YesTo, Yes
<1>4. ballot[c].age < TTL /\ ballot[c].round > 0
  BY <1>1 DEF Wins, Remaining, Settled
<1>5. \A w \in Q : LiveYes(c, w) /\ ballot[c].reply[w].epoch = e
  BY <1>4 DEF LiveYes, YesTo, Yes
<1>6. \A w \in Q : /\ vote[w].holder = NodeOf[c] /\ vote[w].epoch >= e
                   /\ vote[w].left >= TTL - ballot[c].age /\ e >= 1
  BY <1>3, <1>5 DEF IInv, AnswersStand
<1>7. e >= 1
  BY <1>3, <1>6, MajorityHasOne
<1> HIDE DEF e, Q
<1> QED
  BY <1>2, <1>3, <1>5, <1>6, <1>7 DEF e, Q

\* It is above every term of another node: the two majorities share a witness,
\* and that one has approved it only above the other term.
LEMMA CertificateAbove ==
    ASSUME IInv, NEW c \in Client, NEW seen, Wins(c, seen),
           NEW s \in terms, s.node # NodeOf[c]
    PROVE  s.epoch < TermOf(c, seen)
<1>1. PICK Q \in SUBSET Witness : Majority(Q) /\ \A w \in Q : Passed(s, w)
  BY DEF IInv, TermsStand
<1>2. PICK w \in Witness : w \in Q /\ w \in YesTo(c, TermOf(c, seen))
  BY <1>1, CertificateRests, QuorumsMeet
<1>3. LiveYes(c, w) /\ ballot[c].reply[w].epoch = TermOf(c, seen)
  BY <1>2, CertificateRests
<1>4. s.epoch \in Nat /\ TermOf(c, seen) \in Nat
  BY CertificateRests DEF IInv, TypeOK, Term
<1> QED
  BY <1>1, <1>2, <1>3, <1>4 DEF Passed

LEMMA WinsKeeps ==
    ASSUME IInv, TypeOK', NEW c \in Client, NEW seen, Wins(c, seen)
    PROVE  IInv'
<1> DEFINE e == TermOf(c, seen)
           Q == YesTo(c, e)
           new == [epoch |-> e, node |-> NodeOf[c]]
<1>1. /\ Q \in SUBSET Witness /\ Majority(Q) /\ e \in Nat /\ e >= 1
      /\ \A w \in Q : /\ LiveYes(c, w) /\ ballot[c].reply[w].epoch = e
                      /\ vote[w].holder = NodeOf[c] /\ vote[w].epoch >= e
                      /\ vote[w].left >= TTL - ballot[c].age
  BY CertificateRests
<1>2. /\ vote' = vote /\ terms' = terms \cup {new}
  BY DEF Wins
<1>3. /\ ballot'[c] = NoBallot
      /\ \A d \in Client : d # c => ballot'[d] = ballot[d] /\ held'[d] = held[d]
      /\ held'[c] = [epoch |-> e, left |-> TTL - ballot[c].age]
  BY DEF Wins, IInv, TypeOK, Remaining
<1>4. \A d \in Client, w \in Witness : SameAnswer(d, w)
  BY <1>3, NoYes, SameCall DEF NoBallot
<1>5. \A w \in Witness : VoteRises(w)
  BY <1>2 DEF VoteRises
<1>6. VotesCount' /\ AnswersStand'
  BY <1>2, <1>4, <1>5, AnswersStandOn DEF IInv, VotesCount
<1>7. FencesStand'
  <2> SUFFICES ASSUME NEW d \in Client, Usable(d)'
               PROVE  \E S \in SUBSET Witness : Majority(S) /\ \A w \in S : Behind(d, w)'
    BY DEF FencesStand, Majority
  <2>1. CASE d = c
    <3>1. \A w \in Q : Behind(d, w)'
      BY <1>1, <1>2, <1>3, <2>1 DEF Behind
    <3> QED
      BY <1>1, <3>1
  <2>2. CASE d # c
    <3>1. held'[d] \in {held[d], NoFence}
      BY <1>3, <2>2
    <3> QED
      BY <1>5, <3>1, FencesStandOn DEF IInv
  <2> QED
    BY <2>1, <2>2
<1>8. TermsStand'
  <2> SUFFICES ASSUME NEW t \in terms'
               PROVE  \E S \in SUBSET Witness : Majority(S) /\ \A w \in S : Passed(t, w)'
    BY DEF TermsStand, Majority
  <2>1. CASE t \in terms
    BY <1>4, <1>5, <2>1, TermsStandOn DEF IInv
  <2>2. CASE t = new
    <3>1. ASSUME NEW w \in Q PROVE Passed(t, w)'
      <4>1. vote[w].holder = NodeOf[c] /\ vote[w].epoch >= t.epoch /\ t.node = NodeOf[c]
        BY <1>1, <2>2, <3>1
      <4>2. \A d \in Client : LiveYes(d, w) => NodeOf[d] = NodeOf[c]
        BY <1>1, <3>1, <4>1 DEF IInv, AnswersStand
      <4> QED
        BY <1>1, <1>2, <1>4, <3>1, <4>1, <4>2 DEF Passed, SameAnswer
    <3> QED
      BY <1>1, <3>1
  <2> QED
    BY <1>2, <2>1, <2>2
<1>9. EpochUnique'
  <2>1. ASSUME NEW s \in terms, s.epoch = e PROVE s = new
    <3>1. s.node = NodeOf[c]
      BY <1>1, <2>1, CertificateAbove
    <3> QED
      BY <2>1, <3>1 DEF IInv, TypeOK, Term
  <2>2. \A s, t \in terms : s.epoch = t.epoch => s = t
    BY DEF IInv, EpochUnique
  <2> HIDE DEF e
  <2> QED
    BY <1>2, <2>1, <2>2 DEF EpochUnique
<1> QED
  BY <1>6, <1>7, <1>8, <1>9 DEF IInv

LEMMA NextKeeps == ASSUME IInv, [Next]_vars PROVE IInv'
<1>1. TypeOK'
  BY TypeNext DEF IInv
<1>2. CASE Tick
  BY <1>1, <1>2, TickKeeps
<1>3. ASSUME NEW c \in Client, Step(c) PROVE IInv'
  <2>1. CASE \E w \in Witness : Answer(c, w)
    BY <1>1, <2>1, AnswerEvolves, EvolvesKeeps
  <2>2. CASE \E seen \in 0..MaxEpoch : Wins(c, seen)
    BY <1>1, <2>2, WinsKeeps
  <2>3. CASE \/ Ask(c) \/ TimesOut(c) \/ Drop(c) \/ RaiseFloor(c)
             \/ \E seen \in 0..MaxEpoch : AsksAgain(c, seen) \/ Fails(c, seen)
    BY <1>1, <2>3, QuietStep, EvolvesKeeps
  <2> QED
    BY <1>3, <2>1, <2>2, <2>3 DEF Step
<1>4. ASSUME NEW n \in Node, Crash(n) \/ Restart(n) PROVE IInv'
  BY <1>1, <1>4, QuietNode, EvolvesKeeps
<1>5. ASSUME NEW r \in strays, StrayArrives(r) PROVE IInv'
  BY <1>1, <1>5, StrayEvolves, EvolvesKeeps
<1>6. CASE UNCHANGED vars
  <2>1. /\ vote' = vote /\ ballot' = ballot /\ held' = held
        /\ terms' = terms
    BY <1>6 DEF vars
  <2>2. Evolves
    BY <2>1, SameCall, QuietEvolves
  <2> QED
    BY <1>1, <2>2, EvolvesKeeps
<1> QED
  BY <1>2, <1>3, <1>4, <1>5, <1>6 DEF Next

LEMMA InitHolds == ASSUME Init PROVE IInv
<1>1. TypeOK
  BY TypeInit
<1>2. VotesCount /\ AnswersStand /\ FencesStand
  BY Constants DEF Init, VotesCount, AnswersStand, FencesStand, NoVote, LiveYes, NoBallot,
     Usable, NoFence
<1>3. TermsStand /\ EpochUnique
  BY DEF Init, TermsStand, EpochUnique
<1> QED
  BY <1>1, <1>2, <1>3 DEF IInv

-----------------------------------------------------------------------------
(* Theorems                                                                *)

\* Every reachable state satisfies the inductive invariant.
THEOREM Invariant == Spec => []IInv
<1>1. Init => IInv
  BY InitHolds
<1>2. IInv /\ [Next]_vars => IInv'
  BY NextKeeps
<1> QED
  BY <1>1, <1>2, PTL DEF Spec

\* Votes, calls, fences and terms keep their types.
THEOREM TypeCorrect == Spec => []TypeOK
BY Invariant, PTL DEF IInv

\* A usable fence has a majority of live votes for its node behind it, each at
\* least as long and as new as the fence.
THEOREM FencesAreBacked == Spec => []MajorityBehind
<1>1. IInv => MajorityBehind
  <2> SUFFICES ASSUME IInv, NEW c \in Client, Usable(c)
               PROVE  Majority({w \in Witness : /\ vote[w].holder = NodeOf[c]
                                                /\ vote[w].epoch >= held[c].epoch
                                                /\ vote[w].left >= held[c].left})
    BY DEF MajorityBehind
  <2> DEFINE S == {w \in Witness : /\ vote[w].holder = NodeOf[c]
                                   /\ vote[w].epoch >= held[c].epoch
                                   /\ vote[w].left >= held[c].left}
  <2>1. PICK Q \in SUBSET Witness : Majority(Q) /\ \A w \in Q : Behind(c, w)
    BY DEF IInv, FencesStand
  <2>2. Q \subseteq S /\ S \in SUBSET Witness
    BY <2>1 DEF Behind
  <2> QED
    BY <2>1, <2>2, MajorityGrows
<1> QED
  BY <1>1, Invariant, PTL

\* Usable fences all belong to services of one node.
THEOREM OneMain == Spec => []MutualExclusion
<1>1. IInv => MutualExclusion
  <2> SUFFICES ASSUME IInv, NEW c \in Client, NEW d \in Client, Usable(c), Usable(d)
               PROVE  NodeOf[c] = NodeOf[d]
    BY DEF MutualExclusion
  <2>1. PICK Q \in SUBSET Witness : Majority(Q) /\ \A w \in Q : Behind(c, w)
    BY DEF IInv, FencesStand
  <2>2. PICK R \in SUBSET Witness : Majority(R) /\ \A w \in R : Behind(d, w)
    BY DEF IInv, FencesStand
  <2>3. PICK w \in Witness : w \in Q /\ w \in R
    BY <2>1, <2>2, QuorumsMeet
  <2> QED
    BY <2>1, <2>2, <2>3 DEF Behind
<1> QED
  BY <1>1, Invariant, PTL

\* Two terms with the same epoch are the same term.
THEOREM EpochsAreUnique == Spec => []EpochUnique
BY Invariant, PTL DEF IInv

LEMMA NewTerms ==
    ASSUME IInv, [Next]_vars, NEW t \in terms', t \notin terms
    PROVE  \E c \in Client, seen \in 0..MaxEpoch :
               Wins(c, seen) /\ t = [epoch |-> TermOf(c, seen), node |-> NodeOf[c]]
<1>1. terms' # terms
  OBVIOUS
<1>2. PICK c \in Client : Step(c)
  BY <1>1 DEF Next, vars, Tick, Crash, Restart, StrayArrives
<1>3. PICK seen \in 0..MaxEpoch : Wins(c, seen)
  BY <1>1, <1>2 DEF Step, Ask, TimesOut, Answer, AsksAgain, Fails, Drop, RaiseFloor
<1> QED
  BY <1>3 DEF Wins

\* A node gets a term only above all terms that other nodes ever had.
THEOREM TermsAlwaysRise == Spec => TermsRise
<1>1. ASSUME IInv, [Next]_vars
      PROVE  \A s \in terms, t \in terms' \ terms : s.node # t.node => s.epoch < t.epoch
  <2> SUFFICES ASSUME NEW s \in terms, NEW t \in terms', t \notin terms, s.node # t.node
               PROVE  s.epoch < t.epoch
    OBVIOUS
  <2>1. PICK c \in Client, seen \in 0..MaxEpoch :
            Wins(c, seen) /\ t = [epoch |-> TermOf(c, seen), node |-> NodeOf[c]]
    BY <1>1, NewTerms
  <2>2. s.epoch < TermOf(c, seen)
    BY <1>1, <2>1, CertificateAbove
  <2> QED
    BY <2>1, <2>2
<1> QED
  BY <1>1, Invariant, PTL DEF Spec, TermsRise

=============================================================================
