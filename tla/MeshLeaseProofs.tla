--------------------------- MODULE MeshLeaseProofs ---------------------------
(***************************************************************************)
(* MeshLease for every set of processes and every lease time.  The         *)
(* argument: a fence, a granted call, a release and a write each carry an  *)
(* epoch their process was really given; epochs are given once (Epochs);   *)
(* and a fence or call whose time has not run out and whose term was not   *)
(* ended is backed by the lease row (Claims).                              *)
(***************************************************************************)
EXTENDS MeshLease, TLAPS

Given(e, p) == [epoch |-> e, to |-> p] \in grants

\* The row holds the last epoch of the sequence, and no epoch is given twice.
Epochs ==
    /\ \A g \in grants : g.epoch \in 1..epochSeq
    /\ EpochUnique
    /\ lease.holder = NoProc => lease = NoRow
    /\ lease.holder # NoProc => lease.epoch = epochSeq /\ Given(lease.epoch, lease.holder)
    /\ \A e \in ended : e <= epochSeq
    /\ lease.epoch \in ended => lease.left = 0

\* The row backs p's claim on epoch e for at least t more.
Backs(p, e, t) == lease.holder = p /\ lease.epoch = e /\ lease.left >= t

\* p was given the epoch, and as long as its time t runs and nobody ended the
\* term, the row backs it.
Claim(p, e, t) == Given(e, p) /\ (t > 0 /\ e \notin ended => Backs(p, e, t))

FenceOK(p) == held[p].epoch # 0 => Claim(p, held[p].epoch, held[p].left)
CallOK(p, k) ==
    call[p][k].st = "granted" => Claim(p, call[p][k].epoch, Remaining(call[p][k].age))
ReleaseOK(p) == release[p].st = "sent" => Given(release[p].epoch, p)
StrayOK(s) == s.op = "release" => Given(s.epoch, s.by)

Claims ==
    /\ \A p \in Proc : FenceOK(p) /\ ReleaseOK(p)
    /\ \A p \in Proc, k \in Kind : CallOK(p, k)
    /\ \A s \in strays : StrayOK(s)
    /\ writes \subseteq grants

IInv == TypeOK /\ Epochs /\ Claims

-----------------------------------------------------------------------------
(* Types                                                                   *)

LEMMA TypeInit == Init => TypeOK
<1> SUFFICES ASSUME Init PROVE TypeOK
  OBVIOUS
<1>1. 0 \in Time
  BY LeaseAssumption DEF Time
<1>2. NoFence \in Fence /\ NoCall \in Call /\ NoRelease \in Release
  BY <1>1 DEF NoFence, Fence, NoCall, Call, NoRelease, Release
<1>3. lease \in [holder : Proc \cup {NoProc}, epoch : Nat, left : Time]
  BY <1>1 DEF Init, NoRow
<1> QED
  BY <1>2, <1>3 DEF Init, TypeOK

\* What a transaction on the row does to the coordinator's types.
LEMMA AcquireRowType ==
    ASSUME TypeOK, NEW p \in Proc, AcquireRow(p)
    PROVE  /\ lease' \in [holder : Proc \cup {NoProc}, epoch : Nat, left : Time]
           /\ epochSeq' \in Nat /\ writerEpoch' \in Nat
           /\ grants' \in SUBSET Term /\ ended' \in SUBSET Nat
           /\ TermEpoch(p) \in Nat
<1>1. TTL \in Time
  BY LeaseAssumption DEF Time
<1>2. TermEpoch(p) \in Nat
  BY DEF TypeOK, TermEpoch
<1>3. [epoch |-> TermEpoch(p), to |-> p] \in Term
  BY <1>2 DEF Term
<1>4. [holder |-> p, epoch |-> TermEpoch(p), left |-> TTL]
        \in [holder : Proc \cup {NoProc}, epoch : Nat, left : Time]
  BY <1>1, <1>2
<1>5. CASE MayTake(p)
  <2>1. lease' \in [holder : Proc \cup {NoProc}, epoch : Nat, left : Time]
    BY <1>4, <1>5 DEF AcquireRow
  <2>2. epochSeq' \in Nat
    BY <1>5 DEF TypeOK, AcquireRow
  <2>3. grants' \in SUBSET Term
    BY <1>3, <1>5 DEF TypeOK, AcquireRow
  <2> QED
    BY <1>2, <1>5, <2>1, <2>2, <2>3 DEF TypeOK, AcquireRow
<1>6. CASE ~MayTake(p)
  BY <1>2, <1>6 DEF TypeOK, AcquireRow
<1> QED
  BY <1>5, <1>6

LEMMA ReleaseRowType ==
    ASSUME TypeOK, NEW p \in Proc, NEW e \in Nat, ReleaseRow(p, e)
    PROVE  /\ lease' \in [holder : Proc \cup {NoProc}, epoch : Nat, left : Time]
           /\ epochSeq' \in Nat /\ writerEpoch' \in Nat
           /\ grants' \in SUBSET Term /\ ended' \in SUBSET Nat
<1>1. 0 \in Time
  BY LeaseAssumption DEF Time
<1>2. CASE Releases(p, e)
  <2>1. [lease EXCEPT !.left = 0] \in [holder : Proc \cup {NoProc}, epoch : Nat, left : Time]
    BY <1>1 DEF TypeOK
  <2> QED
    BY <1>2, <2>1 DEF TypeOK, ReleaseRow
<1>3. CASE ~Releases(p, e)
  BY <1>3 DEF TypeOK, ReleaseRow
<1> QED
  BY <1>2, <1>3

\* What a caller that gives up leaves behind is a request.
LEMMA LeftType ==
    ASSUME TypeOK, NEW p \in Proc
    PROVE  /\ \A k \in Kind : LeftBy(p, k) \subseteq [op : {"acquire", "release"}, by : Proc, epoch : Nat]
           /\ LeftRelease(p) \subseteq [op : {"acquire", "release"}, by : Proc, epoch : Nat]
  BY DEF TypeOK, LeftBy, LeftRelease, AcquireBy, ReleaseBy, Release

LEMMA TypeTick == TypeOK /\ Tick => TypeOK'
<1> SUFFICES ASSUME TypeOK, Tick PROVE TypeOK'
  OBVIOUS
<1>1. \A t \in Time : Less(t) \in Time
  BY LeaseAssumption DEF Time, Less
<1>2. \A c \in Call : Older(c) \in Call
  BY LeaseAssumption DEF Call, Time, Older
<1>3. \A p \in Proc : [held[p] EXCEPT !.left = Less(held[p].left), !.alarm = Less(held[p].alarm)] \in Fence
  <2> SUFFICES ASSUME NEW p \in Proc
               PROVE [held[p] EXCEPT !.left = Less(held[p].left), !.alarm = Less(held[p].alarm)] \in Fence
    OBVIOUS
  <2>1. held[p] \in Fence
    BY DEF TypeOK
  <2> QED
    BY <1>1, <2>1 DEF Fence
<1>4. held' \in [Proc -> Fence]
  BY <1>3 DEF Tick
<1>5. call' \in [Proc -> [Kind -> Call]]
  BY <1>2 DEF TypeOK, Tick
<1>6. lease' \in [holder : Proc \cup {NoProc}, epoch : Nat, left : Time]
  BY <1>1 DEF TypeOK, Tick
<1> QED
  BY <1>4, <1>5, <1>6 DEF TypeOK, Tick

\* Every process's own steps and the network's keep the types.
LEMMA TypeStep ==
    ASSUME TypeOK, NEW p \in Proc, Step(p)
    PROVE  TypeOK'
<1> DEFINE Row == [holder : Proc \cup {NoProc}, epoch : Nat, left : Time]
<1> DEFINE Stray == [op : {"acquire", "release"}, by : Proc, epoch : Nat]
<1>0. 0 \in Time /\ TTL \in Time
  BY LeaseAssumption DEF Time
<1>a. /\ NoFence \in Fence /\ NoCall \in Call /\ NoRelease \in Release
      /\ [NoCall EXCEPT !.st = "get"] \in Call /\ [NoCall EXCEPT !.st = "other"] \in Call
  BY <1>0 DEF NoFence, Fence, NoCall, Call, NoRelease, Release
<1>b. \A k \in Kind : call[p][k] \in Call
  BY DEF TypeOK
<1>c. \A k \in Kind : LeftBy(p, k) \subseteq Stray
  BY LeftType
<1>d. LeftRelease(p) \subseteq Stray
  BY LeftType
<1>e. ASSUME DropFence(p)
      PROVE  /\ held' \in [Proc -> Fence] /\ work' \in [Proc -> Nat]
             /\ renewing' \in [Proc -> BOOLEAN] /\ misses' \in [Proc -> 0..2]
  BY <1>a, <1>e DEF TypeOK, DropFence
<1>f. ASSUME Relinquish(p)
      PROVE  /\ held' \in [Proc -> Fence] /\ work' \in [Proc -> Nat]
             /\ renewing' \in [Proc -> BOOLEAN] /\ misses' \in [Proc -> 0..2]
             /\ watching' \in [Proc -> BOOLEAN]
  BY <1>e, <1>f DEF TypeOK, Relinquish
<1>g. ASSUME NEW k \in Kind, NEW arm \in BOOLEAN, Adopt(p, call[p][k], arm)
      PROVE  held' \in [Proc -> Fence] /\ work' \in [Proc -> Nat]
  <2>1. Remaining(call[p][k].age) \in Time /\ call[p][k].epoch \in Nat
    BY <1>b, LeaseAssumption DEF Call, Time, Remaining
  <2>2. held[p] \in Fence
    BY DEF TypeOK
  <2>3. SurvivingWork(p, call[p][k].epoch) \in Nat
    BY DEF TypeOK, SurvivingWork
  <2> DEFINE f == [epoch |-> call[p][k].epoch, left |-> Remaining(call[p][k].age),
                   alarm |-> IF arm THEN Remaining(call[p][k].age) ELSE held[p].alarm]
  <2>4. f \in Fence
    BY <2>1, <2>2 DEF Fence
  <2>5. held' = [held EXCEPT ![p] = f]
    BY <1>g DEF Adopt
  <2>6. held' \in [Proc -> Fence]
    BY <2>4, <2>5 DEF TypeOK
  <2> QED
    BY <1>g, <2>3, <2>6 DEF TypeOK, Adopt
<1>h. ASSUME NEW k \in Kind, NEW o, Finish(p, k, o)
      PROVE  call' \in [Proc -> [Kind -> Call]] /\ strays' \in SUBSET Stray
  BY <1>a, <1>c, <1>h DEF TypeOK, Finish
<1>i. ASSUME NEW k \in Kind, NEW c \in Call, call' = [call EXCEPT ![p][k] = c]
      PROVE  call' \in [Proc -> [Kind -> Call]]
  BY <1>i DEF TypeOK
<1>j. "start" \in Kind /\ "watch" \in Kind /\ "renew" \in Kind
  BY DEF Kind
<1>k. ASSUME VoidRenewal(p)
      PROVE  call' \in [Proc -> [Kind -> Call]] /\ strays' \in SUBSET Stray
  <2>1. AcquireBy(p) \in Stray
    BY DEF AcquireBy
  <2>2. strays' \in SUBSET Stray
    BY <1>k, <2>1 DEF TypeOK, VoidRenewal
  <2> QED
    BY <1>a, <1>i, <1>j, <1>k, <2>2 DEF VoidRenewal
<1>l. \A k \in Kind, st \in {"rpc", "other"} : Answer(st, call[p][k]) \in Call
  BY <1>a, <1>b DEF Answer, Call
<1>1. CASE Boot(p)
  BY <1>1, <1>a, <1>i, <1>j DEF TypeOK, Boot, coordinator, local, history
<1>2. ASSUME NEW k \in Kind, Ask(p, k)
      PROVE  TypeOK'
  BY <1>2, <1>a, <1>i DEF TypeOK, Ask, coordinator, local, history
<1>3. ASSUME NEW k \in Kind, AcquireRpc(p, k)
      PROVE  TypeOK'
  <2>1. [call[p][k] EXCEPT !.st = "granted", !.epoch = TermEpoch(p)] \in Call
    BY <1>3, <1>b, AcquireRowType DEF AcquireRpc, Call
  <2>2. call' \in [Proc -> [Kind -> Call]]
    BY <1>3, <1>i, <1>l, <2>1 DEF AcquireRpc
  <2> QED
    BY <1>3, <2>2, AcquireRowType DEF TypeOK, AcquireRpc, local
<1>4. ASSUME NEW k \in Kind, NEW expired \in BOOLEAN, NEW sees \in BOOLEAN,
             ReadRow(p, k, expired, sees)
      PROVE  TypeOK'
  <2>1. call' \in [Proc -> [Kind -> Call]]
    BY <1>4, <1>i, <1>l DEF ReadRow
  <2> QED
    BY <1>4, <2>1 DEF TypeOK, ReadRow, coordinator, local, history
<1>5. ASSUME NEW o \in Outcome, StartReturns(p, o)
      PROVE  TypeOK'
  <2>1. call' \in [Proc -> [Kind -> Call]] /\ strays' \in SUBSET Stray
    BY <1>5, <1>h, <1>j DEF StartReturns
  <2>2. /\ held' \in [Proc -> Fence] /\ work' \in [Proc -> Nat]
        /\ renewing' \in [Proc -> BOOLEAN] /\ watching' \in [Proc -> BOOLEAN]
    <3>1. CASE o = "granted"
      <4>1. (~renewing[p]) \in BOOLEAN
        BY Zenon
      <4>2. held' \in [Proc -> Fence] /\ work' \in [Proc -> Nat]
        BY <1>5, <1>g, <1>j, <3>1, <4>1 DEF StartReturns, BecomeLeader
      <4> QED
        BY <1>5, <3>1, <4>2 DEF TypeOK, StartReturns, BecomeLeader
    <3>2. CASE o # "granted"
      BY <1>5, <3>2 DEF TypeOK, StartReturns
    <3> QED
      BY <3>1, <3>2
  <2> QED
    BY <1>5, <2>1, <2>2 DEF TypeOK, StartReturns, coordinator, history
<1>6. ASSUME NEW o \in Outcome, WatchReturns(p, o)
      PROVE  TypeOK'
  <2>1. call' \in [Proc -> [Kind -> Call]] /\ strays' \in SUBSET Stray
    BY <1>6, <1>h, <1>j DEF WatchReturns
  <2>2. /\ held' \in [Proc -> Fence] /\ work' \in [Proc -> Nat]
        /\ renewing' \in [Proc -> BOOLEAN] /\ watching' \in [Proc -> BOOLEAN]
    <3>1. CASE o = "granted"
      <4>1. (~renewing[p]) \in BOOLEAN
        BY Zenon
      <4>2. held' \in [Proc -> Fence] /\ work' \in [Proc -> Nat]
        BY <1>6, <1>g, <1>j, <3>1, <4>1 DEF WatchReturns, BecomeLeader
      <4> QED
        BY <1>6, <3>1, <4>2 DEF TypeOK, WatchReturns, BecomeLeader
    <3>2. CASE o # "granted"
      BY <1>6, <3>2 DEF TypeOK, WatchReturns
    <3> QED
      BY <3>1, <3>2
  <2> QED
    BY <1>6, <2>1, <2>2 DEF TypeOK, WatchReturns, coordinator, history
<1>7. ASSUME NEW o \in Outcome, RenewReturns(p, o)
      PROVE  TypeOK'
  <2>1. call' \in [Proc -> [Kind -> Call]] /\ strays' \in SUBSET Stray
    BY <1>7, <1>h, <1>j DEF RenewReturns
  <2>2. /\ held' \in [Proc -> Fence] /\ work' \in [Proc -> Nat] /\ misses' \in [Proc -> 0..2]
        /\ renewing' \in [Proc -> BOOLEAN] /\ watching' \in [Proc -> BOOLEAN]
    <3>1. CASE Adopt(p, call[p]["renew"], TRUE) /\ misses' = [misses EXCEPT ![p] = 0]
               /\ UNCHANGED <<renewing, watching>>
      <4>1. TRUE \in BOOLEAN
        OBVIOUS
      <4>2. held' \in [Proc -> Fence] /\ work' \in [Proc -> Nat]
        BY <1>g, <1>j, <3>1, <4>1, Zenon
      <4> QED
        BY <3>1, <4>2 DEF TypeOK, Adopt
    <3>2. CASE Tolerates(p) /\ misses' = [misses EXCEPT ![p] = misses[p] + 1]
               /\ UNCHANGED <<held, renewing, watching, work>>
      BY <3>2 DEF TypeOK, Tolerates
    <3>3. CASE Relinquish(p)
      BY <1>f, <3>3
    <3> QED
      BY <1>7, <3>1, <3>2, <3>3 DEF RenewReturns
  <2> QED
    BY <1>7, <2>1, <2>2 DEF TypeOK, RenewReturns, coordinator, history
<1>8. CASE DeadlineFires(p)
  BY <1>8, <1>f, <1>k DEF TypeOK, DeadlineFires, coordinator, history
<1>9. CASE Yield(p)
  <2>1. [st |-> "sent", epoch |-> held[p].epoch] \in Release
    BY DEF TypeOK, Fence, Release
  <2> QED
    BY <1>9, <2>1 DEF TypeOK, Yield, coordinator, local, history
<1>10. CASE ReleaseRpc(p)
  <2>1. release[p] \in Release
    BY DEF TypeOK
  <2>2. ReleaseRow(p, release[p].epoch) /\ release[p].epoch \in Nat
    BY <1>10, <2>1 DEF ReleaseRpc, Release
  <2>3. \A st \in {"done", "refused"} : [release[p] EXCEPT !.st = st] \in Release
    BY <2>1 DEF Release
  <2>4. release' \in [Proc -> Release]
    BY <1>10, <2>3 DEF TypeOK, ReleaseRpc
  <2> QED
    BY <1>10, <2>2, <2>4, ReleaseRowType DEF TypeOK, ReleaseRpc, local
<1>11. CASE ReleaseReturns(p)
  BY <1>11, <1>a, <1>f, <1>k DEF TypeOK, ReleaseReturns, coordinator, history
<1>12. CASE ReleaseFails(p)
  BY <1>12, <1>a, <1>d DEF TypeOK, ReleaseFails, coordinator, local, history
<1>13. CASE Crash(p)
  <2>1. UNION {LeftBy(p, k) : k \in Kind} \subseteq Stray
    BY <1>c
  <2>2. strays' \in SUBSET Stray
    BY <1>13, <1>d, <2>1 DEF TypeOK, Crash, Exit
  <2>3. call' \in [Proc -> [Kind -> Call]]
    BY <1>13, <1>a DEF TypeOK, Crash, Exit
  <2>4. DropFence(p)
    BY <1>13 DEF Crash, Exit
  <2> QED
    BY <1>13, <1>a, <1>e, <2>2, <2>3, <2>4 DEF TypeOK, Crash, Exit, coordinator, history
<1>14. CASE BeginWork(p)
  <2>1. held[p].epoch \in Nat
    BY DEF TypeOK, Fence
  <2> QED
    BY <1>14, <2>1 DEF TypeOK, BeginWork, coordinator, history
<1>15. CASE EndWork(p)
  BY <1>15 DEF TypeOK, EndWork, coordinator, history
<1>16. CASE SendWrite(p)
  <2>1. [epoch |-> held[p].epoch, to |-> p] \in Term
    BY DEF TypeOK, Fence, Term
  <2> QED
    BY <1>16, <2>1 DEF TypeOK, SendWrite, coordinator, local, history
<1> QED
  BY <1>1, <1>2, <1>3, <1>4, <1>5, <1>6, <1>7, <1>8, <1>9, <1>10, <1>11, <1>12,
     <1>13, <1>14, <1>15, <1>16 DEF Step

LEMMA TypeNext == TypeOK /\ [Next]_vars => TypeOK'
<1> SUFFICES ASSUME TypeOK, [Next]_vars PROVE TypeOK'
  OBVIOUS
<1>0. 0 \in Time
  BY LeaseAssumption DEF Time
<1>1. CASE Tick
  BY <1>1, TypeTick
<1>2. CASE AdminDelete
  <2>1. lease' \in [holder : Proc \cup {NoProc}, epoch : Nat, left : Time]
    BY <1>0, <1>2 DEF AdminDelete, NoRow
  <2>2. ended' \in SUBSET Nat
    BY <1>2 DEF TypeOK, AdminDelete
  <2> QED
    BY <1>2, <2>1, <2>2 DEF TypeOK, AdminDelete, local
<1>3. ASSUME NEW p \in Proc, Step(p)
      PROVE  TypeOK'
  BY <1>3, TypeStep
<1>4. ASSUME NEW w \in writes, WriteArrives(w)
      PROVE  TypeOK'
  <2>1. w.epoch \in Nat
    BY DEF TypeOK, Term
  <2> QED
    BY <1>4, <2>1 DEF TypeOK, WriteArrives, local, history
<1>5. ASSUME NEW s \in strays, StrayArrives(s)
      PROVE  TypeOK'
  <2>1. s.by \in Proc /\ s.epoch \in Nat
    BY DEF TypeOK
  <2>2. AcquireRow(s.by) \/ ReleaseRow(s.by, s.epoch)
    BY <1>5 DEF StrayArrives
  <2>3. /\ lease' \in [holder : Proc \cup {NoProc}, epoch : Nat, left : Time]
        /\ epochSeq' \in Nat /\ writerEpoch' \in Nat
        /\ grants' \in SUBSET Term /\ ended' \in SUBSET Nat
    BY <2>1, <2>2, AcquireRowType, ReleaseRowType
  <2> QED
    BY <1>5, <2>3 DEF TypeOK, StrayArrives, local
<1>6. CASE Lost
  BY <1>6 DEF TypeOK, Lost, coordinator, local, history
<1>7. CASE UNCHANGED vars
  BY <1>7 DEF TypeOK, vars
<1> QED
  BY <1>1, <1>2, <1>3, <1>4, <1>5, <1>6, <1>7 DEF Next

\* Every reachable state of the lease, its processes and its requests is typed,
\* whatever the processes, the lease time and the bounds of a run are.
THEOREM TypeCorrect == Spec => []TypeOK
<1>1. Init => TypeOK
  BY TypeInit
<1>2. TypeOK /\ [Next]_vars => TypeOK'
  BY TypeNext
<1> QED
  BY <1>1, <1>2, PTL DEF Spec

-----------------------------------------------------------------------------
(* What a transaction on the row leaves of the claims                      *)

\* No claim of a live term is lost: a term that is not ended stays backed.
KeepsClaims ==
    /\ grants \subseteq grants' /\ ended \subseteq ended'
    /\ \A q \in Proc, e \in Nat, t \in Nat :
         t \in 1..TTL /\ Backs(q, e, t) /\ e \notin ended' => Backs(q, e, t)'

LEMMA QuietRow ==
    ASSUME Epochs, UNCHANGED <<lease, epochSeq, grants, ended>>
    PROVE  Epochs' /\ KeepsClaims
  BY DEF Epochs, EpochUnique, Given, KeepsClaims, Backs

\* Only an expired row changes hands, and then under a fresh epoch.
LEMMA AcquireRowKeeps ==
    ASSUME TypeOK, Epochs, NEW p \in Proc, AcquireRow(p)
    PROVE  Epochs' /\ KeepsClaims
<1>1. CASE ~MayTake(p)
  <2>1. UNCHANGED <<lease, epochSeq, grants, ended>>
    BY <1>1 DEF AcquireRow
  <2> QED
    BY <2>1, QuietRow
<1>2. CASE MayTake(p) /\ Renews(p)
  <2>0. p # NoProc /\ TTL \in Nat
    BY LeaseAssumption
  <2>1. lease.holder = p /\ lease.left > 0 /\ lease.epoch = epochSeq /\ Given(lease.epoch, p)
    BY <1>2, <2>0 DEF Renews, Epochs
  <2>2. /\ lease' = [holder |-> p, epoch |-> lease.epoch, left |-> TTL]
        /\ UNCHANGED <<epochSeq, ended>>
    BY <1>2 DEF AcquireRow, TermEpoch
  <2>3. grants' = grants
    BY <1>2, <2>1 DEF AcquireRow, TermEpoch, Given
  <2>4. lease.epoch \notin ended
    BY <2>1 DEF Epochs, TypeOK, Time
  <2>5. Epochs'
    BY <2>0, <2>1, <2>2, <2>3, <2>4 DEF Epochs, EpochUnique, Given
  <2>6. KeepsClaims
    BY <2>0, <2>1, <2>2, <2>3 DEF KeepsClaims, Backs
  <2> QED
    BY <2>5, <2>6
<1>3. CASE MayTake(p) /\ ~Renews(p)
  <2>0. p # NoProc /\ TTL \in Nat /\ epochSeq \in Nat /\ lease.left \in Nat
    BY LeaseAssumption DEF TypeOK, Time
  <2>1. lease.left = 0
    BY <1>3, <2>0 DEF MayTake, Renews
  <2>2. /\ lease' = [holder |-> p, epoch |-> epochSeq + 1, left |-> TTL]
        /\ epochSeq' = epochSeq + 1 /\ ended' = ended
        /\ grants' = grants \cup {[epoch |-> epochSeq + 1, to |-> p]}
    BY <1>3 DEF AcquireRow, TermEpoch
  <2>3. epochSeq + 1 \notin ended
    BY <2>0 DEF Epochs, TypeOK
  <2>4. \A g \in grants : g.epoch \in 1..epochSeq
    BY DEF Epochs
  <2>5. EpochUnique'
    BY <2>0, <2>2, <2>4 DEF Epochs, EpochUnique
  <2>6. Epochs'
    BY <2>0, <2>2, <2>3, <2>4, <2>5 DEF Epochs, Given, TypeOK
  <2>7. KeepsClaims
    BY <2>0, <2>1, <2>2 DEF KeepsClaims, Backs
  <2> QED
    BY <2>6, <2>7
<1> QED
  BY <1>1, <1>2, <1>3

\* A release ends the term it names, so no claim on it counts any more.
LEMMA ReleaseRowKeeps ==
    ASSUME TypeOK, Epochs, NEW p \in Proc, NEW e \in Nat, ReleaseRow(p, e)
    PROVE  Epochs' /\ KeepsClaims
<1>1. CASE ~Releases(p, e)
  <2>1. UNCHANGED <<lease, epochSeq, grants, ended>>
    BY <1>1 DEF ReleaseRow
  <2> QED
    BY <2>1, QuietRow
<1>2. CASE Releases(p, e)
  <2>1. /\ lease' = [lease EXCEPT !.left = 0]
        /\ ended' = ended \cup {e} /\ UNCHANGED <<epochSeq, grants>>
    BY <1>2 DEF ReleaseRow
  <2>2. lease.holder # NoProc /\ lease.epoch = e /\ e = epochSeq
    BY <1>2 DEF Releases, Epochs
  <2>3. lease'.holder = lease.holder /\ lease'.epoch = e /\ lease'.left = 0
    BY <2>1, <2>2 DEF TypeOK
  <2>4. Epochs'
    BY <2>1, <2>2, <2>3 DEF Epochs, EpochUnique, Given, TypeOK
  <2>5. KeepsClaims
    BY <2>1, <2>2 DEF KeepsClaims, Backs
  <2> QED
    BY <2>4, <2>5
<1> QED
  BY <1>1, <1>2

LEMMA AdminDeleteKeeps ==
    ASSUME TypeOK, Epochs, AdminDelete
    PROVE  Epochs' /\ KeepsClaims
<1>1. lease' = NoRow /\ UNCHANGED <<epochSeq, grants>>
  BY DEF AdminDelete
<1>2. ended' = IF lease.left > 0 THEN ended \cup {lease.epoch} ELSE ended
  BY DEF AdminDelete
<1>3. lease.holder # NoProc /\ lease.epoch = epochSeq
  BY DEF AdminDelete, Epochs
<1>4. Epochs'
  BY <1>1, <1>2, <1>3 DEF Epochs, EpochUnique, Given, TypeOK, NoRow
<1>5. KeepsClaims
  BY <1>1, <1>2, LeaseAssumption DEF KeepsClaims, Backs, TypeOK, Time
<1> QED
  BY <1>4, <1>5

\* A claim outlives every transaction on the row.
LEMMA ClaimKept ==
    ASSUME KeepsClaims, NEW p \in Proc, NEW e \in Nat, NEW t \in Time, Claim(p, e, t)
    PROVE  /\ [epoch |-> e, to |-> p] \in grants'
           /\ t > 0 /\ e \notin ended' =>
                lease'.holder = p /\ lease'.epoch = e /\ lease'.left >= t
<1>1. [epoch |-> e, to |-> p] \in grants'
  BY DEF KeepsClaims, Claim, Given
<1>2. ASSUME t > 0, e \notin ended'
      PROVE  lease'.holder = p /\ lease'.epoch = e /\ lease'.left >= t
  <2>1. t \in Nat /\ t \in 1..TTL
    BY <1>2, LeaseAssumption DEF Time
  <2>2. Backs(p, e, t)
    BY <1>2 DEF KeepsClaims, Claim
  <2> QED
    BY <1>2, <2>1, <2>2 DEF KeepsClaims, Backs
<1> QED
  BY <1>1, <1>2

\* It is enough to look at the claims a step makes new.
LEMMA NewClaims ==
    ASSUME IInv, TypeOK', Epochs', KeepsClaims,
           \A q \in Proc : held'[q] = held[q] \/ FenceOK(q)',
           \A q \in Proc, k \in Kind : call'[q][k] = call[q][k] \/ CallOK(q, k)',
           \A q \in Proc : release'[q] = release[q] \/ ReleaseOK(q)',
           \A s \in strays' : s \in strays \/ StrayOK(s)',
           writes' \subseteq writes \cup grants
    PROVE  IInv'
<1>1. ASSUME NEW q \in Proc
      PROVE  FenceOK(q)'
  <2>1. CASE held'[q] = held[q] /\ held[q].epoch # 0
    <3>1. held[q].epoch \in Nat /\ held[q].left \in Time
      BY DEF IInv, TypeOK, Fence
    <3>2. Claim(q, held[q].epoch, held[q].left)
      BY <2>1 DEF IInv, Claims, FenceOK
    <3> QED
      BY <2>1, <3>1, <3>2, ClaimKept DEF FenceOK, Claim, Given, Backs
  <2>2. CASE held'[q] = held[q] /\ held[q].epoch = 0
    BY <2>2 DEF FenceOK
  <2> QED
    BY <2>1, <2>2
<1>2. ASSUME NEW q \in Proc, NEW k \in Kind
      PROVE  CallOK(q, k)'
  <2>1. CASE call'[q][k] = call[q][k] /\ call[q][k].st = "granted"
    <3>1. call[q][k].epoch \in Nat /\ Remaining(call[q][k].age) \in Time
      BY LeaseAssumption DEF IInv, TypeOK, Call, Time, Remaining
    <3>2. Claim(q, call[q][k].epoch, Remaining(call[q][k].age))
      BY <2>1 DEF IInv, Claims, CallOK
    <3> QED
      BY <2>1, <3>1, <3>2, ClaimKept DEF CallOK, Claim, Given, Backs, Remaining
  <2>2. CASE call'[q][k] = call[q][k] /\ call[q][k].st # "granted"
    BY <2>2 DEF CallOK
  <2> QED
    BY <2>1, <2>2
<1>3. \A q \in Proc : ReleaseOK(q)'
  BY DEF IInv, Claims, ReleaseOK, Given, KeepsClaims
<1>4. \A s \in strays' : StrayOK(s)'
  BY DEF IInv, Claims, StrayOK, Given, KeepsClaims
<1>5. (writes \subseteq grants)'
  BY DEF IInv, Claims, KeepsClaims
<1> QED
  BY <1>1, <1>2, <1>3, <1>4, <1>5 DEF IInv, Claims

\* Time takes as much from a claim as from the row behind it.
LEMMA InvTick == IInv /\ Tick => IInv'
<1> SUFFICES ASSUME IInv, Tick PROVE IInv'
  OBVIOUS
<1>0. TypeOK /\ TypeOK' /\ TTL \in Nat
  BY TypeTick, LeaseAssumption DEF IInv
<1>a. \A t : t \in Time => t \in Nat /\ Less(t) \in Nat
  BY LeaseAssumption DEF Time, Less
<1>1. /\ lease'.holder = lease.holder /\ lease'.epoch = lease.epoch
      /\ lease'.left = Less(lease.left) /\ lease.left \in Nat
      /\ UNCHANGED <<epochSeq, grants, ended>>
  <2>1. lease \in [holder : Proc \cup {NoProc}, epoch : Nat, left : Time]
    BY <1>0 DEF TypeOK
  <2>2. lease' = [lease EXCEPT !.left = Less(lease.left)] /\ UNCHANGED <<epochSeq, grants, ended>>
    BY DEF Tick
  <2> QED
    BY <1>a, <2>1, <2>2
<1>2. Epochs'
  <2>1. ASSUME lease = NoRow PROVE lease' = NoRow
    <3>1. lease' = [lease EXCEPT !.left = Less(lease.left)] /\ Less(0) = 0
      BY DEF Tick, Less
    <3> QED
      BY <2>1, <3>1 DEF NoRow
  <2> QED
    BY <1>1, <2>1 DEF IInv, Epochs, EpochUnique, Given, Less
<1>3. ASSUME NEW q \in Proc
      PROVE  FenceOK(q)'
  <2>1. /\ held'[q].epoch = held[q].epoch /\ held'[q].left = Less(held[q].left)
        /\ held[q].left \in Nat
    <3>1. held[q] \in Fence
      BY <1>0 DEF TypeOK
    <3>2. held'[q] = [held[q] EXCEPT !.left = Less(held[q].left),
                                     !.alarm = Less(held[q].alarm)]
      BY DEF Tick
    <3> QED
      BY <1>a, <3>1, <3>2 DEF Fence
  <2> QED
    BY <1>1, <2>1 DEF IInv, Claims, FenceOK, Claim, Given, Backs, Less
<1>4. ASSUME NEW q \in Proc, NEW k \in Kind
      PROVE  CallOK(q, k)'
  <2>1. call[q][k] \in Call /\ call'[q][k] = Older(call[q][k])
    <3>1. call[q][k] \in Call
      BY <1>0 DEF TypeOK
    <3>2. call' = [r \in Proc |-> [j \in Kind |-> Older(call[r][j])]]
      BY DEF Tick
    <3> QED
      BY <3>1, <3>2
  <2>2. CASE call[q][k].st = "granted"
    <3>1. CASE call[q][k].age = TTL
      BY <1>0, <1>1, <2>1, <2>2, <3>1
      DEF IInv, Claims, CallOK, Claim, Given, Backs, Older, Remaining
    <3>2. CASE call[q][k].age # TTL
      <4>1. call'[q][k] = [call[q][k] EXCEPT !.age = call[q][k].age + 1]
        BY <2>1, <2>2, <3>2 DEF Older
      <4>2. /\ call'[q][k].age = call[q][k].age + 1 /\ call'[q][k].epoch = call[q][k].epoch
            /\ call[q][k].age \in Nat
        BY <2>1, <4>1 DEF Call, Time
      <4> QED
        BY <1>0, <1>1, <2>2, <4>2
        DEF IInv, Claims, CallOK, Claim, Given, Backs, Less, Remaining
    <3> QED
      BY <3>1, <3>2
  <2>3. CASE call[q][k].st # "granted"
    BY <2>1, <2>3 DEF CallOK, Older, Call
  <2> QED
    BY <2>2, <2>3
<1>5. /\ \A q \in Proc : ReleaseOK(q)'
      /\ \A s \in strays' : StrayOK(s)'
      /\ (writes \subseteq grants)'
  BY <1>1 DEF Tick, IInv, Claims, ReleaseOK, StrayOK, Given
<1> QED
  BY <1>0, <1>2, <1>3, <1>4, <1>5 DEF IInv, Claims

\* A process makes no claim but those the coordinator gave it.
LEMMA InvStep ==
    ASSUME IInv, NEW p \in Proc, Step(p)
    PROVE  IInv'
<1>0. TypeOK /\ Epochs /\ TypeOK'
  BY TypeStep DEF IInv
<1> DEFINE Quiet == UNCHANGED <<lease, epochSeq, grants, ended>>
<1> DEFINE Calls == \A q \in Proc, k \in Kind : call'[q][k] = call[q][k] \/ CallOK(q, k)'
<1> DEFINE Fences == \A q \in Proc : held'[q] = held[q] \/ FenceOK(q)'
<1> DEFINE Rest ==
      /\ \A q \in Proc : release'[q] = release[q] \/ ReleaseOK(q)'
      /\ \A s \in strays' : s \in strays \/ StrayOK(s)'
      /\ writes' \subseteq writes \cup grants
<1>a. ASSUME Quiet, Calls, Fences, Rest PROVE IInv'
  BY <1>0, <1>a, QuietRow, NewClaims
<1>b. ASSUME DropFence(p) PROVE Fences
  BY <1>0, <1>b DEF DropFence, TypeOK, FenceOK, NoFence
<1>c. ASSUME NEW k \in Kind, NEW c, c.st # "granted", call' = [call EXCEPT ![p][k] = c]
      PROVE  Calls
  BY <1>0, <1>c DEF TypeOK, CallOK
<1>d. ASSUME NEW k \in Kind, NEW arm, call[p][k].st = "granted", Quiet,
             Adopt(p, call[p][k], arm)
      PROVE  Fences
  <2>1. ASSUME NEW q \in Proc PROVE q = p \/ held'[q] = held[q]
    BY <1>0, <1>d DEF Adopt, TypeOK
  <2>2. held'[p].epoch = call[p][k].epoch /\ held'[p].left = Remaining(call[p][k].age)
    BY <1>0, <1>d DEF Adopt, TypeOK
  <2>3. FenceOK(p)'
    BY <1>d, <2>2 DEF IInv, Claims, CallOK, FenceOK, Claim, Given, Backs
  <2> QED
    BY <2>1, <2>3
<1>e. \A k \in Kind : \A s \in LeftBy(p, k) : StrayOK(s)'
  BY DEF LeftBy, AcquireBy, StrayOK
<1>f. ASSUME Quiet PROVE \A s \in LeftRelease(p) : StrayOK(s)'
  BY <1>f DEF LeftRelease, ReleaseBy, StrayOK, IInv, Claims, ReleaseOK, Given
<1>g. NoCall.st # "granted" /\ [NoCall EXCEPT !.st = "get"].st # "granted"
  BY DEF NoCall
<1>h. ASSUME NEW k \in Kind, NEW o, Finish(p, k, o)
      PROVE  Calls /\ \A s \in strays' : s \in strays \/ StrayOK(s)'
  BY <1>c, <1>e, <1>g, <1>h DEF Finish
<1>i. ASSUME VoidRenewal(p)
      PROVE  Calls /\ \A s \in strays' : s \in strays \/ StrayOK(s)'
  <2>1. "renew" \in Kind
    BY DEF Kind
  <2>2. StrayOK(AcquireBy(p))'
    BY DEF AcquireBy, StrayOK
  <2>3. \A s \in strays' : s \in strays \/ StrayOK(s)'
    BY <1>i, <2>2 DEF VoidRenewal
  <2> QED
    BY <1>c, <1>g, <1>i, <2>1, <2>3 DEF VoidRenewal
<1>j. "start" \in Kind /\ "watch" \in Kind /\ "renew" \in Kind
  BY DEF Kind
<1>1. CASE Boot(p)
  <2>1. Calls
    BY <1>1, <1>c, <1>g, <1>j DEF Boot
  <2> QED
    BY <1>1, <1>a, <2>1 DEF Boot, coordinator, local, history
<1>2. ASSUME NEW k \in Kind, Ask(p, k)
      PROVE  IInv'
  <2>1. Calls
    BY <1>2, <1>c, <1>g DEF Ask
  <2> QED
    BY <1>2, <1>a, <2>1 DEF Ask, coordinator, local, history
<1>3. ASSUME NEW k \in Kind, AcquireRpc(p, k)
      PROVE  IInv'
  <2>1. Epochs' /\ KeepsClaims
    BY <1>0, <1>3, AcquireRowKeeps DEF AcquireRpc
  <2>2. ASSUME NEW q \in Proc, NEW j \in Kind, call'[q][j] # call[q][j]
        PROVE  q = p /\ j = k
    BY <1>0, <1>3, <2>2 DEF AcquireRpc, TypeOK
  <2>3. CallOK(p, k)'
    <3>1. CASE MayTake(p)
      <4>1. call'[p][k] = [call[p][k] EXCEPT !.st = "granted", !.epoch = TermEpoch(p)]
        BY <1>0, <1>3, <3>1 DEF AcquireRpc, TypeOK
      <4>2. call[p][k] \in Call /\ TTL \in Nat
        BY <1>0, LeaseAssumption DEF TypeOK
      <4>3. call'[p][k].epoch = TermEpoch(p) /\ call'[p][k].age \in 0..TTL
        BY <4>1, <4>2 DEF Call, Time
      <4>4. /\ [epoch |-> TermEpoch(p), to |-> p] \in grants'
            /\ lease' = [holder |-> p, epoch |-> TermEpoch(p), left |-> TTL]
        BY <1>3, <3>1 DEF AcquireRpc, AcquireRow
      <4> QED
        BY <4>2, <4>3, <4>4 DEF CallOK, Claim, Given, Backs, Remaining
    <3>2. CASE ~MayTake(p)
      <4>1. call'[p][k] = Answer("other", call[p][k])
        BY <1>0, <1>3, <3>2 DEF AcquireRpc, TypeOK
      <4> QED
        BY <4>1 DEF CallOK, Answer, NoCall
    <3> QED
      BY <3>1, <3>2
  <2>4. Calls
    BY <2>2, <2>3
  <2> QED
    BY <1>0, <1>3, <2>1, <2>4, NewClaims DEF AcquireRpc, local
<1>4. ASSUME NEW k \in Kind, NEW expired \in BOOLEAN, NEW sees \in BOOLEAN,
             ReadRow(p, k, expired, sees)
      PROVE  IInv'
  <2>1. call[p][k] \in Call
    BY <1>0 DEF TypeOK
  <2>2. \A st \in {"rpc", "other"} : Answer(st, call[p][k]).st # "granted"
    BY <2>1 DEF Answer, NoCall, Call
  <2>3. Calls
    BY <1>4, <1>c, <2>2 DEF ReadRow
  <2> QED
    BY <1>4, <1>a, <2>3 DEF ReadRow, coordinator, local, history
<1>5. ASSUME NEW o \in Outcome, StartReturns(p, o)
      PROVE  IInv'
  <2>1. Quiet /\ release' = release /\ writes' = writes
    BY <1>5 DEF StartReturns, coordinator, history
  <2>2. Calls /\ \A s \in strays' : s \in strays \/ StrayOK(s)'
    BY <1>5, <1>h, <1>j DEF StartReturns
  <2>3. Fences
    <3>1. CASE o = "granted"
      <4>1. call[p]["start"].st = "granted"
        BY <1>5, <3>1 DEF StartReturns, Finish
      <4>2. Adopt(p, call[p]["start"], ~renewing[p])
        BY <1>5, <3>1 DEF StartReturns, BecomeLeader
      <4> QED
        BY <1>d, <1>j, <2>1, <4>1, <4>2, Zenon
    <3>2. CASE o # "granted"
      BY <1>5, <3>2 DEF StartReturns
    <3> QED
      BY <3>1, <3>2
  <2> QED
    BY <1>a, <2>1, <2>2, <2>3
<1>6. ASSUME NEW o \in Outcome, WatchReturns(p, o)
      PROVE  IInv'
  <2>1. Quiet /\ release' = release /\ writes' = writes
    BY <1>6 DEF WatchReturns, coordinator, history
  <2>2. Calls /\ \A s \in strays' : s \in strays \/ StrayOK(s)'
    BY <1>6, <1>h, <1>j DEF WatchReturns
  <2>3. Fences
    <3>1. CASE o = "granted"
      <4>1. call[p]["watch"].st = "granted"
        BY <1>6, <3>1 DEF WatchReturns, Finish
      <4>2. Adopt(p, call[p]["watch"], ~renewing[p])
        BY <1>6, <3>1 DEF WatchReturns, BecomeLeader
      <4> QED
        BY <1>d, <1>j, <2>1, <4>1, <4>2, Zenon
    <3>2. CASE o # "granted"
      BY <1>6, <3>2 DEF WatchReturns
    <3> QED
      BY <3>1, <3>2
  <2> QED
    BY <1>a, <2>1, <2>2, <2>3
<1>7. ASSUME NEW o \in Outcome, RenewReturns(p, o)
      PROVE  IInv'
  <2>1. Quiet /\ release' = release /\ writes' = writes
    BY <1>7 DEF RenewReturns, coordinator, history
  <2>2. Calls /\ \A s \in strays' : s \in strays \/ StrayOK(s)'
    BY <1>7, <1>h, <1>j DEF RenewReturns
  <2>3. Fences
    <3>1. CASE o = "granted" /\ Adopt(p, call[p]["renew"], TRUE)
      <4>1. call[p]["renew"].st = "granted"
        BY <1>7, <3>1 DEF RenewReturns, Finish
      <4> QED
        BY <1>d, <1>j, <2>1, <3>1, <4>1, Zenon
    <3>2. CASE Relinquish(p)
      BY <1>b, <3>2 DEF Relinquish
    <3>3. CASE held' = held
      BY <3>3
    <3> QED
      BY <1>7, <3>1, <3>2, <3>3 DEF RenewReturns
  <2> QED
    BY <1>a, <2>1, <2>2, <2>3
<1>8. CASE DeadlineFires(p)
  <2>1. Fences
    BY <1>8, <1>b DEF DeadlineFires, Relinquish
  <2>2. Calls /\ \A s \in strays' : s \in strays \/ StrayOK(s)'
    BY <1>8, <1>i DEF DeadlineFires
  <2> QED
    BY <1>8, <1>a, <2>1, <2>2 DEF DeadlineFires, coordinator, history
<1>9. CASE Yield(p)
  <2>1. Given(held[p].epoch, p) /\ grants' = grants
    BY <1>9 DEF Yield, Usable, IInv, Claims, FenceOK, Claim, history
  <2>2. release' = [release EXCEPT ![p] = [st |-> "sent", epoch |-> held[p].epoch]]
    BY <1>9 DEF Yield
  <2>3. \A q \in Proc : release'[q] = release[q] \/ ReleaseOK(q)'
    BY <1>0, <2>1, <2>2 DEF TypeOK, ReleaseOK, Given
  <2> QED
    BY <1>9, <1>a, <2>3 DEF Yield, coordinator, local, history
<1>10. CASE ReleaseRpc(p)
  <2>1. release[p].epoch \in Nat
    BY <1>0 DEF TypeOK, Release
  <2>2. Epochs' /\ KeepsClaims
    BY <1>0, <1>10, <2>1, ReleaseRowKeeps DEF ReleaseRpc
  <2>3. release[p] \in Release
    BY <1>0 DEF TypeOK
  <2>4. release'[p].st \in {"done", "refused"} /\ \A q \in Proc \ {p} : release'[q] = release[q]
    BY <1>0, <1>10, <2>3 DEF ReleaseRpc, TypeOK, Release
  <2>5. \A q \in Proc : release'[q] = release[q] \/ ReleaseOK(q)'
    BY <2>4 DEF ReleaseOK
  <2> QED
    BY <1>0, <1>10, <2>2, <2>5, NewClaims DEF ReleaseRpc, local
<1>k. ASSUME release' = [release EXCEPT ![p] = NoRelease]
      PROVE  \A q \in Proc : release'[q] = release[q] \/ ReleaseOK(q)'
  BY <1>0, <1>k DEF TypeOK, ReleaseOK, NoRelease
<1>11. CASE ReleaseReturns(p)
  <2>1. Fences
    BY <1>11, <1>b DEF ReleaseReturns, Relinquish
  <2>2. Calls /\ \A s \in strays' : s \in strays \/ StrayOK(s)'
    BY <1>11, <1>i DEF ReleaseReturns
  <2> QED
    BY <1>11, <1>a, <1>k, <2>1, <2>2 DEF ReleaseReturns, coordinator, history
<1>12. CASE ReleaseFails(p)
  <2>1. Quiet
    BY <1>12 DEF ReleaseFails, coordinator, history
  <2>2. \A s \in strays' : s \in strays \/ StrayOK(s)'
    BY <1>12, <1>f, <2>1 DEF ReleaseFails
  <2> QED
    BY <1>12, <1>a, <1>k, <2>1, <2>2 DEF ReleaseFails, local
<1>13. CASE Crash(p)
  <2>1. Quiet /\ writes' = writes
    BY <1>13 DEF Crash, coordinator, history
  <2>2. Fences
    BY <1>13, <1>b DEF Crash, Exit
  <2>3. \A s \in strays' : s \in strays \/ StrayOK(s)'
    BY <1>13, <1>e, <1>f, <2>1 DEF Crash, Exit
  <2>4. Calls
    BY <1>0, <1>13, <1>g DEF Crash, Exit, TypeOK, CallOK
  <2>5. release' = [release EXCEPT ![p] = NoRelease]
    BY <1>13 DEF Crash, Exit
  <2> QED
    BY <1>a, <1>k, <2>1, <2>2, <2>3, <2>4, <2>5
<1>14. CASE BeginWork(p)
  BY <1>14, <1>a DEF BeginWork, coordinator, history
<1>15. CASE EndWork(p)
  BY <1>15, <1>a DEF EndWork, coordinator, history
<1>16. CASE SendWrite(p)
  <2>1. [epoch |-> held[p].epoch, to |-> p] \in grants
    BY <1>16 DEF SendWrite, Usable, IInv, Claims, FenceOK, Claim, Given
  <2> QED
    BY <1>16, <1>a, <2>1 DEF SendWrite, coordinator, local, history
<1> QED
  BY <1>1, <1>2, <1>3, <1>4, <1>5, <1>6, <1>7, <1>8, <1>9, <1>10, <1>11, <1>12,
     <1>13, <1>14, <1>15, <1>16 DEF Step

LEMMA InvInit == Init => IInv
<1> SUFFICES ASSUME Init PROVE IInv
  OBVIOUS
<1>1. Epochs
  BY DEF Init, Epochs, EpochUnique, NoRow
<1>2. Claims
  BY DEF Init, Claims, FenceOK, ReleaseOK, CallOK, NoFence, NoCall, NoRelease
<1> QED
  BY <1>1, <1>2, TypeInit DEF IInv

LEMMA InvNext == IInv /\ [Next]_vars => IInv'
<1> SUFFICES ASSUME IInv, [Next]_vars PROVE IInv'
  OBVIOUS
<1>0. TypeOK /\ Epochs /\ TypeOK'
  BY TypeNext DEF IInv
<1>1. CASE Tick
  BY <1>1, InvTick
<1>2. CASE AdminDelete
  BY <1>0, <1>2, AdminDeleteKeeps, NewClaims DEF AdminDelete, local
<1>3. ASSUME NEW p \in Proc, Step(p)
      PROVE  IInv'
  BY <1>3, InvStep
<1>4. ASSUME NEW w \in writes, WriteArrives(w)
      PROVE  IInv'
  <2>1. UNCHANGED <<lease, epochSeq, grants, ended>>
    BY <1>4 DEF WriteArrives, history
  <2> QED
    BY <1>0, <1>4, <2>1, QuietRow, NewClaims DEF WriteArrives, local
<1>5. ASSUME NEW s \in strays, StrayArrives(s)
      PROVE  IInv'
  <2>1. s.by \in Proc /\ s.epoch \in Nat
    BY <1>0 DEF TypeOK
  <2>2. AcquireRow(s.by) \/ ReleaseRow(s.by, s.epoch)
    BY <1>5 DEF StrayArrives
  <2>3. Epochs' /\ KeepsClaims
    BY <1>0, <2>1, <2>2, AcquireRowKeeps, ReleaseRowKeeps
  <2> QED
    BY <1>0, <1>5, <2>3, NewClaims DEF StrayArrives, local
<1>6. CASE Lost
  <2>1. UNCHANGED <<lease, epochSeq, grants, ended>>
    BY <1>6 DEF Lost, coordinator, history
  <2> QED
    BY <1>0, <1>6, <2>1, QuietRow, NewClaims DEF Lost, local
<1>7. CASE UNCHANGED vars
  <2>1. UNCHANGED <<lease, epochSeq, grants, ended>>
    BY <1>7 DEF vars
  <2> QED
    BY <1>0, <1>7, <2>1, QuietRow, NewClaims DEF vars
<1> QED
  BY <1>1, <1>2, <1>3, <1>4, <1>5, <1>6, <1>7 DEF Next

\* Epochs and claims stay consistent through every interleaving of requests,
\* late requests, timers, hand-backs, crashes and a deleted row.
THEOREM Invariant == Spec => []IInv
<1>1. Init => IInv
  BY InvInit
<1>2. IInv /\ [Next]_vars => IInv'
  BY InvNext
<1> QED
  BY <1>1, <1>2, PTL DEF Spec

-----------------------------------------------------------------------------
(* What follows from the invariant                                         *)

\* A usable fence of a term that was not ended early is backed by the row, which
\* outlives it.
THEOREM FencesAreBacked == Spec => []FenceBacked
<1>1. IInv => FenceBacked
  <2> SUFFICES ASSUME IInv, NEW p \in Proc, Usable(p), held[p].epoch \notin ended
               PROVE Backs(p, held[p].epoch, held[p].left)
    BY DEF FenceBacked, Backs
  <2> QED
    BY DEF Usable, IInv, Claims, FenceOK, Claim
<1> QED
  BY <1>1, Invariant, PTL

\* Two usable fences of terms that were not ended early belong to one process:
\* the row that backs them has one holder.
THEOREM OneMain == Spec => []MutualExclusion
<1>1. FenceBacked => MutualExclusion
  BY DEF FenceBacked, MutualExclusion
<1> QED
  BY <1>1, FencesAreBacked, PTL

\* No epoch is given to two processes.
THEOREM EpochsAreUnique == Spec => []EpochUnique
<1>1. IInv => EpochUnique
  BY DEF IInv, Epochs
<1> QED
  BY <1>1, Invariant, PTL

\* A release, timely or late, that ends a term ends its sender's own.
THEOREM ReleasesAreOwn == Spec => []ReleaseHitsOwnTerm
<1>1. IInv => ReleaseHitsOwnTerm
  <2> SUFFICES ASSUME IInv PROVE ReleaseHitsOwnTerm
    OBVIOUS
  <2>1. ASSUME NEW p, NEW e, Given(e, p), Releases(p, e)
        PROVE  lease.holder = p
    <3>1. Given(e, lease.holder) /\ EpochUnique
      BY <2>1 DEF IInv, Epochs, Releases
    <3> QED
      BY <2>1, <3>1 DEF EpochUnique, Given
  <2> QED
    BY <2>1 DEF IInv, Claims, ReleaseOK, StrayOK, ReleaseHitsOwnTerm
<1> QED
  BY <1>1, Invariant, PTL

\* Shared memory takes a write only from the newest term ever given out.
THEOREM WritesAreNewest == Spec => NewestTermWrites
<1>1. IInv /\ [Next]_vars =>
        [writerEpoch' # writerEpoch => \A g \in grants : g.epoch <= writerEpoch']_vars
  <2> SUFFICES ASSUME IInv, Next, writerEpoch' # writerEpoch
               PROVE \A g \in grants : g.epoch <= writerEpoch'
    BY DEF vars
  <2>1. ASSUME NEW p \in Proc PROVE AcquireRow(p) => writerEpoch' = writerEpoch
    BY DEF AcquireRow
  <2>2. ASSUME NEW p \in Proc, NEW e PROVE ReleaseRow(p, e) => writerEpoch' = writerEpoch
    BY DEF ReleaseRow
  <2>3. ASSUME NEW p \in Proc PROVE ~Step(p)
    BY <2>1, <2>2 DEF Step, Boot, Ask, AcquireRpc, ReadRow, StartReturns, WatchReturns,
       RenewReturns, DeadlineFires, Yield, ReleaseRpc, ReleaseReturns, ReleaseFails,
       Crash, BeginWork, EndWork, SendWrite, coordinator
  <2>4. ASSUME NEW s \in strays PROVE ~StrayArrives(s)
    <3>1. s.by \in Proc
      BY DEF IInv, TypeOK
    <3> QED
      BY <2>1, <2>2, <3>1 DEF StrayArrives
  <2>5. PICK w \in writes : WriteArrives(w)
    BY <2>3, <2>4 DEF Next, Tick, AdminDelete, Lost, coordinator
  <2>6. writerEpoch' = lease.epoch /\ lease.holder = w.to /\ w.to # NoProc
    BY <2>5, LeaseAssumption DEF WriteArrives, Accepts, IInv, TypeOK, Term
  <2> QED
    BY <2>6 DEF IInv, Epochs
<1> QED
  BY <1>1, Invariant, PTL DEF Spec, NewestTermWrites

\* A transaction on the row is a new term or nothing to the fenced register.
LEMMA AcquireRowMaps ==
    ASSUME IInv, NEW p \in Proc, AcquireRow(p)
    PROVE  FR!Issue(p) \/ UNCHANGED FR!vars
<1>1. CASE ~MayTake(p)
  BY <1>1 DEF AcquireRow, FR!vars
<1>2. CASE MayTake(p) /\ Renews(p)
  BY <1>2 DEF AcquireRow, Renews, FR!vars
<1>3. CASE MayTake(p) /\ ~Renews(p)
  <2>1. epochSeq \in Nat
    BY DEF IInv, TypeOK
  <2> QED
    BY <1>3, <2>1 DEF AcquireRow, FR!Issue
<1> QED
  BY <1>1, <1>2, <1>3

LEMMA ReleaseRowMaps ==
    ASSUME IInv, NEW p \in Proc, NEW e, ReleaseRow(p, e)
    PROVE  UNCHANGED FR!vars
<1>1. lease'.holder = lease.holder
  BY DEF IInv, TypeOK, ReleaseRow
<1> QED
  BY <1>1 DEF ReleaseRow, FR!vars

\* The lease row, its sequence and the fenced upsert implement the fenced
\* register: a takeover is Issue, a deleted row Revoke, an accepted upsert Write.
THEOREM Implements == Spec => ImplementsRegister
<1>1. Init => FR!Init
  BY DEF Init, NoRow, FR!Init
<1>2. IInv /\ [Next]_vars => [FR!Next]_(FR!vars)
  <2> SUFFICES ASSUME IInv, [Next]_vars
               PROVE  FR!Next \/ UNCHANGED FR!vars
    OBVIOUS
  <2>0. \A p \in Proc : \A e : AcquireRow(p) \/ ReleaseRow(p, e) => FR!Next \/ UNCHANGED FR!vars
    BY AcquireRowMaps, ReleaseRowMaps DEF FR!Next
  <2>1. ASSUME NEW p \in Proc, Step(p)
        PROVE  FR!Next \/ UNCHANGED FR!vars
    <3>1. CASE UNCHANGED coordinator
      BY <3>1 DEF coordinator, FR!vars
    <3>2. CASE AcquireRow(p) \/ ReleaseRow(p, release[p].epoch)
      BY <2>0, <3>2
    <3> QED
      BY <2>1, <3>1, <3>2 DEF Step, Boot, Ask, AcquireRpc, ReadRow, StartReturns,
         WatchReturns, RenewReturns, DeadlineFires, Yield, ReleaseRpc, ReleaseReturns,
         ReleaseFails, Crash, BeginWork, EndWork, SendWrite
  <2>2. CASE Tick
    <3>1. lease'.holder = lease.holder
      BY <2>2 DEF IInv, TypeOK, Tick
    <3> QED
      BY <2>2, <3>1 DEF Tick, FR!vars
  <2>3. CASE AdminDelete
    BY <2>3 DEF AdminDelete, NoRow, FR!Next, FR!Revoke
  <2>4. ASSUME NEW w \in writes, WriteArrives(w)
        PROVE  FR!Next \/ UNCHANGED FR!vars
    <3>1. CASE Accepts(w)
      <4>1. w.to # NoProc
        BY LeaseAssumption DEF IInv, TypeOK, Term
      <4>2. lease.holder # NoProc /\ w.epoch = epochSeq
        BY <3>1, <4>1 DEF Accepts, IInv, Epochs
      <4> QED
        BY <2>4, <3>1, <4>2 DEF WriteArrives, FR!Next, FR!Write
    <3>2. CASE ~Accepts(w)
      BY <2>4, <3>2 DEF WriteArrives, FR!vars
    <3> QED
      BY <3>1, <3>2
  <2>5. ASSUME NEW s \in strays, StrayArrives(s)
        PROVE  FR!Next \/ UNCHANGED FR!vars
    <3>1. s.by \in Proc
      BY DEF IInv, TypeOK
    <3> QED
      BY <2>0, <2>5, <3>1 DEF StrayArrives
  <2>6. CASE Lost
    BY <2>6 DEF Lost, coordinator, FR!vars
  <2>7. CASE UNCHANGED vars
    BY <2>7 DEF vars, FR!vars
  <2> QED
    BY <2>1, <2>2, <2>3, <2>4, <2>5, <2>6, <2>7 DEF Next
<1> QED
  BY <1>1, <1>2, Invariant, PTL DEF Spec, ImplementsRegister, FR!Spec

-----------------------------------------------------------------------------
(* What a process keeps in step: fence, timers, work and calls             *)

LocalOK(p) ==
    /\ work[p] # 0 => held[p].epoch = work[p]
    /\ renewing[p] <=> held[p].epoch # 0
    /\ call[p]["renew"].st # "idle" => renewing[p]
    /\ up[p] = "up" => renewing[p] \/ watching[p] \/ call[p]["start"].st # "idle"

\* A step of one process leaves the others' memory alone.
LEMMA OthersUntouched ==
    ASSUME IInv, NEW p \in Proc, NEW q \in Proc, p # q, Step(p)
    PROVE  /\ up'[q] = up[q] /\ held'[q] = held[q] /\ renewing'[q] = renewing[q]
           /\ watching'[q] = watching[q] /\ work'[q] = work[q] /\ call'[q] = call[q]
<1>0. TypeOK
  BY DEF IInv
<1>1. \A k \in Kind, o \in Outcome : Finish(p, k, o) => call'[q] = call[q]
  BY <1>0 DEF TypeOK, Finish
<1>2. VoidRenewal(p) => call'[q] = call[q]
  BY <1>0 DEF TypeOK, VoidRenewal
<1>3. DropFence(p) => held'[q] = held[q] /\ renewing'[q] = renewing[q] /\ work'[q] = work[q]
  BY <1>0 DEF TypeOK, DropFence
<1>4. \A c, arm : Adopt(p, c, arm) => held'[q] = held[q] /\ work'[q] = work[q]
  BY <1>0 DEF TypeOK, Adopt
<1>5. Relinquish(p) => /\ held'[q] = held[q] /\ renewing'[q] = renewing[q]
                       /\ work'[q] = work[q] /\ watching'[q] = watching[q]
  BY <1>0, <1>3 DEF TypeOK, Relinquish
<1>6. \A k \in Kind : BecomeLeader(p, k) =>
        held'[q] = held[q] /\ work'[q] = work[q] /\ renewing'[q] = renewing[q]
  BY <1>0, <1>4 DEF TypeOK, BecomeLeader
<1>7. CASE \E k \in Kind : Ask(p, k) \/ AcquireRpc(p, k)
  BY <1>0, <1>7 DEF TypeOK, Ask, AcquireRpc, local
<1>8. CASE \E k \in Kind, expired, sees \in BOOLEAN : ReadRow(p, k, expired, sees)
  BY <1>0, <1>8 DEF TypeOK, ReadRow, local
<1>9. ASSUME NEW o \in Outcome, StartReturns(p, o) \/ WatchReturns(p, o) \/ RenewReturns(p, o)
      PROVE  /\ up'[q] = up[q] /\ held'[q] = held[q] /\ renewing'[q] = renewing[q]
             /\ watching'[q] = watching[q] /\ work'[q] = work[q] /\ call'[q] = call[q]
  <2>0. "start" \in Kind /\ "watch" \in Kind /\ "renew" \in Kind
    BY DEF Kind
  <2>1. CASE StartReturns(p, o)
    BY <1>0, <1>1, <1>6, <2>0, <2>1 DEF TypeOK, StartReturns
  <2>2. CASE WatchReturns(p, o)
    BY <1>0, <1>1, <1>6, <2>0, <2>2 DEF TypeOK, WatchReturns
  <2>3. CASE RenewReturns(p, o)
    <3>1. (\E c, arm : Adopt(p, c, arm)) => held'[q] = held[q] /\ work'[q] = work[q]
      BY <1>4
    <3>2. \/ (\E c, arm : Adopt(p, c, arm)) /\ UNCHANGED <<renewing, watching>>
          \/ UNCHANGED <<held, renewing, watching, work>>
          \/ Relinquish(p)
      BY <2>3, Zenon DEF RenewReturns
    <3> QED
      BY <1>1, <1>5, <2>0, <2>3, <3>1, <3>2 DEF RenewReturns
  <2> QED
    BY <1>9, <2>1, <2>2, <2>3
<1>10. CASE Boot(p)
  BY <1>0, <1>10 DEF TypeOK, Boot, local
<1>11. CASE DeadlineFires(p) \/ ReleaseReturns(p)
  BY <1>2, <1>5, <1>11 DEF DeadlineFires, ReleaseReturns
<1>12. CASE Yield(p) \/ ReleaseRpc(p) \/ ReleaseFails(p) \/ SendWrite(p)
  BY <1>12 DEF Yield, ReleaseRpc, ReleaseFails, SendWrite, local
<1>13. CASE Crash(p)
  BY <1>0, <1>3, <1>13 DEF TypeOK, Crash, Exit
<1>14. CASE BeginWork(p) \/ EndWork(p)
  BY <1>0, <1>14 DEF TypeOK, BeginWork, EndWork
<1> QED
  BY <1>7, <1>8, <1>9, <1>10, <1>11, <1>12, <1>13, <1>14 DEF Step

\* A process's own step keeps them together.
LEMMA OwnStep ==
    ASSUME IInv, NEW p \in Proc, LocalOK(p), Step(p)
    PROVE  LocalOK(p)'
<1>0. TypeOK
  BY DEF IInv
<1>a. "start" \in Kind /\ "watch" \in Kind /\ "renew" \in Kind
  BY DEF Kind
<1>b. ASSUME DropFence(p)
      PROVE  held'[p].epoch = 0 /\ work'[p] = 0 /\ ~renewing'[p]
  BY <1>0, <1>b DEF TypeOK, DropFence, NoFence
<1>c. ASSUME VoidRenewal(p)
      PROVE  call'[p]["renew"].st = "idle"
  BY <1>0, <1>a, <1>c DEF TypeOK, VoidRenewal, NoCall
<1>d. ASSUME NEW k \in Kind, NEW o, Finish(p, k, o)
      PROVE  call'[p][k].st = "idle" /\ \A j \in Kind \ {k} : call'[p][j] = call[p][j]
  BY <1>0, <1>d DEF TypeOK, Finish, NoCall
<1>e. ASSUME NEW k \in Kind, NEW arm, call[p][k].st = "granted", Adopt(p, call[p][k], arm)
      PROVE  held'[p].epoch # 0 /\ (work'[p] # 0 => held'[p].epoch = work'[p])
  <2>1. /\ held'[p].epoch = call[p][k].epoch
        /\ work'[p] = SurvivingWork(p, call[p][k].epoch)
    BY <1>0, <1>e DEF TypeOK, Adopt
  <2>2. CallOK(p, k)
    BY DEF IInv, Claims
  <2>3. Given(call[p][k].epoch, p)
    BY <1>e, <2>2 DEF CallOK, Claim
  <2>4. \A g \in grants : g.epoch \in 1..epochSeq
    BY DEF IInv, Epochs
  <2>5. call[p][k].epoch \in 1..epochSeq
    BY <2>3, <2>4 DEF Given
  <2>6. epochSeq \in Nat
    BY <1>0 DEF TypeOK
  <2>7. call[p][k].epoch # 0
    BY <2>5, <2>6
  <2> QED
    BY <2>1, <2>7 DEF LocalOK, SurvivingWork
<1>1. ASSUME NEW k \in Kind, Ask(p, k)
      PROVE  LocalOK(p)'
  <2>1. /\ call' = [call EXCEPT ![p][k] = [NoCall EXCEPT !.st = "get"]]
        /\ UNCHANGED <<up, held, renewing, watching, work>>
    BY <1>1 DEF Ask, local
  <2>2. /\ \A j \in Kind \ {k} : call'[p][j] = call[p][j]
        /\ call'[p][k].st = "get"
    BY <1>0, <2>1 DEF TypeOK, NoCall
  <2>3. k = "renew" => renewing[p]
    BY <1>1 DEF Ask, Asks
  <2> QED
    BY <1>a, <2>1, <2>2, <2>3 DEF LocalOK
<1>2. ASSUME NEW k \in Kind, AcquireRpc(p, k)
      PROVE  LocalOK(p)'
  <2>1. /\ call[p][k].st = "rpc" /\ call[p][k] \in Call
        /\ call' = [call EXCEPT ![p][k] =
                       IF MayTake(p) THEN [@ EXCEPT !.st = "granted", !.epoch = TermEpoch(p)]
                       ELSE Answer("other", @)]
        /\ UNCHANGED <<up, held, renewing, watching, work>>
    BY <1>0, <1>2 DEF TypeOK, AcquireRpc, local
  <2>2. \A j \in Kind \ {k} : call'[p][j] = call[p][j]
    BY <1>0, <2>1 DEF TypeOK
  <2>3. call'[p][k].st \in {"granted", "other"}
    BY <1>0, <2>1 DEF TypeOK, Call, Answer, NoCall
  <2> QED
    BY <1>a, <2>1, <2>2, <2>3 DEF LocalOK
<1>3. ASSUME NEW k \in Kind, NEW expired \in BOOLEAN, NEW sees \in BOOLEAN,
             ReadRow(p, k, expired, sees)
      PROVE  LocalOK(p)'
  <2>a. call[p][k] \in Call
    BY <1>0 DEF TypeOK
  <2>b. call[p][k].st = "get"
    BY <1>3 DEF ReadRow
  <2>c. UNCHANGED <<up, held, renewing, watching, work>>
    BY <1>3 DEF ReadRow, local
  <2>d. \E st \in {"rpc", "other"} : call' = [call EXCEPT ![p][k] = Answer(st, call[p][k])]
    BY <1>3 DEF ReadRow
  <2>1. /\ call[p][k].st = "get" /\ call[p][k] \in Call
        /\ \E st \in {"rpc", "other"} : call' = [call EXCEPT ![p][k] = Answer(st, call[p][k])]
        /\ UNCHANGED <<up, held, renewing, watching, work>>
    BY <2>a, <2>b, <2>c, <2>d, Zenon
  <2>2. \A j \in Kind \ {k} : call'[p][j] = call[p][j]
    BY <1>0, <2>1 DEF TypeOK
  <2>3. call'[p][k].st \in {"rpc", "other"}
    BY <1>0, <2>1 DEF TypeOK, Call, Answer, NoCall
  <2> QED
    BY <1>a, <2>1, <2>2, <2>3 DEF LocalOK
<1>4. ASSUME NEW o \in Outcome, StartReturns(p, o)
      PROVE  LocalOK(p)'
  <2>1. /\ call'[p]["renew"] = call[p]["renew"] /\ up' = up
    BY <1>4, <1>a, <1>d DEF StartReturns
  <2>2. CASE o = "granted"
    <3>1. call[p]["start"].st = "granted" /\ Adopt(p, call[p]["start"], ~renewing[p])
      BY <1>4, <2>2 DEF StartReturns, Finish, BecomeLeader
    <3>2. held'[p].epoch # 0 /\ (work'[p] # 0 => held'[p].epoch = work'[p])
      BY <1>a, <1>e, <3>1, Zenon
    <3>3. renewing'[p]
      BY <1>0, <1>4, <2>2 DEF TypeOK, StartReturns, BecomeLeader
    <3> QED
      BY <2>1, <3>2, <3>3 DEF LocalOK
  <2>3. CASE o # "granted"
    <3>1. watching'[p] /\ UNCHANGED <<held, renewing, work>>
      BY <1>0, <1>4, <2>3 DEF TypeOK, StartReturns
    <3> QED
      BY <2>1, <3>1 DEF LocalOK
  <2> QED
    BY <2>2, <2>3
<1>5. ASSUME NEW o \in Outcome, WatchReturns(p, o)
      PROVE  LocalOK(p)'
  <2>1. /\ call'[p]["renew"] = call[p]["renew"] /\ call'[p]["start"] = call[p]["start"]
        /\ up' = up
    BY <1>5, <1>a, <1>d DEF WatchReturns
  <2>2. CASE o = "granted"
    <3>1. call[p]["watch"].st = "granted" /\ Adopt(p, call[p]["watch"], ~renewing[p])
      BY <1>5, <2>2 DEF WatchReturns, Finish, BecomeLeader
    <3>2. held'[p].epoch # 0 /\ (work'[p] # 0 => held'[p].epoch = work'[p])
      BY <1>a, <1>e, <3>1, Zenon
    <3>3. renewing'[p]
      BY <1>0, <1>5, <2>2 DEF TypeOK, WatchReturns, BecomeLeader
    <3> QED
      BY <2>1, <3>2, <3>3 DEF LocalOK
  <2>3. CASE o # "granted"
    BY <1>5, <2>1, <2>3 DEF WatchReturns, LocalOK
  <2> QED
    BY <2>2, <2>3
<1>6. ASSUME NEW o \in Outcome, RenewReturns(p, o)
      PROVE  LocalOK(p)'
  <2>1. /\ call'[p]["renew"].st = "idle" /\ call'[p]["start"] = call[p]["start"]
        /\ up' = up /\ call[p]["renew"].st # "idle"
    BY <1>6, <1>a, <1>d DEF RenewReturns, Finish
  <2>2. CASE o = "granted" /\ Adopt(p, call[p]["renew"], TRUE) /\ UNCHANGED <<renewing, watching>>
    <3>1. call[p]["renew"].st = "granted"
      BY <1>6, <2>2 DEF RenewReturns, Finish
    <3>2. held'[p].epoch # 0 /\ (work'[p] # 0 => held'[p].epoch = work'[p])
      BY <1>a, <1>e, <2>2, <3>1, Zenon
    <3> QED
      BY <2>1, <2>2, <3>2 DEF LocalOK
  <2>3. CASE UNCHANGED <<held, renewing, watching, work>>
    BY <2>1, <2>3 DEF LocalOK
  <2>4. CASE Relinquish(p)
    <3>1. watching'[p] /\ DropFence(p)
      BY <1>0, <2>4 DEF TypeOK, Relinquish
    <3> QED
      BY <1>b, <2>1, <3>1 DEF LocalOK
  <2> QED
    BY <1>6, <2>2, <2>3, <2>4 DEF RenewReturns
<1>7. CASE DeadlineFires(p) \/ ReleaseReturns(p)
  <2>1. Relinquish(p) /\ VoidRenewal(p) /\ up' = up
    BY <1>7 DEF DeadlineFires, ReleaseReturns
  <2>2. watching'[p] /\ DropFence(p)
    BY <1>0, <2>1 DEF TypeOK, Relinquish
  <2> QED
    BY <1>b, <1>c, <2>1, <2>2 DEF LocalOK
<1>8. CASE Yield(p) \/ ReleaseRpc(p) \/ ReleaseFails(p) \/ SendWrite(p)
  BY <1>8 DEF Yield, ReleaseRpc, ReleaseFails, SendWrite, local, LocalOK
<1>9. CASE Boot(p)
  <2>1. /\ call' = [call EXCEPT ![p]["start"] = [NoCall EXCEPT !.st = "get"]]
        /\ UNCHANGED <<held, renewing, watching, work>>
    BY <1>9 DEF Boot, local
  <2>2. call'[p]["renew"] = call[p]["renew"] /\ call'[p]["start"].st = "get"
    BY <1>0, <1>a, <2>1 DEF TypeOK, NoCall
  <2> QED
    BY <2>1, <2>2 DEF LocalOK
<1>10. CASE Crash(p)
  <2>1. up'[p] = "gone" /\ DropFence(p) /\ call'[p]["renew"] = NoCall
    BY <1>0, <1>10, <1>a DEF TypeOK, Crash, Exit
  <2> QED
    BY <1>b, <2>1 DEF LocalOK, NoCall
<1>11. CASE BeginWork(p)
  BY <1>0, <1>11 DEF TypeOK, BeginWork, LocalOK
<1>12. CASE EndWork(p)
  BY <1>0, <1>12 DEF TypeOK, EndWork, LocalOK
<1> QED
  BY <1>1, <1>2, <1>3, <1>4, <1>5, <1>6, <1>7, <1>8, <1>9, <1>10, <1>11, <1>12 DEF Step

LEMMA LocalNext ==
    IInv /\ (\A p \in Proc : LocalOK(p)) /\ [Next]_vars => (\A p \in Proc : LocalOK(p)')
<1> SUFFICES ASSUME IInv, \A q \in Proc : LocalOK(q), [Next]_vars, NEW p \in Proc
             PROVE  LocalOK(p)'
  OBVIOUS
<1>1. CASE UNCHANGED <<up, held, renewing, watching, work, call>>
  BY <1>1 DEF LocalOK
<1>2. CASE Tick
  <2>1. /\ UNCHANGED <<up, renewing, watching, work>>
        /\ held' = [q \in Proc |-> [held[q] EXCEPT !.left = Less(held[q].left),
                                                   !.alarm = Less(held[q].alarm)]]
        /\ call' = [q \in Proc |-> [k \in Kind |-> Older(call[q][k])]]
    BY <1>2 DEF Tick
  <2>2. held[p] \in Fence /\ \A k \in Kind : call[p][k] \in Call
    BY DEF IInv, TypeOK
  <2>3. held'[p].epoch = held[p].epoch
    BY <2>1, <2>2 DEF Fence
  <2>4. \A k \in Kind : call'[p][k].st = call[p][k].st
    BY <2>1, <2>2 DEF Call, Older
  <2>5. "start" \in Kind /\ "renew" \in Kind
    BY DEF Kind
  <2> QED
    BY <2>1, <2>3, <2>4, <2>5 DEF LocalOK
<1>3. ASSUME NEW q \in Proc, Step(q)
      PROVE  LocalOK(p)'
  <2>1. CASE q = p
    BY <1>3, <2>1, OwnStep
  <2>2. CASE q # p
    BY <1>3, <2>2, OthersUntouched DEF LocalOK
  <2> QED
    BY <2>1, <2>2
<1> QED
  BY <1>1, <1>2, <1>3 DEF Next, AdminDelete, WriteArrives, StrayArrives, Lost, local, vars

LEMMA LocalAlways == Spec => [](\A p \in Proc : LocalOK(p))
<1>1. Init => (\A p \in Proc : LocalOK(p))
  <2>1. "start" \in Kind /\ "renew" \in Kind
    BY DEF Kind
  <2> QED
    BY <2>1 DEF Init, LocalOK, NoFence, NoCall
<1>2. IInv /\ (\A p \in Proc : LocalOK(p)) /\ [Next]_vars => (\A p \in Proc : LocalOK(p))'
  BY LocalNext
<1> QED
  BY <1>1, <1>2, Invariant, PTL DEF Spec

\* Fenced work ends with its term.
THEOREM WorkEndsWithTerm == Spec => []WorkBoundToTerm
<1>1. (\A p \in Proc : LocalOK(p)) => WorkBoundToTerm
  BY DEF LocalOK, WorkBoundToTerm
<1> QED
  BY <1>1, LocalAlways, PTL

\* A fence and its renewal timer live and die together.
THEOREM FencesAreRenewed == Spec => []RenewsWhatItHolds
<1>1. (\A p \in Proc : LocalOK(p)) => RenewsWhatItHolds
  BY DEF LocalOK, RenewsWhatItHolds
<1> QED
  BY <1>1, LocalAlways, PTL

\* A running process renews, watches or waits for its start call.
THEOREM NobodyGoesDeaf == Spec => []NeverDeaf
<1>1. (\A p \in Proc : LocalOK(p)) => NeverDeaf
  BY DEF LocalOK, NeverDeaf
<1> QED
  BY <1>1, LocalAlways, PTL
=============================================================================
