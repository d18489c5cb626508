------------------------- MODULE StateJournalProofs -------------------------
(***************************************************************************)
(* Proofs about StateJournal for every number of nodes, entries and epochs: *)
(* a replica always holds one chain below its mark, marks never fall, and   *)
(* what is sealed behind a newer term of a majority never commits.          *)
(***************************************************************************)
EXTENDS StateJournal, FiniteSetTheorems, SequenceTheorems, WellFoundedInduction, TLAPS

Base == [log : Seq(Entry), max : Nat, count : Nat]
JobRec == [st : {"idle", "read", "reread", "start"}, base : Base,
           asked : SUBSET Node, epoch : Nat, id : Id \cup {0}]
Delivered == [to : Node, w : Id, id : Id, batch : Seq(Entry), replace : BOOLEAN]

Shape ==
    /\ job \in [Eligible -> [Job -> JobRec]] /\ prepared \in [Eligible -> Base]
    /\ net \subseteq Delivered

\* Epochs come from the lease: a fence is of its last epoch, and nothing is above it.
LeaseOK ==
    /\ lease.holder # NoNode => lease.epoch > 0
    /\ \A n \in Eligible : fence[n] # 0 => fence[n] = lease.epoch
    /\ \A n \in Eligible, k \in Job :
          job[n][k].st = "reread" => job[n][k].epoch \in 1..lease.epoch
    /\ \A n \in Node : mark[n] <= lease.epoch

\* Writers are known by their term entries and keep their node and epoch; a call
\* and a delivery belong to a writer and to an entry that has been sealed.
Writes(w, n) == w \in 1..sealed /\ writer[w].by = n /\ writer[w].epoch \in 1..lease.epoch

OpenOK(i) ==
    call[i].open =>
        /\ i <= sealed
        /\ \E n \in Eligible : Writes(call[i].w, n)
        /\ call[i].kind = "term" => call[i].w = i
NetOK(d) ==
    /\ d.id <= sealed
    /\ \E n \in Eligible : Writes(d.w, n)
    /\ LastEpoch(d.batch) <= lease.epoch
    /\ ~d.replace => Len(d.batch) = 1 /\ d.batch[1].epoch = writer[d.w].epoch
WorkOK ==
    /\ \A n \in Eligible : acting[n] # 0 => Writes(acting[n], n)
    /\ \A i \in Id : OpenOK(i)
    /\ \A d \in net : NetOK(d)

\* Restores under way hold chains below the highest epoch they have seen.
BaseOK(b) == Chain(b.log) /\ LastEpoch(b.log) <= b.max
BasesOK ==
    /\ \A n \in Eligible : BaseOK(prepared[n])
    /\ \A n \in Eligible, k \in Job : BaseOK(job[n][k].base)

\* Replica p will not give call i a copy any more.
Shut(i, p) ==
    /\ p # writer[call[i].w].by
    /\ mark[p] > writer[call[i].w].epoch
    /\ call[i].reply[p] \notin {"ok", "retry"}
    /\ \A d \in net : d.id = i /\ d.to = p => ~d.replace /\ d.w = call[i].w

\* A majority is shut for every late entry whose call is still open.
LateOK ==
    \A i \in late :
        /\ i <= sealed
        /\ call[i].open => \E Q \in SUBSET Node :
                               Cardinality(Q) >= Quorum /\ \A p \in Q : Shut(i, p)
CommittedOK == \A c \in committed : c.id <= sealed

Placed == TypeOK /\ Shape /\ LeaseOK /\ WorkOK /\ BasesOK /\ LogsRestart
IInv == Placed /\ LateOK /\ CommittedOK /\ LateNeverCommits
-----------------------------------------------------------------------------
(* Logs *)

\* An entry that follows the last one extends a chain.
LEMMA ChainAppend ==
    ASSUME NEW l \in Seq(Entry), NEW x \in Entry, Chain(l),
           x.seq = LastSeq(l) + 1, x.prev = LastHash(l), LastEpoch(l) <= x.epoch,
           x.epoch > LastEpoch(l) => x.kind = "term"
    PROVE  /\ Append(l, x) \in Seq(Entry) /\ Chain(Append(l, x))
           /\ LastEpoch(Append(l, x)) = x.epoch /\ LastSeq(Append(l, x)) = LastSeq(l) + 1
<1> DEFINE k == Append(l, x)
<1>1. /\ k \in Seq(Entry) /\ k # <<>> /\ Len(k) = Len(l) + 1
      /\ \A i \in 1..Len(l) : k[i] = l[i]
      /\ k[Len(l) + 1] = x
  BY AppendProperties
<1>2. Len(l) \in Nat /\ (l # <<>> => Len(l) >= 1) /\ (l = <<>> => Len(l) = 0)
  BY LenProperties, EmptySeq
<1> HIDE DEF k
<1>3. LastEpoch(k) = x.epoch /\ LastSeq(k) = LastSeq(l) + 1
  BY <1>1, <1>2 DEF LastEpoch, LastSeq, Last
<1>4. (k[1].seq = 1 /\ k[1].prev = 0) \/ (k[1].seq # 1 /\ k[1].kind = "snapshot")
  <2>1. CASE l = <<>>
    <3>1. k[1] = x /\ x.seq = 1 /\ x.prev = 0
      BY <1>1, <1>2, <2>1 DEF LastSeq, LastHash
    <3> QED BY <3>1
  <2>2. CASE l # <<>>
    BY <1>1, <1>2, <2>2 DEF Chain
  <2> QED BY <2>1, <2>2
<1>5. ASSUME NEW i \in 1..Len(k) - 1 PROVE Follows(k[i + 1], k[i])
  <2>1. CASE i < Len(l)
    <3>1. k[i] = l[i] /\ k[i + 1] = l[i + 1] /\ i \in 1..Len(l) - 1
      BY <1>1, <1>2, <2>1
    <3> QED BY <3>1 DEF Chain
  <2>2. CASE i = Len(l)
    <3>1. k[i] = Last(l) /\ k[i + 1] = x /\ l # <<>>
      BY <1>1, <1>2, <2>2 DEF Last
    <3> QED BY <3>1 DEF Follows, LastSeq, LastHash, LastEpoch
  <2> QED BY <1>1, <1>2, <2>1, <2>2
<1>6. Chain(k)
  BY <1>4, <1>5 DEF Chain
<1> QED BY <1>1, <1>3, <1>6 DEF k

\* A nonempty set of positions has a last one.
LEMMA LastPosition ==
    ASSUME NEW n \in Nat, NEW S \in SUBSET (1..n), S # {}
    PROVE  \E i \in S : \A j \in S : j <= i
<1> DEFINE T == {n - i : i \in S}
<1>1. T \subseteq Nat /\ T # {}
  <2>1. \A i \in S : n - i \in Nat
    OBVIOUS
  <2> QED BY <2>1
<1>2. \E x \in T : \A y \in T : ~ (<<y, x>> \in OpToRel(<, Nat))
  <2> HIDE DEF T
  <2> QED BY <1>1, WFMin, NatLessThanWellFounded
<1>3. PICK i \in S : \A y \in T : ~ (<<y, n - i>> \in OpToRel(<, Nat))
  BY <1>2
<1>4. \A j \in S : ~ (n - j < n - i)
  <2> TAKE j \in S
  <2>1. n - j \in T /\ n - j \in Nat /\ n - i \in Nat
    BY <1>1
  <2> HIDE DEF T
  <2>2. ~ (<<n - j, n - i>> \in OpToRel(<, Nat))
    BY <1>3, <2>1
  <2> QED BY <2>1, <2>2 DEF OpToRel
<1>5. \A j \in S : j <= i
  BY <1>4
<1> QED BY <1>5

\* Compaction keeps a chain and its end.
LEMMA CompactChain ==
    ASSUME NEW l \in Seq(Entry), Chain(l), NEW seq
    PROVE  /\ Compact(l, seq) \in Seq(Entry) /\ Chain(Compact(l, seq))
           /\ LastEpoch(Compact(l, seq)) = LastEpoch(l)
<1> DEFINE at == {i \in 1..Len(l) : l[i].kind = "snapshot" /\ l[i].seq <= seq}
<1>1. CASE at = {}
  BY <1>1 DEF Compact
<1>2. CASE at # {}
  <2> DEFINE f == CHOOSE i \in at : \A j \in at : j <= i
             k == SubSeq(l, f, Len(l))
  <2>1. Len(l) \in Nat /\ \A i \in 1..Len(l) : l[i] \in Entry
    BY LenProperties, ElementOfSeq
  <2>2. f \in at
    <3>1. \E i \in at : \A j \in at : j <= i
      BY <1>2, <2>1, LastPosition
    <3> HIDE DEF at
    <3> QED BY <3>1
  <2>3. f \in 1..Len(l) /\ l[f].kind = "snapshot"
    BY <2>2
  <2>4. Compact(l, seq) = k
    BY <1>2 DEF Compact
  <2> HIDE DEF f, at
  <2>5. /\ k \in Seq(Entry) /\ Len(k) = Len(l) - f + 1
        /\ \A i \in 1..Len(l) - f + 1 : k[i] = l[f + i - 1]
    BY <2>1, <2>3, SubSeqProperties
  <2> HIDE DEF k
  <2>6. k # <<>> /\ l # <<>> /\ Last(k) = Last(l)
    BY <2>1, <2>3, <2>5, EmptySeq DEF Last
  <2>7. (k[1].seq = 1 /\ k[1].prev = 0) \/ (k[1].seq # 1 /\ k[1].kind = "snapshot")
    <3>1. k[1] = l[f]
      BY <2>1, <2>3, <2>5
    <3>2. CASE f = 1
      BY <2>3, <2>6, <3>1, <3>2 DEF Chain
    <3>3. CASE f # 1
      <4>1. f - 1 \in 1..Len(l) - 1 /\ (f - 1) + 1 = f
        BY <2>1, <2>3, <3>3
      <4>2. Follows(l[f], l[f - 1])
        BY <4>1 DEF Chain
      <4>3. l[f - 1].seq \in Nat \ {0} /\ l[f].seq = l[f - 1].seq + 1
        <5>1. l[f - 1] \in Entry
          BY <2>1, <4>1
        <5> QED BY <4>2, <5>1 DEF Follows, Entry
      <4> QED BY <2>3, <3>1, <4>3
    <3> QED BY <3>2, <3>3
  <2>8. ASSUME NEW i \in 1..Len(k) - 1 PROVE Follows(k[i + 1], k[i])
    <3> DEFINE j == f + i - 1
    <3>1. j \in 1..Len(l) - 1 /\ k[i] = l[j] /\ k[i + 1] = l[j + 1]
      BY <2>1, <2>3, <2>5
    <3> HIDE DEF j
    <3> QED BY <3>1 DEF Chain
  <2>9. Chain(k) /\ LastEpoch(k) = LastEpoch(l)
    BY <2>6, <2>7, <2>8 DEF Chain, LastEpoch
  <2> QED BY <2>4, <2>5, <2>9
<1> QED BY <1>1, <1>2

LEMMA LastTypes ==
    ASSUME NEW l \in Seq(Entry)
    PROVE  LastSeq(l) \in Nat /\ LastEpoch(l) \in Nat /\ LastHash(l) \in Nat
<1>1. CASE l = <<>>
  BY <1>1 DEF LastSeq, LastEpoch, LastHash
<1>2. CASE l # <<>>
  <2>1. Last(l) \in Entry
    BY <1>2, LenProperties, ElementOfSeq, EmptySeq DEF Last
  <2> QED BY <1>2, <2>1 DEF LastSeq, LastEpoch, LastHash, Entry, Id
<1> QED BY <1>1, <1>2

LEMMA ReplayType ==
    ASSUME NEW l \in Seq(Entry)
    PROVE  Replay(l) \subseteq Id
<1>0. \A i \in 1..Len(l) : l[i].has \subseteq Id
  <2>1. \A x \in Entry : x.has \subseteq Id
    BY DEF Entry
  <2>2. \A i \in 1..Len(l) : l[i] \in Entry
    BY ElementOfSeq
  <2> QED BY <2>1, <2>2
<1>1. Len(l) \in Nat
  BY LenProperties
<1> DEFINE from == {i \in 1..Len(l) : l[i].kind = "snapshot"}
           start == IF from = {} THEN 1 ELSE CHOOSE i \in from : \A j \in from : j <= i
<1>2. start \in 1..Len(l) \/ start = 1
  <2>1. CASE from # {}
    <3>1. \E i \in from : \A j \in from : j <= i
      BY <1>1, <2>1, LastPosition
    <3>2. (CHOOSE i \in from : \A j \in from : j <= i) \in from
      <4> HIDE DEF from
      <4> QED BY <3>1
    <3> QED BY <2>1, <3>2
  <2> QED BY <2>1
<1>3. \A i \in start..Len(l) : l[i].has \subseteq Id
  <2> HIDE DEF start
  <2>1. start..Len(l) \subseteq 1..Len(l)
    BY <1>1, <1>2
  <2> QED BY <1>0, <2>1
<1>4. Replay(l) = UNION {l[i].has : i \in start..Len(l)}
  BY DEF Replay
<1> HIDE DEF start
<1> QED BY <1>3, <1>4
-----------------------------------------------------------------------------
(* Sealing and writing *)

\* What a step may do to writers and counters: nothing known changes its owner.
Grows ==
    /\ sealed' \in Nat /\ sealed' >= sealed
    /\ lease'.epoch \in Nat /\ lease'.epoch >= lease.epoch
    /\ \A w \in 1..sealed : writer'[w].by = writer[w].by /\ writer'[w].epoch = writer[w].epoch

MarksGrow == \A p \in Node : mark'[p] >= mark[p]

LEMMA Basics ==
    ASSUME TypeOK
    PROVE  /\ \A n \in Node : log[n] \in Seq(Entry) /\ mark[n] \in Nat
           /\ sealed \in Nat /\ sealed <= MaxEntry /\ lease.epoch \in Nat
           /\ 1..sealed \subseteq Id
           /\ Eligible \subseteq Node /\ NoNode \notin Node /\ 0 \notin Id
           /\ IsFiniteSet(Node) /\ Id \subseteq Nat
BY JournalAssumption DEF TypeOK, Id

LEMMA SealType ==
    ASSUME TypeOK, NEW n \in Eligible, NEW e \in Nat \ {0}, NEW l \in Seq(Entry),
           NEW kind \in {"term", "change", "snapshot"}, NEW has \in SUBSET Id,
           sealed < MaxEntry
    PROVE  /\ Seal(n, e, kind, l, has) \in Entry
           /\ Seal(n, e, kind, l, has).id = sealed + 1
           /\ Seal(n, e, kind, l, has).epoch = e
           /\ Seal(n, e, kind, l, has).kind = kind
           /\ Seal(n, e, kind, l, has).by = n
           /\ Seal(n, e, kind, l, has).seq = LastSeq(l) + 1
           /\ Seal(n, e, kind, l, has).prev = LastHash(l)
<1>1. sealed + 1 \in Id
  BY JournalAssumption DEF TypeOK, Id
<1>2. n \in Node /\ LastSeq(l) + 1 \in Nat \ {0} /\ LastHash(l) \in Nat
  BY JournalAssumption, LastTypes
<1>3. (IF kind = "change" THEN {sealed + 1} ELSE has) \in SUBSET Id
  BY <1>1
<1> QED BY <1>1, <1>2, <1>3 DEF Seal, Entry

\* A written entry leaves a chain below the mark, and the marks do not fall.
LEMMA Written ==
    ASSUME TypeOK, LogsRestart, NEW n \in Eligible, NEW l \in Seq(Entry), NEW x \in Entry,
           Chain(l), x.id = sealed + 1, x.seq = LastSeq(l) + 1, x.prev = LastHash(l),
           LastEpoch(l) <= x.epoch, x.epoch > LastEpoch(l) => x.kind = "term",
           sealed < MaxEntry, Write(n, x, l)
    PROVE  /\ log' \in [Node -> Seq(Entry)] /\ mark' \in [Node -> Nat]
           /\ sealed' = sealed + 1 /\ sealed' \in 0..MaxEntry
           /\ late' \in SUBSET Id
           /\ LogsRestart'
           /\ MarksGrow
           /\ \A p \in Node : mark'[p] = mark[p] \/ mark'[p] = x.epoch
           /\ mark[n] <= x.epoch => \A p \in Node \ {n} : mark'[p] = mark[p]
<1>0. /\ log \in [Node -> Seq(Entry)] /\ mark \in [Node -> Nat] /\ n \in Node
      /\ sealed \in 0..MaxEntry /\ MaxEntry \in Nat /\ late \subseteq Id
      /\ x.epoch \in Nat /\ x.id \in Id
  BY JournalAssumption DEF TypeOK, Entry
<1>1. /\ log' = [log EXCEPT ![n] = Append(l, x)]
      /\ mark' = [mark EXCEPT ![n] = Larger(@, x.epoch)]
      /\ sealed' = x.id
      /\ late' \in {late, late \cup {x.id}}
  BY DEF Write
<1>2. /\ Append(l, x) \in Seq(Entry) /\ Chain(Append(l, x))
      /\ LastEpoch(Append(l, x)) = x.epoch
  BY ChainAppend
<1>3. log' \in [Node -> Seq(Entry)]
  BY <1>0, <1>1, <1>2
<1>4. mark' \in [Node -> Nat]
  BY <1>0, <1>1 DEF Larger
<1>5. /\ MarksGrow /\ mark'[n] >= x.epoch
      /\ \A p \in Node : mark'[p] = mark[p] \/ mark'[p] = x.epoch
      /\ \A p \in Node \ {n} : mark'[p] = mark[p]
  BY <1>0, <1>1 DEF Larger, MarksGrow
<1>6. LogsRestart'
  <2> SUFFICES ASSUME NEW p \in Node PROVE Chain(log'[p]) /\ LastEpoch(log'[p]) <= mark'[p]
    BY DEF LogsRestart
  <2>1. CASE p = n
    BY <1>0, <1>1, <1>2, <1>5, <2>1
  <2>2. CASE p # n
    BY <1>0, <1>1, <1>5, <2>2 DEF LogsRestart
  <2> QED BY <2>1, <2>2
<1>7. sealed' = sealed + 1 /\ sealed' \in 0..MaxEntry /\ late' \in SUBSET Id
  BY <1>0, <1>1
<1> QED BY <1>3, <1>4, <1>5, <1>6, <1>7

\* Known writers stay known, and so do calls and deliveries.
LEMMA WritesKept ==
    ASSUME TypeOK, Grows, NEW w, NEW n, Writes(w, n)
    PROVE  Writes(w, n)'
<1>1. w \in 1..sealed /\ sealed \in Nat /\ lease.epoch \in Nat
  BY Basics DEF Writes
<1> QED BY <1>1 DEF Grows, Writes

LEMMA NetKept ==
    ASSUME Placed, Grows, NEW d \in net
    PROVE  NetOK(d)'
<1>1. /\ NetOK(d) /\ TypeOK /\ sealed \in Nat /\ lease.epoch \in Nat
      /\ d \in Delivered
  BY Basics DEF Placed, WorkOK, Shape
<1>2. PICK n \in Eligible : Writes(d.w, n)
  BY <1>1 DEF NetOK
<1>3. Writes(d.w, n)'
  BY <1>1, <1>2, WritesKept
<1>4. writer'[d.w].epoch = writer[d.w].epoch
  BY <1>2 DEF Grows, Writes
<1>5. LastEpoch(d.batch) \in Nat /\ d.id \in Nat
  BY <1>1, LastTypes DEF Delivered, Id
<1>6. d.id <= sealed' /\ LastEpoch(d.batch) <= lease'.epoch
  BY <1>1, <1>5 DEF NetOK, Grows
<1> QED BY <1>1, <1>3, <1>4, <1>6 DEF NetOK

LEMMA OpenKept ==
    ASSUME Placed, Grows, NEW i \in Id, call[i].open,
           call'[i].w = call[i].w, call'[i].kind = call[i].kind
    PROVE  OpenOK(i)'
<1>1. OpenOK(i) /\ TypeOK /\ sealed \in Nat /\ i \in Nat
  BY Basics DEF Placed, WorkOK
<1>2. PICK n \in Eligible : Writes(call[i].w, n)
  BY <1>1 DEF OpenOK
<1>3. Writes(call[i].w, n)'
  <2> DEFINE w == call[i].w
  <2>1. Writes(w, n)
    BY <1>2
  <2>2. w' = w
    OBVIOUS
  <2>3. w \in 1..sealed' /\ writer'[w].by = n /\ writer'[w].epoch \in 1..lease'.epoch
    BY <1>1, <2>1, Basics DEF Writes, Grows
  <2> QED BY <2>2, <2>3 DEF Writes
<1>4. i <= sealed'
  BY <1>1 DEF OpenOK, Grows
<1>5. call'[i].kind = "term" => call'[i].w = i
  BY <1>1 DEF OpenOK
<1> QED BY <1>3, <1>4, <1>5 DEF OpenOK

LEMMA ActingKept ==
    ASSUME Placed, Grows, NEW n \in Eligible, acting[n] # 0, acting'[n] = acting[n]
    PROVE  Writes(acting[n], n)'
<1>1. Writes(acting[n], n) /\ TypeOK
  BY DEF Placed, WorkOK
<1>2. acting[n] \in 1..sealed' /\ writer'[acting[n]].by = n
      /\ writer'[acting[n]].epoch \in 1..lease'.epoch
  BY <1>1, Basics DEF Writes, Grows
<1> QED BY <1>2 DEF Writes

\* What the writer sends with a new entry.
LEMMA SentOK ==
    ASSUME NEW n \in Eligible, NEW x \in Entry, NEW w \in Id,
           x.id <= sealed', x.epoch <= lease'.epoch, Writes(w, n)', writer'[w].epoch = x.epoch,
           NEW d \in Sent(n, w, x)
    PROVE  d \in Delivered /\ NetOK(d)' /\ d.id = x.id /\ d.w = w /\ ~d.replace
<1>1. PICK p \in Node \ {n} : d = Delivery(p, w, x.id, <<x>>, FALSE)
  BY DEF Sent
<1>2. <<x>> \in Seq(Entry) /\ Len(<<x>>) = 1 /\ <<x>>[1] = x /\ <<x>> # <<>>
  BY EmptySeq
<1>3. LastEpoch(<<x>>) = x.epoch
  BY <1>2 DEF LastEpoch, Last
<1>4. x.id \in Id
  BY DEF Entry
<1>5. /\ d \in Delivered /\ d.id = x.id /\ d.w = w /\ ~d.replace /\ d.batch = <<x>>
  BY <1>1, <1>2, <1>4 DEF Delivery, Delivered
<1>6. NetOK(d)'
  BY <1>2, <1>3, <1>5 DEF NetOK
<1> QED BY <1>5, <1>6
-----------------------------------------------------------------------------
(* Commits *)

\* An entry sealed behind a majority collects no majority.
LEMMA NoLateCommit ==
    ASSUME Placed, LateOK, NEW i \in Open, NEW seen \in SUBSET Node, Commits(i, seen)
    PROVE  i \in Id /\ i <= sealed /\ i \notin late
<1>1. TypeOK /\ i \in Id /\ call[i].open /\ i <= sealed
  BY DEF Placed, WorkOK, OpenOK, Open
<1>2. PICK n \in Eligible : Writes(call[i].w, n)
  BY <1>1 DEF Placed, WorkOK, OpenOK
<1>3. writer[call[i].w].by \in Node
  BY <1>1, <1>2, Basics DEF Writes
<1> DEFINE A == Acks(i, seen)
<1>4. A \in SUBSET Node /\ Cardinality(A) >= Quorum
  BY <1>3 DEF Acks, Commits
<1>5. ASSUME i \in late PROVE FALSE
  <2>1. PICK Q \in SUBSET Node : Cardinality(Q) >= Quorum /\ \A p \in Q : Shut(i, p)
    BY <1>1, <1>5 DEF LateOK
  <2>2. Q \cap A = {}
    <3>1. ASSUME NEW p \in Q, p \in A PROVE FALSE
      BY <2>1, <3>1 DEF Shut, Acks
    <3> QED BY <3>1
  <2>3. IsFiniteSet(Node) /\ Cardinality(Node) \in Nat
    BY JournalAssumption, FS_CardinalityType
  <2>4. /\ IsFiniteSet(Q) /\ Cardinality(Q) \in Nat
        /\ IsFiniteSet(A) /\ Cardinality(A) \in Nat
    <3> HIDE DEF A
    <3> QED BY <1>4, <2>3, FS_Subset, FS_CardinalityType
  <2>5. Cardinality(Q) + Cardinality(A) > Cardinality(Node)
    <3> HIDE DEF A
    <3> QED BY <1>4, <2>1, <2>3, <2>4 DEF Quorum
  <2>6. Q \cap A # {}
    <3> HIDE DEF A
    <3> QED BY <1>4, <2>3, <2>5, FS_MajoritiesIntersect
  <2> QED BY <2>2, <2>6
<1> QED BY <1>1, <1>5

\* What a step may do to the histories.
LEMMA CommitKept ==
    ASSUME Placed, LateOK, CommittedOK, LateNeverCommits, sealed' \in Nat, sealed' >= sealed,
           \A j \in late' : j \in late \/ j > sealed,
           \/ committed' = committed
           \/ \E i \in Open : \E seen \in SUBSET Node : Commits(i, seen) /\ Commit(i)
    PROVE  /\ committed' \subseteq [id : Id, kind : {"term", "change", "snapshot"}, clean : BOOLEAN]
           /\ CommittedOK' /\ LateNeverCommits'
<1>0. TypeOK /\ sealed \in Nat /\ Id \subseteq Nat
  BY Basics DEF Placed
<1>1. committed \subseteq [id : Id, kind : {"term", "change", "snapshot"}, clean : BOOLEAN]
  BY <1>0 DEF TypeOK
<1>2. \A c \in committed : c.id \in Nat /\ c.id <= sealed /\ c.id \notin late
  BY <1>0, <1>1 DEF CommittedOK, LateNeverCommits
<1>3. CASE committed' = committed
  BY <1>0, <1>1, <1>2, <1>3 DEF CommittedOK, LateNeverCommits
<1>4. CASE \E i \in Open : \E seen \in SUBSET Node : Commits(i, seen) /\ Commit(i)
  <2>1. PICK i \in Open : \E seen \in SUBSET Node : Commits(i, seen) /\ Commit(i)
    BY <1>4
  <2>2. i \in Id /\ i <= sealed /\ i \notin late
    BY <2>1, NoLateCommit
  <2>3. PICK u \in BOOLEAN :
           committed' = committed \cup {[id |-> i, kind |-> call[i].kind, clean |-> u]}
    <3>1. Undisturbed(call[i].w) \in BOOLEAN
      BY DEF Undisturbed
    <3> QED BY <2>1, <3>1 DEF Commit
  <2>4. call[i].kind \in {"term", "change", "snapshot"}
    BY <1>0, <2>2 DEF TypeOK
  <2>5. \A c \in committed' : c \in committed \/ c = [id |-> i, kind |-> call[i].kind, clean |-> u]
    BY <2>3
  <2>6. \A c \in committed' : c.id \in Nat /\ c.id <= sealed /\ c.id \notin late
    BY <1>0, <1>2, <2>2, <2>5
  <2>7. CommittedOK' /\ LateNeverCommits'
    BY <1>0, <2>6 DEF CommittedOK, LateNeverCommits
  <2>8. committed' \subseteq [id : Id, kind : {"term", "change", "snapshot"}, clean : BOOLEAN]
    BY <1>1, <2>2, <2>3, <2>4
  <2> QED BY <2>7, <2>8
<1> QED BY <1>3, <1>4
-----------------------------------------------------------------------------
(* Late entries *)

\* A majority that is shut for a late entry stays shut.
LEMMA LateKept ==
    ASSUME Placed, LateOK, Grows, MarksGrow, mark' \in [Node -> Nat], NEW i \in late,
           call'[i].open => call[i].open /\ call'[i].w = call[i].w,
           call'[i].open => \A p \in Node :
               Shut(i, p) => call'[i].reply[p] \notin {"ok", "retry"},
           call'[i].open => \A d \in net' :
               d.id = i /\ d \notin net => ~Shut(i, d.to)
    PROVE  /\ i <= sealed'
           /\ call'[i].open => \E Q \in SUBSET Node :
                                  Cardinality(Q) >= Quorum /\ \A p \in Q : Shut(i, p)'
<1>1. TypeOK /\ i \in Id /\ i \in Nat /\ sealed \in Nat /\ i <= sealed
  BY Basics DEF Placed, LateOK, TypeOK
<1>2. i <= sealed'
  BY <1>1 DEF Grows
<1>3. ASSUME call'[i].open
      PROVE  \E Q \in SUBSET Node : Cardinality(Q) >= Quorum /\ \A p \in Q : Shut(i, p)'
  <2>1. call[i].open /\ call'[i].w = call[i].w
    BY <1>3
  <2>2. PICK Q \in SUBSET Node : Cardinality(Q) >= Quorum /\ \A p \in Q : Shut(i, p)
    BY <2>1 DEF LateOK
  <2>3. ASSUME NEW p \in Q PROVE Shut(i, p)'
    <3> DEFINE w == call[i].w
    <3>1. Shut(i, p) /\ p \in Node
      BY <2>2
    <3>2. PICK n \in Eligible : Writes(w, n)
      BY <1>1, <2>1 DEF Placed, WorkOK, OpenOK
    <3>3. /\ writer'[w].by = writer[w].by /\ writer'[w].epoch = writer[w].epoch
          /\ writer[w].epoch \in Nat
      BY <3>2, <1>1, Basics DEF Grows, Writes
    <3>4. mark'[p] >= mark[p] /\ mark'[p] \in Nat /\ mark[p] \in Nat
      BY <1>1, <3>1, Basics DEF MarksGrow
    <3>5. p # writer'[w].by /\ mark'[p] > writer'[w].epoch
      BY <3>1, <3>3, <3>4 DEF Shut
    <3>6. call'[i].reply[p] \notin {"ok", "retry"}
      BY <1>3, <3>1
    <3>7. \A d \in net' : d.id = i /\ d.to = p => ~d.replace /\ d.w = w
      BY <1>3, <3>1 DEF Shut
    <3>8. w = call'[i].w
      BY <2>1
    <3> QED BY <3>5, <3>6, <3>7, <3>8 DEF Shut
  <2> QED BY <2>2, <2>3
<1> QED BY <1>2, <1>3

\* Of an entry just sealed, no replica beyond the sender can have a word.
LEMMA NewLate ==
    ASSUME Placed, Grows, MarksGrow, mark' \in [Node -> Nat],
           NEW n \in Eligible, NEW x \in Entry, NEW w \in Id,
           x.id = sealed + 1, sealed' = sealed + 1, mark[n] <= x.epoch, Outdated(x.epoch),
           writer'[w].by = n, writer'[w].epoch = x.epoch, call'[x.id] = Started(x, w),
           net' \subseteq net \cup Sent(n, w, x)
    PROVE  \E Q \in SUBSET Node : Cardinality(Q) >= Quorum /\ \A p \in Q : Shut(x.id, p)'
<1> DEFINE Q == {m \in Node : mark[m] > x.epoch}
<1>1. TypeOK /\ sealed \in Nat /\ x.epoch \in Nat /\ \A p \in Node : mark[p] \in Nat
  BY Basics DEF Placed, Entry
<1>2. Q \in SUBSET Node /\ Cardinality(Q) >= Quorum
  BY DEF Outdated
<1>3. ASSUME NEW p \in Q PROVE Shut(x.id, p)'
  <2>1. p \in Node /\ mark[p] > x.epoch /\ p # n
    BY <1>1
  <2>2. mark'[p] > writer'[w].epoch
    BY <1>1, <2>1 DEF MarksGrow
  <2>3. call'[x.id].w = w /\ call'[x.id].reply[p] = "none"
    BY <2>1 DEF Started, NoCall
  <2>4. \A d \in net' : d.id = x.id /\ d.to = p => ~d.replace /\ d.w = w
    <3> TAKE d \in net'
    <3>1. CASE d \in net
      <4>1. d.id \in Nat /\ d.id <= sealed
        BY <3>1, <1>1 DEF Placed, WorkOK, NetOK, TypeOK, Id
      <4> QED BY <1>1, <4>1
    <3>2. CASE d \in Sent(n, w, x)
      BY <3>2 DEF Sent, Delivery
    <3> QED BY <3>1, <3>2
  <2> QED BY <2>1, <2>2, <2>3, <2>4 DEF Shut
<1> HIDE DEF Q
<1> QED BY <1>2, <1>3

\* Everything an entry written by a fenced node leaves behind.
LEMMA WriteStep ==
    ASSUME Placed, LateOK, Grows, NEW n \in Eligible, NEW l \in Seq(Entry), NEW x \in Entry,
           NEW w \in Id,
           Chain(l), x.id = sealed + 1, x.seq = LastSeq(l) + 1, x.prev = LastHash(l),
           LastEpoch(l) <= x.epoch, x.epoch > LastEpoch(l) => x.kind = "term",
           sealed < MaxEntry, Write(n, x, l), mark[n] <= x.epoch,
           Writes(w, n)', writer'[w].epoch = x.epoch, x.kind = "term" => w = x.id,
           call'[x.id] = Started(x, w),
           \A i \in Id \ {x.id} : call'[i] = call[i] \/ call'[i] = NoCall,
           net' \subseteq net \cup Sent(n, w, x)
    PROVE  /\ log' \in [Node -> Seq(Entry)] /\ mark' \in [Node -> Nat]
           /\ sealed' = sealed + 1 /\ sealed' \in 0..MaxEntry
           /\ late' \subseteq Id /\ \A j \in late' : j \in late \/ j > sealed
           /\ LogsRestart' /\ MarksGrow /\ (\A p \in Node : mark'[p] <= lease'.epoch)
           /\ net' \subseteq Delivered
           /\ (\A i \in Id : OpenOK(i)') /\ (\A d \in net' : NetOK(d)')
           /\ LateOK'
<1>0. /\ TypeOK /\ LogsRestart /\ sealed \in Nat /\ lease.epoch \in Nat /\ Id \subseteq Nat
      /\ x.epoch \in Nat
  BY Basics DEF Placed, Entry
<1>1. /\ log' \in [Node -> Seq(Entry)] /\ mark' \in [Node -> Nat]
      /\ sealed' = sealed + 1 /\ sealed' \in 0..MaxEntry /\ late' \in SUBSET Id
      /\ LogsRestart' /\ MarksGrow
      /\ \A p \in Node : mark'[p] = mark[p] \/ mark'[p] = x.epoch
  BY <1>0, Written
<1>2. late' = (IF Outdated(x.epoch) THEN late \cup {x.id} ELSE late)
  BY DEF Write
<1>3. \A j \in late' : j \in late \/ j = x.id
  BY <1>2
<1>4. \A p \in Node : mark'[p] <= lease'.epoch
  <2> TAKE p \in Node
  <2>1. mark[p] <= lease.epoch /\ mark[p] \in Nat
    BY <1>0, Basics DEF Placed, LeaseOK
  <2>2. x.epoch <= lease'.epoch /\ lease'.epoch >= lease.epoch /\ lease'.epoch \in Nat
    BY DEF Writes, Grows
  <2> QED BY <1>0, <1>1, <2>1, <2>2
<1>5. ASSUME NEW d \in net' PROVE d \in Delivered /\ NetOK(d)'
  <2>1. CASE d \in net
    BY <2>1, NetKept DEF Placed, Shape
  <2>2. CASE d \in Sent(n, w, x)
    <3>1. x.id <= sealed' /\ x.epoch <= lease'.epoch
      BY <1>0, <1>1 DEF Writes
    <3> QED BY <2>2, <3>1, SentOK
  <2> QED BY <2>1, <2>2
<1>6. ASSUME NEW i \in Id PROVE OpenOK(i)'
  <2>1. CASE i = x.id
    <3>1. call'[i].w = w /\ call'[i].kind = x.kind
      BY <2>1 DEF Started, NoCall
    <3>2. i <= sealed'
      BY <1>0, <1>1, <2>1
    <3>3. Writes(call[i].w, n)'
      BY <3>1 DEF Writes
    <3> QED BY <2>1, <3>1, <3>2, <3>3 DEF OpenOK
  <2>2. CASE i # x.id /\ call'[i] = call[i]
    <3>1. CASE call[i].open
      BY <2>2, <3>1, OpenKept
    <3>2. CASE ~call[i].open
      BY <2>2, <3>2 DEF OpenOK
    <3> QED BY <3>1, <3>2
  <2>3. CASE i # x.id /\ call'[i] = NoCall
    BY <2>3 DEF OpenOK, NoCall
  <2> QED BY <2>1, <2>2, <2>3
<1>7. LateOK'
  <2> SUFFICES ASSUME NEW i \in late'
               PROVE  /\ i <= sealed'
                      /\ call'[i].open => \E Q \in SUBSET Node :
                             Cardinality(Q) >= Quorum /\ \A p \in Q : Shut(i, p)'
    BY DEF LateOK
  <2>1. CASE i = x.id
    <3>1. CASE i \in late
      <4>1. i <= sealed
        BY <3>1 DEF LateOK
      <4> QED BY <1>0, <2>1, <4>1
    <3>2. CASE i \notin late
      <4>1. Outdated(x.epoch)
        BY <1>2, <3>2
      <4>2. writer'[w].by = n
        BY DEF Writes
      <4>3. \E Q \in SUBSET Node : Cardinality(Q) >= Quorum /\ \A p \in Q : Shut(x.id, p)'
        BY <1>1, <4>1, <4>2, NewLate
      <4>4. i <= sealed'
        BY <1>0, <1>1, <2>1
      <4> QED BY <2>1, <4>3, <4>4
    <3> QED BY <3>1, <3>2
  <2>2. CASE i # x.id
    <3>1. i \in late /\ i \in Id
      BY <1>0, <1>3, <2>2 DEF TypeOK
    <3>2. call'[i] = call[i] \/ call'[i] = NoCall
      BY <2>2, <3>1
    <3>3. ~NoCall.open
      BY DEF NoCall
    <3>4. call'[i].open => call'[i] = call[i]
      BY <3>2, <3>3
    <3>5. call'[i].open => \A p \in Node : Shut(i, p) => call'[i].reply[p] \notin {"ok", "retry"}
      BY <3>4 DEF Shut
    <3>6. \A d \in net' : d.id = i /\ d \notin net => ~Shut(i, d.to)
      <4>1. \A d \in Sent(n, w, x) : d.id = x.id
        BY DEF Sent, Delivery
      <4> QED BY <2>2, <4>1
    <3> QED BY <1>1, <3>1, <3>4, <3>5, <3>6, LateKept
  <2> QED BY <2>1, <2>2
<1>8. \A j \in late' : j \in late \/ j > sealed
  BY <1>0, <1>3
<1> QED BY <1>1, <1>4, <1>5, <1>6, <1>7, <1>8
-----------------------------------------------------------------------------
(* Restores *)

\* A merge takes one of two chains and an epoch that covers it.
LEMMA MergesOK ==
    ASSUME Placed, NEW c \in Base, BaseOK(c), NEW p \in Node, NEW b \in Merges(c, p)
    PROVE  b \in Base /\ BaseOK(b) /\ b.max >= mark[p]
<1>1. /\ log[p] \in Seq(Entry) /\ mark[p] \in Nat /\ Chain(log[p])
      /\ LastEpoch(log[p]) \in Nat /\ LastEpoch(log[p]) <= mark[p]
  BY Basics, LastTypes DEF Placed, LogsRestart
<1>2. c.log \in Seq(Entry) /\ c.max \in Nat /\ c.count \in Nat /\ LastEpoch(c.log) \in Nat
      /\ Chain(c.log) /\ LastEpoch(c.log) <= c.max
  BY LastTypes DEF Base, BaseOK
<1> DEFINE top == Larger(c.max, Larger(mark[p], LastEpoch(log[p])))
<1>3. top \in Nat /\ top >= c.max /\ top >= mark[p]
  BY <1>1, <1>2 DEF Larger
<1>4. PICK k \in {log[p], c.log} : b = [log |-> k, max |-> top, count |-> c.count + 1]
  BY DEF Merges
<1> HIDE DEF top
<1>5. b.log = k /\ b.max = top /\ b \in Base
  BY <1>1, <1>2, <1>3, <1>4 DEF Base
<1>6. CASE k = log[p]
  BY <1>1, <1>3, <1>5, <1>6 DEF BaseOK
<1>7. CASE k = c.log
  BY <1>2, <1>3, <1>5, <1>7 DEF BaseOK
<1> QED BY <1>3, <1>4, <1>5, <1>6, <1>7
-----------------------------------------------------------------------------
(* The invariant, in three parts *)

WriterRec == [by : Node \cup {NoNode}, epoch : Nat, has : SUBSET Id,
              since : Nat, fenced : BOOLEAN]
CallRec == [open : BOOLEAN, w : Id \cup {0}, seq : Nat,
            kind : {"term", "change", "snapshot"}, reply : [Node -> Reply]]
CommitRec == [id : Id, kind : {"term", "change", "snapshot"}, clean : BOOLEAN]

\* Replicas, network and histories.
World ==
    /\ log \in [Node -> Seq(Entry)] /\ mark \in [Node -> Nat]
    /\ sealed \in 0..MaxEntry /\ late \subseteq Id
    /\ LogsRestart /\ \A p \in Node : mark[p] <= lease.epoch
    /\ net \subseteq Delivered
    /\ (\A i \in Id : OpenOK(i)) /\ (\A d \in net : NetOK(d))
    /\ LateOK
    /\ committed \subseteq CommitRec /\ CommittedOK /\ LateNeverCommits

Records == writer \in [Id -> WriterRec] /\ call \in [Id -> CallRec] /\ lost \subseteq Id

\* The takeovers of the nodes and the lease.
Takes ==
    /\ lease \in [holder : Node \cup {NoNode}, epoch : Nat]
    /\ lease.holder # NoNode => lease.epoch > 0
    /\ fence \in [Eligible -> Nat] /\ \A n \in Eligible : fence[n] # 0 => fence[n] = lease.epoch
    /\ job \in [Eligible -> [Job -> JobRec]]
    /\ \A n \in Eligible, k \in Job :
          /\ job[n][k].st = "reread" => job[n][k].epoch \in 1..lease.epoch
          /\ BaseOK(job[n][k].base)
    /\ prepared \in [Eligible -> Base] /\ \A n \in Eligible : BaseOK(prepared[n])
    /\ acting \in [Eligible -> Id \cup {0}]
    /\ \A n \in Eligible : acting[n] # 0 => Writes(acting[n], n)

LEMMA Parts ==
    ASSUME IInv
    PROVE  World /\ Records /\ Takes
<1>1. TypeOK /\ Shape /\ LeaseOK /\ WorkOK /\ BasesOK /\ LogsRestart
  BY DEF IInv, Placed
<1>2. World
  <2>1. committed \subseteq CommitRec
    BY <1>1 DEF TypeOK, CommitRec
  <2> QED BY <1>1, <2>1 DEF World, TypeOK, Shape, LeaseOK, WorkOK, IInv
<1>3. Records
  BY <1>1 DEF TypeOK, Records, WriterRec, CallRec
<1>4. Takes
  BY <1>1 DEF TypeOK, Takes, Shape, LeaseOK, WorkOK, BasesOK
<1> QED BY <1>2, <1>3, <1>4

LEMMA Assemble ==
    ASSUME World', Records', Takes'
    PROVE  IInv'
<1>1. (\A n \in Eligible, k \in Job :
          /\ job[n][k].st \in {"idle", "read", "reread", "start"}
          /\ job[n][k].epoch \in Nat /\ job[n][k].id \in Id \cup {0}
          /\ job[n][k].base.log \in Seq(Entry) /\ job[n][k].asked \subseteq Node)'
  <2> SUFFICES ASSUME NEW n \in Eligible, NEW k \in Job
               PROVE  (/\ job[n][k].st \in {"idle", "read", "reread", "start"}
                       /\ job[n][k].epoch \in Nat /\ job[n][k].id \in Id \cup {0}
                       /\ job[n][k].base.log \in Seq(Entry) /\ job[n][k].asked \subseteq Node)'
    OBVIOUS
  <2>1. job'[n][k] \in JobRec
    BY DEF Takes
  <2> QED BY <2>1 DEF JobRec, Base
<1>2. (\A n \in Eligible : prepared[n].log \in Seq(Entry) /\ prepared[n].max \in Nat)'
  BY DEF Takes, Base
<1>3. (\A d \in net : d.to \in Node /\ d.w \in Id /\ d.id \in Id /\ d.batch \in Seq(Entry))'
  BY DEF World, Delivered
<1>4. TypeOK'
  BY <1>1, <1>2, <1>3 DEF World, Records, Takes, TypeOK, WriterRec, CallRec, CommitRec
<1>5. Shape' /\ LeaseOK' /\ WorkOK' /\ BasesOK' /\ LogsRestart'
  BY DEF World, Takes, Shape, LeaseOK, WorkOK, BasesOK
<1> QED BY <1>4, <1>5 DEF IInv, Placed, World

\* A step that seals nothing keeps the world in order.
LEMMA Frame ==
    ASSUME IInv, Grows, MarksGrow,
           log' \in [Node -> Seq(Entry)], mark' \in [Node -> Nat], LogsRestart',
           \A p \in Node : mark'[p] <= lease'.epoch,
           sealed' = sealed, late' = late,
           \A i \in Id : call'[i].open =>
               /\ call[i].open /\ call'[i].w = call[i].w /\ call'[i].kind = call[i].kind
               /\ \A p \in Node : Shut(i, p) => call'[i].reply[p] \notin {"ok", "retry"},
           \A d \in net' : d \in net \/ (d \in Delivered /\ NetOK(d)' /\ ~Shut(d.id, d.to)),
           \/ committed' = committed
           \/ \E i \in Open : \E seen \in SUBSET Node : Commits(i, seen) /\ Commit(i)
    PROVE  World'
<1>0. Placed /\ LateOK /\ CommittedOK /\ LateNeverCommits /\ World /\ TypeOK /\ sealed \in Nat
  BY Parts, Basics DEF IInv, Placed
<1>1. sealed' \in 0..MaxEntry /\ late' \subseteq Id
  BY <1>0 DEF World
<1>2. \A d \in net' : d \in Delivered /\ NetOK(d)'
  BY <1>0, NetKept DEF World
<1>3. \A i \in Id : OpenOK(i)'
  <2> TAKE i \in Id
  <2>1. CASE call'[i].open
    BY <1>0, <2>1, OpenKept
  <2>2. CASE ~call'[i].open
    BY <2>2 DEF OpenOK
  <2> QED BY <2>1, <2>2
<1>4. LateOK'
  <2> SUFFICES ASSUME NEW i \in late'
               PROVE  /\ i <= sealed'
                      /\ call'[i].open => \E Q \in SUBSET Node :
                             Cardinality(Q) >= Quorum /\ \A p \in Q : Shut(i, p)'
    BY DEF LateOK
  <2>1. i \in late /\ i \in Id
    BY <1>1
  <2>2. call'[i].open => call[i].open /\ call'[i].w = call[i].w
    BY <2>1
  <2>3. call'[i].open => \A p \in Node : Shut(i, p) => call'[i].reply[p] \notin {"ok", "retry"}
    BY <2>1
  <2>4. call'[i].open => \A d \in net' : d.id = i /\ d \notin net => ~Shut(i, d.to)
    BY <2>1
  <2> QED BY <1>0, <2>1, <2>2, <2>3, <2>4, LateKept
<1>5. committed' \subseteq CommitRec /\ CommittedOK' /\ LateNeverCommits'
  <2>1. sealed' \in Nat /\ sealed' >= sealed /\ \A j \in late' : j \in late \/ j > sealed
    BY <1>0
  <2> QED BY <1>0, <2>1, CommitKept DEF CommitRec
<1> QED BY <1>1, <1>2, <1>3, <1>4, <1>5 DEF World

\* Calls end, deliveries vanish; no replica changes.
LEMMA Quiet ==
    ASSUME IInv, Grows, log' = log, mark' = mark, sealed' = sealed, late' = late,
           \A i \in Id : call'[i] = call[i] \/ call'[i] = NoCall,
           net' \subseteq net,
           \/ committed' = committed
           \/ \E i \in Open : \E seen \in SUBSET Node : Commits(i, seen) /\ Commit(i)
    PROVE  World'
<1>0. World /\ TypeOK /\ (\A p \in Node : mark[p] \in Nat) /\ lease.epoch \in Nat
  BY Parts, Basics DEF IInv, Placed
<1>1. log' \in [Node -> Seq(Entry)] /\ mark' \in [Node -> Nat] /\ LogsRestart' /\ MarksGrow
  BY <1>0 DEF World, LogsRestart, MarksGrow
<1>2. \A p \in Node : mark'[p] <= lease'.epoch
  BY <1>0 DEF World, Grows
<1>3. \A i \in Id : call'[i].open =>
         /\ call[i].open /\ call'[i].w = call[i].w /\ call'[i].kind = call[i].kind
         /\ \A p \in Node : Shut(i, p) => call'[i].reply[p] \notin {"ok", "retry"}
  <2> TAKE i \in Id
  <2>1. CASE call'[i] = call[i]
    BY <2>1 DEF Shut
  <2>2. CASE call'[i] = NoCall
    BY <2>2 DEF NoCall
  <2> QED BY <2>1, <2>2
<1> QED BY <1>1, <1>2, <1>3, Frame

\* A node gives up what it had: fences, restores and the acting Main.
LEMMA TakesKept ==
    ASSUME IInv, Grows, lease' = lease,
           fence' \in [Eligible -> Nat], \A n \in Eligible : fence'[n] = fence[n] \/ fence'[n] = 0,
           job' \in [Eligible -> [Job -> JobRec]],
           \A n \in Eligible, k \in Job : job'[n][k] = job[n][k] \/ job'[n][k] = NoJob,
           prepared' \in [Eligible -> Base],
           \A n \in Eligible : prepared'[n] = prepared[n] \/ prepared'[n] = NoBase,
           acting' \in [Eligible -> Id \cup {0}],
           \A n \in Eligible : \/ acting'[n] = acting[n] \/ acting'[n] = 0
                               \/ \E w \in Id : acting'[n] = w /\ Writes(w, n)
    PROVE  Takes'
<1>0. Takes /\ Placed
  BY Parts DEF IInv
<1>1. BaseOK(NoBase)
  BY EmptySeq DEF BaseOK, NoBase, Chain, LastEpoch
<1>2. ASSUME NEW n \in Eligible, NEW k \in Job
      PROVE  /\ job'[n][k].st = "reread" => job'[n][k].epoch \in 1..lease'.epoch
             /\ BaseOK(job'[n][k].base)
  <2>1. CASE job'[n][k] = job[n][k]
    BY <1>0, <2>1 DEF Takes
  <2>2. CASE job'[n][k] = NoJob
    <3>1. NoJob.st = "idle" /\ NoJob.base = NoBase
      BY DEF NoJob
    <3> QED BY <1>1, <2>2, <3>1
  <2> QED BY <2>1, <2>2
<1>3. \A n \in Eligible : BaseOK(prepared'[n])
  BY <1>0, <1>1 DEF Takes
<1>4. \A n \in Eligible : acting'[n] # 0 => Writes(acting[n], n)'
  <2> TAKE n \in Eligible
  <2>1. CASE acting'[n] = acting[n]
    BY <1>0, <2>1, ActingKept
  <2>2. CASE \E w \in Id : acting'[n] = w /\ Writes(w, n)
    <3>1. PICK w \in Id : acting'[n] = w /\ Writes(w, n)
      BY <2>2
    <3>2. Writes(w, n)'
      BY <1>0, <3>1, WritesKept DEF Placed
    <3> QED BY <3>1, <3>2 DEF Writes
  <2> QED BY <2>1, <2>2
<1>5. \A n \in Eligible : fence'[n] # 0 => fence'[n] = lease'.epoch
  BY <1>0 DEF Takes
<1>6. (\A n \in Eligible, k \in Job :
          /\ job[n][k].st = "reread" => job[n][k].epoch \in 1..lease.epoch
          /\ BaseOK(job[n][k].base))'
  BY <1>2 DEF BaseOK
<1>7. (\A n \in Eligible : BaseOK(prepared[n]))'
  BY <1>3 DEF BaseOK
<1> QED BY <1>0, <1>4, <1>5, <1>6, <1>7 DEF Takes

LEMMA Empties ==
    /\ NoBase \in Base /\ BaseOK(NoBase) /\ NoJob \in JobRec /\ NoJob.st = "idle"
    /\ NoWriter \in WriterRec /\ NoCall \in CallRec /\ ~NoCall.open
<1>1. NoBase \in Base /\ BaseOK(NoBase)
  BY EmptySeq DEF NoBase, Base, BaseOK, Chain, LastEpoch
<1>2. NoJob \in JobRec /\ NoJob.st = "idle"
  BY <1>1 DEF NoJob, JobRec
<1>3. NoWriter \in WriterRec
  BY DEF NoWriter, WriterRec
<1>4. NoCall \in CallRec /\ ~NoCall.open
  BY DEF NoCall, CallRec, Reply
<1> QED BY <1>1, <1>2, <1>3, <1>4

LEMMA InitInv ==
    ASSUME Init
    PROVE  IInv
<1>0. /\ Eligible \subseteq Node /\ MaxEntry \in Nat /\ <<>> \in Seq(Entry)
  BY JournalAssumption, EmptySeq
<1>1. Chain(<<>>) /\ LastEpoch(<<>>) = 0
  BY EmptySeq DEF Chain, LastEpoch
<1>2. TypeOK
  <2>1. \A n \in Eligible, k \in Job : job[n][k] = NoJob
    BY DEF Init
  <2>2. \A n \in Eligible : prepared[n] = NoBase
    BY DEF Init
  <2>3. writer \in [Id -> [by : Node \cup {NoNode}, epoch : Nat, has : SUBSET Id,
                           since : Nat, fenced : BOOLEAN]]
    BY Empties DEF Init, WriterRec
  <2>4. call \in [Id -> [open : BOOLEAN, w : Id \cup {0}, seq : Nat,
                         kind : {"term", "change", "snapshot"}, reply : [Node -> Reply]]]
    BY Empties DEF Init, CallRec
  <2>5. log \in [Node -> Seq(Entry)] /\ mark \in [Node -> Nat]
    BY <1>0 DEF Init
  <2>a. /\ NoBase.log \in Seq(Entry) /\ NoBase.max \in Nat /\ NoJob.base = NoBase
        /\ NoJob.st = "idle" /\ NoJob.epoch \in Nat /\ NoJob.id = 0 /\ NoJob.asked \subseteq Node
    <3>1. NoBase.log = <<>> /\ NoBase.max = 0
      BY DEF NoBase
    <3>2. NoJob.base = NoBase /\ NoJob.st = "idle" /\ NoJob.epoch = 0 /\ NoJob.id = 0
          /\ NoJob.asked = {}
      BY DEF NoJob
    <3> QED BY <1>0, <3>1, <3>2
  <2>6. \A n \in Eligible, k \in Job :
          /\ job[n][k].st \in {"idle", "read", "reread", "start"}
          /\ job[n][k].epoch \in Nat /\ job[n][k].id \in Id \cup {0}
          /\ job[n][k].base.log \in Seq(Entry) /\ job[n][k].asked \subseteq Node
    BY <2>1, <2>a
  <2>7. \A n \in Eligible : prepared[n].log \in Seq(Entry) /\ prepared[n].max \in Nat
    BY <2>2, <2>a
  <2>8. /\ lease \in [holder : Node \cup {NoNode}, epoch : Nat] /\ fence \in [Eligible -> Nat]
        /\ acting \in [Eligible -> Id \cup {0}] /\ sealed \in 0..MaxEntry
        /\ net = {} /\ committed = {} /\ lost = {} /\ late = {}
    BY <1>0 DEF Init
  <2> QED BY <2>3, <2>4, <2>5, <2>6, <2>7, <2>8 DEF TypeOK
<1>3. Shape
  BY Empties DEF Init, Shape
<1>4. LeaseOK
  BY <1>0, Empties DEF Init, LeaseOK
<1>5. WorkOK
  BY Empties DEF Init, WorkOK, OpenOK
<1>6. BasesOK
  <2>1. BaseOK(NoBase) /\ NoJob.base = NoBase
    BY Empties DEF NoJob
  <2>2. \A n \in Eligible : prepared[n] = NoBase /\ \A k \in Job : job[n][k] = NoJob
    BY DEF Init
  <2> QED BY <2>1, <2>2 DEF BasesOK
<1>7. LogsRestart
  BY <1>0, <1>1 DEF Init, LogsRestart
<1>8. LateOK /\ CommittedOK /\ LateNeverCommits
  BY DEF Init, LateOK, CommittedOK, LateNeverCommits
<1> QED BY <1>2, <1>3, <1>4, <1>5, <1>6, <1>7, <1>8 DEF IInv, Placed
-----------------------------------------------------------------------------
(* Timers, the lease layer and the process *)

LEMMA NoteLostInv ==
    ASSUME IInv, NEW n \in Eligible, NoteLost(n)
    PROVE  IInv'
<1>0. World /\ Records /\ Takes /\ TypeOK /\ sealed \in Nat /\ lease.epoch \in Nat
  BY Parts, Basics DEF IInv, Placed
<1>1. UNCHANGED <<log, mark, writer, job, prepared, call, net, lease, fence, sealed,
                  committed, lost, late>>
  BY DEF NoteLost, replicas, history
<1>2. acting' = [acting EXCEPT ![n] = 0]
  BY DEF NoteLost, StepDown
<1>3. Grows
  BY <1>0, <1>1 DEF Grows
<1>4. World'
  BY <1>1, <1>3, Quiet
<1>5. Records'
  BY <1>0, <1>1 DEF Records
<1>6. Takes'
  BY <1>0, <1>1, <1>2, <1>3, TakesKept DEF Takes
<1> QED BY <1>4, <1>5, <1>6, Assemble

LEMMA ObserveInv ==
    ASSUME IInv, NEW n \in Eligible, Observe(n)
    PROVE  IInv' /\ MarksGrow
<1>0. /\ World /\ Records /\ Takes /\ TypeOK /\ sealed \in Nat /\ lease.epoch \in Nat
      /\ n \in Node
  BY Parts, Basics DEF IInv, Placed
<1>1. UNCHANGED <<log, writer, acting, job, prepared, call, net, lease, fence, sealed,
                  committed, lost, late>>
  BY DEF Observe, runtime, history
<1>2. mark' = [mark EXCEPT ![n] = lease.epoch] /\ lease.epoch > mark[n]
  BY DEF Observe
<1>3. Grows
  BY <1>0, <1>1 DEF Grows
<1>4. mark' \in [Node -> Nat] /\ MarksGrow /\ \A p \in Node : mark'[p] <= lease'.epoch
  BY <1>0, <1>1, <1>2 DEF World, MarksGrow
<1>5. LogsRestart'
  <2> SUFFICES ASSUME NEW p \in Node PROVE Chain(log'[p]) /\ LastEpoch(log'[p]) <= mark'[p]
    BY DEF LogsRestart
  <2>1. Chain(log[p]) /\ LastEpoch(log[p]) <= mark[p] /\ LastEpoch(log[p]) \in Nat
    BY <1>0, Basics, LastTypes DEF World, LogsRestart
  <2>2. mark'[p] >= mark[p] /\ mark'[p] \in Nat /\ mark[p] \in Nat
    BY <1>0, <1>4, Basics DEF MarksGrow
  <2> QED BY <1>1, <2>1, <2>2
<1>6. World'
  <2>1. log' \in [Node -> Seq(Entry)]
    BY <1>0, <1>1 DEF World
  <2>2. \A i \in Id : call'[i].open =>
            /\ call[i].open /\ call'[i].w = call[i].w /\ call'[i].kind = call[i].kind
            /\ \A p \in Node : Shut(i, p) => call'[i].reply[p] \notin {"ok", "retry"}
    BY <1>1 DEF Shut
  <2> QED BY <1>1, <1>3, <1>4, <1>5, <2>1, <2>2, Frame
<1>7. Records'
  BY <1>0, <1>1 DEF Records
<1>8. Takes'
  BY <1>0, <1>1, <1>3, TakesKept DEF Takes
<1> QED BY <1>4, <1>6, <1>7, <1>8, Assemble

LEMMA DropFenceInv ==
    ASSUME IInv, NEW n \in Eligible, DropFence(n)
    PROVE  IInv'
<1>0. World /\ Records /\ Takes /\ TypeOK /\ sealed \in Nat /\ lease.epoch \in Nat
  BY Parts, Basics DEF IInv, Placed
<1>1. UNCHANGED <<log, mark, writer, acting, job, prepared, call, net, lease, sealed,
                  committed, lost, late>>
  BY DEF DropFence, replicas, runtime, history
<1>2. fence' = [fence EXCEPT ![n] = 0]
  BY DEF DropFence
<1>3. Grows
  BY <1>0, <1>1 DEF Grows
<1>4. World'
  BY <1>1, <1>3, Quiet
<1>5. Records'
  BY <1>0, <1>1 DEF Records
<1>6. Takes'
  BY <1>0, <1>1, <1>2, <1>3, TakesKept DEF Takes
<1> QED BY <1>4, <1>5, <1>6, Assemble

LEMMA CrashInv ==
    ASSUME IInv, NEW n \in Eligible, Crash(n)
    PROVE  IInv'
<1>0. World /\ Records /\ Takes /\ TypeOK /\ sealed \in Nat /\ lease.epoch \in Nat
  BY Parts, Basics DEF IInv, Placed
<1>1. UNCHANGED <<log, mark, writer, net, lease, sealed, committed, lost, late>>
  BY DEF Crash, replicas, history
<1>2. /\ acting' = [acting EXCEPT ![n] = 0]
      /\ job' = [job EXCEPT ![n] = [k \in Job |-> NoJob]]
      /\ prepared' = [prepared EXCEPT ![n] = NoBase]
      /\ fence' = [fence EXCEPT ![n] = 0]
  BY DEF Crash
<1>3. call' = [i \in Id |-> IF call[i].open /\ writer[call[i].w].by = n THEN NoCall ELSE call[i]]
  BY DEF Crash
<1>4. Grows
  BY <1>0, <1>1 DEF Grows
<1>5. \A i \in Id : call'[i] = call[i] \/ call'[i] = NoCall
  BY <1>3
<1>6. World'
  BY <1>1, <1>4, <1>5, Quiet
<1>7. Records'
  BY <1>0, <1>1, <1>3, Empties DEF Records
<1>8. Takes'
  <2>1. [k \in Job |-> NoJob] \in [Job -> JobRec]
    BY Empties
  <2>2. job' \in [Eligible -> [Job -> JobRec]]
    BY <1>0, <1>2, <2>1 DEF Takes
  <2>3. \A m \in Eligible, k \in Job : job'[m][k] = job[m][k] \/ job'[m][k] = NoJob
    BY <1>0, <1>2 DEF Takes
  <2>4. /\ prepared' \in [Eligible -> Base]
        /\ \A m \in Eligible : prepared'[m] = prepared[m] \/ prepared'[m] = NoBase
    BY <1>0, <1>2, Empties DEF Takes
  <2>5. /\ acting' \in [Eligible -> Id \cup {0}]
        /\ \A m \in Eligible : acting'[m] = acting[m] \/ acting'[m] = 0
    BY <1>0, <1>2 DEF Takes
  <2>6. /\ fence' \in [Eligible -> Nat]
        /\ \A m \in Eligible : fence'[m] = fence[m] \/ fence'[m] = 0
    BY <1>0, <1>2 DEF Takes
  <2> QED BY <1>1, <1>4, <2>2, <2>3, <2>4, <2>5, <2>6, TakesKept
<1> QED BY <1>6, <1>7, <1>8, Assemble
-----------------------------------------------------------------------------
(* Deliveries *)

\* What a replica stores is a chain that its mark covers.
LEMMA StoredOK ==
    ASSUME Placed, NEW d \in net, d.batch # <<>>, Verdict(log[d.to], mark[d.to], d) = "stored"
    PROVE  LET l == Stored(log[d.to], "stored", d)
           IN  /\ l \in Seq(Entry) /\ Chain(l)
               /\ LastEpoch(l) = LastEpoch(d.batch) /\ LastEpoch(d.batch) >= mark[d.to]
<1> DEFINE p == d.to
           l == Stored(log[p], "stored", d)
<1>0. /\ d \in Delivered /\ NetOK(d) /\ p \in Node /\ log[p] \in Seq(Entry) /\ mark[p] \in Nat
      /\ d.batch \in Seq(Entry) /\ Chain(log[p]) /\ LastEpoch(log[p]) <= mark[p]
      /\ LastEpoch(log[p]) \in Nat /\ LastEpoch(d.batch) \in Nat
  <2>1. d \in Delivered /\ NetOK(d) /\ TypeOK /\ LogsRestart
    BY DEF Placed, Shape, WorkOK
  <2>2. p \in Node /\ d.batch \in Seq(Entry)
    BY <2>1 DEF Delivered
  <2> QED BY <2>1, <2>2, Basics, LastTypes DEF LogsRestart
<1>1. CASE d.replace
  <2>1. l = d.batch
    BY <1>1 DEF Stored
  <2>2. VerdictAll(log[p], mark[p], d.batch) = "stored"
    BY <1>1 DEF Verdict
  <2>3. ~(LastEpoch(d.batch) < mark[p]) /\ Chain(d.batch)
    BY <2>2 DEF VerdictAll
  <2> QED BY <1>0, <2>1, <2>3
<1>2. CASE ~d.replace
  <2> DEFINE x == d.batch[1]
  <2>1. x \in Entry /\ Len(d.batch) = 1
    BY <1>0, <1>2, ElementOfSeq DEF NetOK
  <2>2. LastEpoch(d.batch) = x.epoch
    BY <2>1 DEF LastEpoch, Last
  <2>3. VerdictOne(log[p], mark[p], x) = "stored"
    BY <1>2 DEF Verdict
  <2>4. /\ ~(x.epoch < mark[p])
        /\ ~(x.seq # LastSeq(log[p]) + 1 \/ x.prev # LastHash(log[p]))
        /\ ~(x.epoch > LastEpoch(log[p]) /\ x.kind # "term")
    BY <2>3 DEF VerdictOne
  <2>5. l = Append(log[p], x)
    BY <1>2 DEF Stored
  <2> HIDE DEF x, l
  <2>6. x.epoch \in Nat /\ LastEpoch(log[p]) <= x.epoch
    BY <1>0, <2>1, <2>4 DEF Entry
  <2>7. l \in Seq(Entry) /\ Chain(l) /\ LastEpoch(l) = x.epoch
    BY <1>0, <2>1, <2>4, <2>5, <2>6, ChainAppend
  <2> QED BY <1>0, <2>2, <2>4, <2>6, <2>7 DEF l
<1> QED BY <1>1, <1>2

\* A replica that is shut for a call answers its delivery with a refusal.
LEMMA ShutRefuses ==
    ASSUME Placed, NEW d \in net, Shut(d.id, d.to), call[d.id].open,
           NEW l, NEW m, NEW seq
    PROVE  LET v == Verdict(log[d.to], mark[d.to], d)
           IN  ReplyTo(v, l, m, d.w, seq, d.replace) \notin {"ok", "retry"}
<1> DEFINE p == d.to
           v == Verdict(log[p], mark[p], d)
<1>1. /\ ~d.replace /\ d.w = call[d.id].w /\ mark[p] > writer[d.w].epoch /\ NetOK(d)
  BY DEF Shut, Placed, WorkOK
<1>2. d.batch[1].epoch = writer[d.w].epoch
  BY <1>1 DEF NetOK
<1>3. d.batch[1].epoch < mark[p]
  <2>1. PICK n \in Eligible : Writes(d.w, n)
    BY <1>1 DEF NetOK
  <2>2. writer[d.w].epoch \in Nat /\ mark[p] \in Nat
    <3>1. TypeOK /\ p \in Node
      BY DEF Placed, TypeOK
    <3> QED BY <3>1, <2>1, Basics DEF Writes
  <2> QED BY <1>1, <1>2, <2>2
<1>4. v = "stale-epoch"
  <2>1. v = VerdictOne(log[p], mark[p], d.batch[1])
    BY <1>1 DEF Verdict
  <2>2. VerdictOne(log[p], mark[p], d.batch[1]) = "stale-epoch"
    BY <1>3 DEF VerdictOne
  <2> QED BY <2>1, <2>2
<1> QED BY <1>4 DEF ReplyTo

LEMMA DeliverInv ==
    ASSUME IInv, NEW d \in net, Deliver(d)
    PROVE  IInv' /\ MarksGrow
<1> DEFINE p == d.to
           v == Verdict(log[p], mark[p], d)
           l == Stored(log[p], v, d)
           m == IF v = "stored" THEN Larger(mark[p], LastEpoch(d.batch)) ELSE mark[p]
           r == ReplyTo(v, l, m, d.w, call[d.id].seq, d.replace)
<1>0. /\ World /\ Records /\ Takes /\ Placed /\ TypeOK /\ sealed \in Nat /\ lease.epoch \in Nat
      /\ \A q \in Node : mark[q] \in Nat
  BY Parts, Basics DEF IInv, Placed
<1>1. /\ UNCHANGED <<writer, acting, job, prepared, lease, fence, sealed, committed, lost, late>>
      /\ net' = net \ {d}
  BY DEF Deliver, runtime, history
<1>2. \/ UNCHANGED <<log, mark, call>>
      \/ /\ d.batch # <<>>
         /\ log' = [log EXCEPT ![p] = l] /\ mark' = [mark EXCEPT ![p] = m]
         /\ call' = IF call[d.id].open THEN [call EXCEPT ![d.id].reply[p] = r] ELSE call
  BY DEF Deliver
<1>3. /\ d \in Delivered /\ NetOK(d) /\ p \in Node /\ d.id \in Id /\ d.batch \in Seq(Entry)
  <2>1. d \in Delivered /\ NetOK(d)
    BY <1>0 DEF World
  <2> QED BY <2>1 DEF Delivered
<1>4. Grows
  BY <1>0, <1>1 DEF Grows
<1>5. Takes'
  BY <1>0, <1>1, <1>4, TakesKept DEF Takes
<1>6. CASE UNCHANGED <<log, mark, call>>
  <2>1. World'
    BY <1>1, <1>4, <1>6, Quiet
  <2>2. Records'
    BY <1>0, <1>1, <1>6 DEF Records
  <2>3. MarksGrow
    BY <1>0, <1>6 DEF MarksGrow
  <2> QED BY <1>5, <2>1, <2>2, <2>3, Assemble
<1>7. CASE /\ d.batch # <<>>
           /\ log' = [log EXCEPT ![p] = l] /\ mark' = [mark EXCEPT ![p] = m]
           /\ call' = IF call[d.id].open THEN [call EXCEPT ![d.id].reply[p] = r] ELSE call
  <2>1. /\ l \in Seq(Entry) /\ Chain(l) /\ LastEpoch(l) <= m
        /\ m \in Nat /\ m >= mark[p] /\ m <= lease.epoch
    <3>0. /\ log[p] \in Seq(Entry) /\ Chain(log[p]) /\ LastEpoch(log[p]) <= mark[p]
          /\ mark[p] <= lease.epoch /\ LastEpoch(d.batch) <= lease.epoch
          /\ LastEpoch(d.batch) \in Nat
      BY <1>0, <1>3, Basics, LastTypes DEF World, LogsRestart, NetOK
    <3>1. CASE v = "stored"
      <4>1. l = Stored(log[p], "stored", d) /\ m = Larger(mark[p], LastEpoch(d.batch))
        BY <3>1
      <4>2. /\ l \in Seq(Entry) /\ Chain(l)
            /\ LastEpoch(l) = LastEpoch(d.batch) /\ LastEpoch(d.batch) >= mark[p]
        BY <1>0, <1>7, <3>1, <4>1, StoredOK
      <4> HIDE DEF l, m
      <4> QED BY <1>0, <1>3, <3>0, <4>1, <4>2 DEF Larger
    <3>2. CASE v # "stored"
      <4>1. l = log[p] /\ m = mark[p]
        BY <3>2 DEF Stored
      <4> HIDE DEF l, m
      <4> QED BY <1>0, <1>3, <3>0, <4>1
    <3> QED BY <3>1, <3>2
  <2>2. r \in Reply
    <3> HIDE DEF v, l, m
    <3> QED BY DEF ReplyTo, Reply
  <2>3. Shut(d.id, p) /\ call[d.id].open => r \notin {"ok", "retry"}
    <3> HIDE DEF l, m
    <3> QED BY <1>0, ShutRefuses
  <2> HIDE DEF v, l, m, r
  <2>4. log' \in [Node -> Seq(Entry)] /\ mark' \in [Node -> Nat]
    BY <1>0, <1>3, <1>7, <2>1 DEF World
  <2>5. MarksGrow /\ \A q \in Node : mark'[q] <= lease'.epoch
    BY <1>0, <1>1, <1>3, <1>7, <2>1 DEF World, MarksGrow
  <2>6. LogsRestart'
    <3> SUFFICES ASSUME NEW q \in Node PROVE Chain(log'[q]) /\ LastEpoch(log'[q]) <= mark'[q]
      BY DEF LogsRestart
    <3>1. CASE q = p
      BY <1>0, <1>3, <1>7, <2>1, <3>1 DEF World
    <3>2. CASE q # p
      BY <1>0, <1>7, <3>2 DEF World, LogsRestart
    <3> QED BY <3>1, <3>2
  <2>7. /\ call' \in [Id -> CallRec]
        /\ \A i \in Id :
              /\ call'[i].open = call[i].open /\ call'[i].w = call[i].w
              /\ call'[i].kind = call[i].kind
              /\ \A q \in Node : \/ call'[i].reply[q] = call[i].reply[q]
                                 \/ call[i].open /\ i = d.id /\ q = p /\ call'[i].reply[q] = r
    <3>1. CASE ~call[d.id].open
      BY <1>0, <1>7, <3>1 DEF Records
    <3>2. CASE call[d.id].open
      <4>1. call' = [call EXCEPT ![d.id].reply[p] = r]
        BY <1>7, <3>2
      <4>2. call \in [Id -> CallRec] /\ call[d.id] \in CallRec
        BY <1>0, <1>3 DEF Records
      <4> DEFINE c == [call[d.id] EXCEPT !.reply[p] = r]
      <4>3. /\ c \in CallRec /\ c.open = call[d.id].open /\ c.w = call[d.id].w
            /\ c.kind = call[d.id].kind /\ c.reply[p] = r
            /\ \A q \in Node : q # p => c.reply[q] = call[d.id].reply[q]
        BY <1>3, <2>2, <4>2 DEF CallRec
      <4>4. call' = [call EXCEPT ![d.id] = c]
        BY <4>1
      <4> HIDE DEF c
      <4>5. call' \in [Id -> CallRec]
        BY <1>3, <4>2, <4>3, <4>4
      <4>6. call'[d.id] = c /\ \A i \in Id : i # d.id => call'[i] = call[i]
        BY <1>3, <4>2, <4>4
      <4> QED BY <3>2, <4>3, <4>5, <4>6
    <3> QED BY <3>1, <3>2
  <2>8. \A i \in Id : call'[i].open =>
            /\ call[i].open /\ call'[i].w = call[i].w /\ call'[i].kind = call[i].kind
            /\ \A q \in Node : Shut(i, q) => call'[i].reply[q] \notin {"ok", "retry"}
    BY <2>3, <2>7 DEF Shut
  <2>9. World'
    <3>1. /\ sealed' = sealed /\ late' = late /\ committed' = committed
          /\ \A e \in net' : e \in net
      BY <1>1
    <3> QED BY <1>4, <2>4, <2>5, <2>6, <2>8, <3>1, Frame
  <2>10. Records'
    BY <1>0, <1>1, <2>7 DEF Records
  <2> QED BY <1>5, <2>5, <2>9, <2>10, Assemble
<1> QED BY <1>2, <1>6, <1>7

LEMMA ResendInv ==
    ASSUME IInv, NEW i \in Open, NEW p \in Node, Resend(i, p)
    PROVE  IInv'
<1> DEFINE w == call[i].w
           n == writer[w].by
           f == Delivery(p, w, i, log[n], TRUE)
<1>0. /\ World /\ Records /\ Takes /\ Placed /\ TypeOK /\ sealed \in Nat /\ lease.epoch \in Nat
      /\ i \in Id
  BY Parts, Basics DEF IInv, Placed, Open
<1>1. UNCHANGED <<log, mark, writer, acting, job, prepared, lease, fence, sealed,
                  committed, lost, late>>
  BY DEF Resend, replicas, runtime, history
<1>2. /\ call[i].open /\ call[i].reply[p] = "retry"
      /\ call' = [call EXCEPT ![i].reply[p] = "none"] /\ net' = net \cup {f}
  BY DEF Resend
<1>3. Grows
  BY <1>0, <1>1 DEF Grows
<1>4. Takes'
  BY <1>0, <1>1, <1>3, TakesKept DEF Takes
<1>5. i <= sealed /\ \E q \in Eligible : Writes(w, q)
  BY <1>0, <1>2 DEF World, OpenOK
<1>6. PICK g \in Delivered : /\ net' = net \cup {g}
                            /\ ~Shut(g.id, g.to) /\ g.id <= sealed /\ g.replace
                            /\ \E q \in Eligible : Writes(g.w, q)
                            /\ LastEpoch(g.batch) <= lease.epoch
  <2>1. PICK q \in Eligible : Writes(w, q)
    BY <1>5
  <2>2. w \in Id /\ n = q /\ n \in Node /\ log[n] \in Seq(Entry)
    BY <1>0, <2>1, Basics DEF Writes
  <2>3. LastEpoch(log[n]) <= lease.epoch
    BY <1>0, <2>2, Basics, LastTypes DEF World, LogsRestart
  <2> HIDE DEF w, n
  <2>4. /\ f \in Delivered /\ f.id = i /\ f.to = p /\ f.w = w /\ f.batch = log[n] /\ f.replace = TRUE
    BY <1>0, <2>2 DEF Delivery, Delivered
  <2>5. ~Shut(f.id, f.to)
    BY <1>2, <2>4 DEF Shut
  <2>6. PICK g : g = f
    OBVIOUS
  <2>7. net' = net \cup {g}
    BY <1>2, <2>6
  <2> HIDE DEF f
  <2> QED BY <1>5, <2>1, <2>3, <2>4, <2>5, <2>6, <2>7
<1> HIDE DEF f
<1>a. NetOK(g)'
  <2>1. PICK q \in Eligible : Writes(g.w, q)
    BY <1>6
  <2>2. Writes(g.w, q)'
    BY <1>0, <1>3, <2>1, WritesKept
  <2> QED BY <1>1, <1>6, <2>2 DEF NetOK
<1>7. /\ call' \in [Id -> CallRec]
      /\ \A j \in Id :
            /\ call'[j].open = call[j].open /\ call'[j].w = call[j].w
            /\ call'[j].kind = call[j].kind
            /\ \A q \in Node : call'[j].reply[q] = call[j].reply[q] \/ call'[j].reply[q] = "none"
  <2>1. call \in [Id -> CallRec] /\ call[i] \in CallRec
    BY <1>0 DEF Records
  <2> DEFINE c == [call[i] EXCEPT !.reply[p] = "none"]
  <2>2. /\ c \in CallRec /\ c.open = call[i].open /\ c.w = call[i].w
        /\ c.kind = call[i].kind /\ c.reply[p] = "none"
        /\ \A q \in Node : q # p => c.reply[q] = call[i].reply[q]
    BY <2>1 DEF CallRec, Reply
  <2>3. call' = [call EXCEPT ![i] = c]
    BY <1>2
  <2> HIDE DEF c
  <2>4. /\ call' \in [Id -> CallRec]
        /\ call'[i] = c /\ \A j \in Id : j # i => call'[j] = call[j]
    BY <1>0, <2>1, <2>2, <2>3
  <2> QED BY <2>2, <2>4
<1>8. World'
  <2>1. /\ log' \in [Node -> Seq(Entry)] /\ mark' \in [Node -> Nat] /\ LogsRestart'
        /\ \A q \in Node : mark'[q] <= lease'.epoch
    BY <1>0, <1>1 DEF World, LogsRestart
  <2>2. MarksGrow
    BY <1>0, <1>1, Basics DEF MarksGrow
  <2>3. \A j \in Id : call'[j].open =>
            /\ call[j].open /\ call'[j].w = call[j].w /\ call'[j].kind = call[j].kind
            /\ \A q \in Node : Shut(j, q) => call'[j].reply[q] \notin {"ok", "retry"}
    BY <1>7 DEF Shut
  <2>4. \A d \in net' : d \in net \/ (d \in Delivered /\ NetOK(d)' /\ ~Shut(d.id, d.to))
    <3> TAKE d \in net'
    <3>1. CASE d = g
      BY <1>6, <1>a, <3>1
    <3> QED BY <1>6, <3>1
  <2> QED BY <1>1, <1>3, <2>1, <2>2, <2>3, <2>4, Frame
<1>9. Records'
  BY <1>0, <1>1, <1>7 DEF Records
<1> QED BY <1>4, <1>8, <1>9, Assemble
-----------------------------------------------------------------------------
(* The writer *)

LEMMA Starting ==
    ASSUME NEW x \in Entry, NEW w \in Id
    PROVE  Started(x, w) \in CallRec
<1>1. x.seq \in Nat /\ x.kind \in {"term", "change", "snapshot"}
  BY DEF Entry
<1>2. NoCall \in CallRec
  BY Empties
<1> QED BY <1>1, <1>2 DEF Started, CallRec

\* A written entry and the histories: the world stays in order.
LEMMA WriteWorld ==
    ASSUME IInv, Grows, NEW n \in Eligible, NEW l \in Seq(Entry), NEW x \in Entry,
           NEW w \in Id,
           Chain(l), x.id = sealed + 1, x.seq = LastSeq(l) + 1, x.prev = LastHash(l),
           LastEpoch(l) <= x.epoch, x.epoch > LastEpoch(l) => x.kind = "term",
           sealed < MaxEntry, Write(n, x, l), mark[n] <= x.epoch,
           Writes(w, n)', writer'[w].epoch = x.epoch, x.kind = "term" => w = x.id,
           call'[x.id] = Started(x, w),
           \A i \in Id \ {x.id} : call'[i] = call[i] \/ call'[i] = NoCall,
           net' \subseteq net \cup Sent(n, w, x),
           \/ committed' = committed
           \/ \E i \in Open : \E seen \in SUBSET Node : Commits(i, seen) /\ Commit(i)
    PROVE  World' /\ MarksGrow
<1>0. Placed /\ LateOK /\ CommittedOK /\ LateNeverCommits /\ TypeOK /\ sealed \in Nat
  BY Basics DEF IInv, Placed
<1>1. /\ log' \in [Node -> Seq(Entry)] /\ mark' \in [Node -> Nat]
      /\ sealed' = sealed + 1 /\ sealed' \in 0..MaxEntry
      /\ late' \subseteq Id /\ \A j \in late' : j \in late \/ j > sealed
      /\ LogsRestart' /\ MarksGrow /\ (\A p \in Node : mark'[p] <= lease'.epoch)
      /\ net' \subseteq Delivered
      /\ (\A i \in Id : OpenOK(i)') /\ (\A d \in net' : NetOK(d)')
      /\ LateOK'
  BY <1>0, WriteStep
<1>2. committed' \subseteq CommitRec /\ CommittedOK' /\ LateNeverCommits'
  <2>1. sealed' \in Nat /\ sealed' >= sealed
    BY <1>0, <1>1
  <2> QED BY <1>0, <1>1, <2>1, CommitKept DEF CommitRec
<1>3. (\A i \in Id : OpenOK(i))' /\ (\A d \in net : NetOK(d))'
  BY <1>1
<1> QED BY <1>1, <1>2, <1>3 DEF World

\* The writer's own bookkeeping.
LEMMA WriterSet ==
    ASSUME Records, NEW w \in Id, NEW r \in WriterRec,
           r.by = writer[w].by, r.epoch = writer[w].epoch, writer' = [writer EXCEPT ![w] = r]
    PROVE  /\ writer' \in [Id -> WriterRec] /\ writer'[w] = r
           /\ \A v \in Id : writer'[v].by = writer[v].by /\ writer'[v].epoch = writer[v].epoch
<1>1. writer \in [Id -> WriterRec]
  BY DEF Records
<1>2. writer' \in [Id -> WriterRec] /\ writer'[w] = r /\ \A v \in Id : v # w => writer'[v] = writer[v]
  BY <1>1
<1> QED BY <1>2

LEMMA WriterFields ==
    ASSUME Records, NEW w \in Id, NEW b \in BOOLEAN, NEW h \in SUBSET Id, NEW s \in Nat,
           NEW f \in {[writer[w] EXCEPT !.fenced = b], [writer[w] EXCEPT !.has = h],
                      [writer[w] EXCEPT !.since = s],
                      [writer[w] EXCEPT !.since = s, !.fenced = b]}
    PROVE  f \in WriterRec /\ f.by = writer[w].by /\ f.epoch = writer[w].epoch
<1>1. writer[w] \in WriterRec
  BY DEF Records
<1> QED BY <1>1 DEF WriterRec

LEMMA RecordInv ==
    ASSUME IInv, NEW n \in Eligible, Record(n)
    PROVE  IInv' /\ MarksGrow
<1>0. /\ World /\ Records /\ Takes /\ Placed /\ TypeOK /\ sealed \in Nat /\ lease.epoch \in Nat
      /\ \A q \in Node : mark[q] \in Nat
  BY Parts, Basics DEF IInv, Placed
<1>1. UNCHANGED <<job, prepared, lease, fence, committed, lost>> /\ acting[n] # 0
  BY DEF Record
<1>2. PICK w \in Id : w = acting[n]
  <2>1. acting[n] \in Id \cup {0}
    BY <1>0 DEF Takes
  <2> QED BY <1>1, <2>1
<1>3. Writes(w, n)
  BY <1>0, <1>1, <1>2 DEF Takes
<1>4. PICK e \in Nat \ {0} : e = writer[w].epoch
  BY <1>0, <1>3 DEF Writes
<1>5. /\ log[n] \in Seq(Entry) /\ n \in Node /\ Chain(log[n])
      /\ LastEpoch(log[n]) \in Nat /\ LastEpoch(log[n]) <= mark[n]
  BY <1>0, Basics, LastTypes DEF World, LogsRestart
<1>6. PICK l \in Seq(Entry) : l = log[n]
  BY <1>5
<1>7. CASE /\ writer' = [writer EXCEPT ![w].fenced = TRUE]
           /\ acting' = [acting EXCEPT ![n] = 0]
           /\ UNCHANGED <<log, mark, call, net, sealed, late>>
  <2>1. /\ writer' \in [Id -> WriterRec]
        /\ \A v \in Id : writer'[v].by = writer[v].by /\ writer'[v].epoch = writer[v].epoch
    <3> DEFINE r == [writer[w] EXCEPT !.fenced = TRUE]
    <3>1. writer' = [writer EXCEPT ![w] = r]
      BY <1>7
    <3>2. r \in WriterRec /\ r.by = writer[w].by /\ r.epoch = writer[w].epoch
      BY <1>0, WriterFields
    <3> HIDE DEF r
    <3> QED BY <1>0, <3>1, <3>2, WriterSet
  <2>2. Grows
    BY <1>0, <1>1, <1>7, <2>1, Basics DEF Grows
  <2>3. World'
    BY <1>1, <1>7, <2>2, Quiet
  <2>4. Records'
    BY <1>0, <1>1, <1>7, <2>1 DEF Records
  <2>5. Takes'
    <3>1. /\ acting' \in [Eligible -> Id \cup {0}]
          /\ \A m \in Eligible : acting'[m] = acting[m] \/ acting'[m] = 0
      BY <1>0, <1>7 DEF Takes
    <3> QED BY <1>0, <1>1, <2>2, <3>1, TakesKept DEF Takes
  <2>6. MarksGrow
    BY <1>0, <1>7 DEF MarksGrow
  <2> QED BY <2>3, <2>4, <2>5, <2>6, Assemble
<1>8. CASE \E x : /\ x = Seal(n, e, "change", l, {})
                  /\ mark[n] <= e /\ VerdictOne(l, mark[n], x) = "stored" /\ Room
                  /\ Write(n, x, l)
                  /\ writer' = [writer EXCEPT ![w].has = @ \cup {x.id}]
                  /\ call' = [call EXCEPT ![x.id] = Started(x, w)]
                  /\ net' = net \cup Sent(n, w, x)
                  /\ UNCHANGED acting
  <2>1. PICK x : /\ x = Seal(n, e, "change", l, {})
                 /\ mark[n] <= e /\ VerdictOne(l, mark[n], x) = "stored" /\ Room
                 /\ Write(n, x, l)
                 /\ writer' = [writer EXCEPT ![w].has = @ \cup {x.id}]
                 /\ call' = [call EXCEPT ![x.id] = Started(x, w)]
                 /\ net' = net \cup Sent(n, w, x)
                 /\ UNCHANGED acting
    BY <1>8
  <2>2. sealed < MaxEntry
    BY <2>1 DEF Room
  <2>3. /\ x \in Entry /\ x.id = sealed + 1 /\ x.epoch = e /\ x.kind = "change"
        /\ x.by = n /\ x.seq = LastSeq(l) + 1 /\ x.prev = LastHash(l)
    BY <1>0, <2>1, <2>2, SealType
  <2>4. x.id \in Id /\ LastEpoch(l) <= x.epoch /\ (x.epoch > LastEpoch(l) => x.kind = "term")
    <3>1. ~(x.epoch > LastEpoch(l) /\ x.kind # "term")
      BY <2>1 DEF VerdictOne
    <3>2. LastEpoch(l) <= e
      BY <1>0, <1>5, <1>6, <2>1
    <3>3. x.id \in Id
      BY <2>3 DEF Entry
    <3> QED BY <2>3, <3>1, <3>2, <3>3
  <2>5. /\ writer' \in [Id -> WriterRec]
        /\ \A v \in Id : writer'[v].by = writer[v].by /\ writer'[v].epoch = writer[v].epoch
    <3> DEFINE r == [writer[w] EXCEPT !.has = writer[w].has \cup {x.id}]
    <3>1. writer' = [writer EXCEPT ![w] = r]
      BY <2>1
    <3>2. writer[w].has \cup {x.id} \in SUBSET Id
      BY <1>0, <2>4 DEF Records, WriterRec
    <3>3. r \in WriterRec /\ r.by = writer[w].by /\ r.epoch = writer[w].epoch
      BY <1>0, <3>2, WriterFields
    <3> HIDE DEF r
    <3> QED BY <1>0, <3>1, <3>3, WriterSet
  <2>6. sealed' = sealed + 1
    BY <2>1, <2>3 DEF Write
  <2>7. Grows
    BY <1>0, <1>1, <2>5, <2>6, Basics DEF Grows
  <2>8. Writes(w, n)' /\ writer'[w].epoch = x.epoch
    BY <1>0, <1>3, <1>4, <2>3, <2>5, <2>7, WritesKept
  <2>9. /\ call' \in [Id -> CallRec] /\ call'[x.id] = Started(x, w)
        /\ \A i \in Id \ {x.id} : call'[i] = call[i]
    <3>1. Started(x, w) \in CallRec
      BY <2>3, Starting
    <3> QED BY <1>0, <2>1, <2>4, <3>1 DEF Records
  <2>10. World' /\ MarksGrow
    <3>1. Chain(l) /\ mark[n] <= x.epoch /\ (x.kind = "term" => w = x.id)
      BY <1>5, <1>6, <2>1, <2>3
    <3>2. net' \subseteq net \cup Sent(n, w, x) /\ Write(n, x, l) /\ committed' = committed
      BY <1>1, <2>1
    <3> QED BY <2>2, <2>3, <2>4, <2>7, <2>8, <2>9, <3>1, <3>2, WriteWorld
  <2>11. Records'
    BY <1>0, <1>1, <2>5, <2>9 DEF Records
  <2>12. Takes'
    BY <1>0, <1>1, <2>1, <2>7, TakesKept DEF Takes
  <2> QED BY <2>10, <2>11, <2>12, Assemble
<1> QED
  <2>1. \/ /\ writer' = [writer EXCEPT ![w].fenced = TRUE]
           /\ acting' = [acting EXCEPT ![n] = 0]
           /\ UNCHANGED <<log, mark, call, net, sealed, late>>
        \/ /\ mark[n] <= e
           /\ VerdictOne(l, mark[n], Seal(n, e, "change", l, {})) = "stored" /\ Room
           /\ Write(n, Seal(n, e, "change", l, {}), l)
           /\ writer' = [writer EXCEPT ![w].has = @ \cup {Seal(n, e, "change", l, {}).id}]
           /\ call' = [call EXCEPT ![Seal(n, e, "change", l, {}).id] =
                                      Started(Seal(n, e, "change", l, {}), w)]
           /\ net' = net \cup Sent(n, w, Seal(n, e, "change", l, {}))
           /\ UNCHANGED acting
    BY <1>2, <1>4, <1>6 DEF Record
  <2> QED BY <1>7, <1>8, <2>1
-----------------------------------------------------------------------------
(* Results *)

LEMMA CloseOK ==
    ASSUME Records, NEW i \in Id, Close(call, i)
    PROVE  /\ call' \in [Id -> CallRec] /\ net' \subseteq net
           /\ \A j \in Id : call'[j] = call[j] \/ call'[j] = NoCall
<1>1. call' = [call EXCEPT ![i] = NoCall]
  BY DEF Close
<1>2. net' \subseteq net
  BY DEF Close
<1> QED BY <1>1, <1>2, Empties DEF Records

LEMMA JobSet ==
    ASSUME Takes, NEW n \in Eligible, NEW k \in Job, NEW r \in JobRec,
           job' = [job EXCEPT ![n][k] = r]
    PROVE  /\ job' \in [Eligible -> [Job -> JobRec]] /\ job'[n][k] = r
           /\ \A m \in Eligible, q \in Job : (m # n \/ q # k) => job'[m][q] = job[m][q]
<1>1. job \in [Eligible -> [Job -> JobRec]] /\ job[n] \in [Job -> JobRec]
  BY DEF Takes
<1> DEFINE f == [job[n] EXCEPT ![k] = r]
<1>2. f \in [Job -> JobRec] /\ f[k] = r /\ \A q \in Job : q # k => f[q] = job[n][q]
  BY <1>1
<1>3. job' = [job EXCEPT ![n] = f]
  OBVIOUS
<1> HIDE DEF f
<1>4. /\ job' \in [Eligible -> [Job -> JobRec]] /\ job'[n] = f
      /\ \A m \in Eligible : m # n => job'[m] = job[m]
  BY <1>1, <1>2, <1>3
<1> QED BY <1>2, <1>4

\* Whose call is open.
LEMMA Caller ==
    ASSUME IInv, NEW i \in Open
    PROVE  /\ i \in Id /\ call[i].open /\ i <= sealed /\ call[i].w \in Id
           /\ writer[call[i].w].by \in Eligible
           /\ Writes(call[i].w, writer[call[i].w].by)
           /\ call[i].kind = "term" => call[i].w = i
<1>1. World /\ TypeOK /\ i \in Id /\ call[i].open
  BY Parts DEF IInv, Placed, Open
<1>2. OpenOK(i)
  BY <1>1 DEF World
<1>3. PICK n \in Eligible : Writes(call[i].w, n)
  BY <1>1, <1>2 DEF OpenOK
<1>4. writer[call[i].w].by = n /\ call[i].w \in Id
  BY <1>1, <1>3, Basics DEF Writes
<1> QED BY <1>1, <1>2, <1>3, <1>4 DEF OpenOK

LEMMA StartReturnsInv ==
    ASSUME IInv, NEW i \in Open, NEW seen \in SUBSET Node, StartReturns(i, seen)
    PROVE  IInv'
<1>0. /\ World /\ Records /\ Takes /\ Placed /\ TypeOK /\ sealed \in Nat /\ lease.epoch \in Nat
  BY Parts, Basics DEF IInv, Placed
<1>1. UNCHANGED <<log, mark, prepared, lease, sealed, lost, late>> /\ Close(call, i)
      /\ call[i].kind = "term"
  BY DEF StartReturns, replicas
<1>2. /\ i \in Id /\ call[i].w = i /\ writer[i].by \in Eligible /\ Writes(i, writer[i].by)
  BY <1>1, Caller
<1>3. PICK n \in Eligible : n = writer[i].by
  BY <1>2
<1>4. PICK k \in Job :
         \/ /\ Commits(i, seen) /\ Commit(i)
            /\ acting' = [acting EXCEPT ![n] = i] /\ Idle(n, k)
            /\ UNCHANGED <<writer, fence>>
         \/ /\ writer' = [writer EXCEPT ![i].fenced = @ \/ Stale(i, seen)]
            /\ StepDown(n) /\ Idle(n, k)
            /\ fence' = [fence EXCEPT ![n] = 0]
            /\ UNCHANGED committed
  BY <1>2, <1>3 DEF StartReturns
<1>5. job' = [job EXCEPT ![n][k] = NoJob]
  BY <1>4 DEF Idle
<1>6. /\ job' \in [Eligible -> [Job -> JobRec]]
      /\ \A m \in Eligible, q \in Job : job'[m][q] = job[m][q] \/ job'[m][q] = NoJob
  <2>1. NoJob \in JobRec
    BY Empties
  <2>2. /\ job' \in [Eligible -> [Job -> JobRec]] /\ job'[n][k] = NoJob
        /\ \A m \in Eligible, q \in Job : (m # n \/ q # k) => job'[m][q] = job[m][q]
    BY <1>0, <1>5, <2>1, JobSet
  <2>3. ASSUME NEW m \in Eligible, NEW q \in Job
        PROVE  job'[m][q] = job[m][q] \/ job'[m][q] = NoJob
    <3>1. CASE m = n /\ q = k
      BY <2>2, <3>1
    <3>2. CASE m # n \/ q # k
      BY <2>2, <3>2
    <3> QED BY <3>1, <3>2
  <2> QED BY <2>2, <2>3
<1>7. /\ call' \in [Id -> CallRec] /\ net' \subseteq net
      /\ \A j \in Id : call'[j] = call[j] \/ call'[j] = NoCall
  BY <1>0, <1>1, <1>2, CloseOK
<1>8. /\ writer' \in [Id -> WriterRec]
      /\ \A v \in Id : writer'[v].by = writer[v].by /\ writer'[v].epoch = writer[v].epoch
  <2>1. CASE writer' = writer
    BY <1>0, <2>1 DEF Records
  <2>2. CASE writer' = [writer EXCEPT ![i].fenced = @ \/ Stale(i, seen)]
    <3>1. PICK b \in BOOLEAN : b = (writer[i].fenced \/ Stale(i, seen))
      OBVIOUS
    <3> DEFINE r == [writer[i] EXCEPT !.fenced = b]
    <3>2. writer' = [writer EXCEPT ![i] = r]
      BY <2>2, <3>1
    <3>3. r \in WriterRec /\ r.by = writer[i].by /\ r.epoch = writer[i].epoch
      BY <1>0, <1>2, WriterFields
    <3> HIDE DEF r
    <3> QED BY <1>0, <1>2, <3>2, <3>3, WriterSet
  <2> QED BY <1>4, <2>1, <2>2
<1>9. Grows
  BY <1>0, <1>1, <1>8, Basics DEF Grows
<1>10. \/ committed' = committed
       \/ \E j \in Open : \E s \in SUBSET Node : Commits(j, s) /\ Commit(j)
  BY <1>4
<1>11. World'
  BY <1>1, <1>7, <1>9, <1>10, Quiet
<1>12. Records'
  BY <1>0, <1>1, <1>7, <1>8 DEF Records
<1>13. Takes'
  <2>1. /\ fence' \in [Eligible -> Nat]
        /\ \A m \in Eligible : fence'[m] = fence[m] \/ fence'[m] = 0
    BY <1>0, <1>4 DEF Takes
  <2>2. acting' = [acting EXCEPT ![n] = i] \/ acting' = [acting EXCEPT ![n] = 0]
    BY <1>4 DEF StepDown
  <2>3. /\ acting' \in [Eligible -> Id \cup {0}]
        /\ \A m \in Eligible : \/ acting'[m] = acting[m] \/ acting'[m] = 0
                               \/ \E w \in Id : acting'[m] = w /\ Writes(w, m)
    BY <1>0, <1>2, <1>3, <2>2 DEF Takes
  <2>4. /\ prepared' \in [Eligible -> Base] /\ \A m \in Eligible : prepared'[m] = prepared[m]
    BY <1>0, <1>1 DEF Takes
  <2> QED BY <1>1, <1>6, <1>9, <2>1, <2>3, <2>4, TakesKept
<1> QED BY <1>11, <1>12, <1>13, Assemble

LEMMA SnapshotReturnsInv ==
    ASSUME IInv, NEW i \in Open, NEW seen \in SUBSET Node, SnapshotReturns(i, seen)
    PROVE  IInv'
<1>0. /\ World /\ Records /\ Takes /\ Placed /\ TypeOK /\ sealed \in Nat /\ lease.epoch \in Nat
  BY Parts, Basics DEF IInv, Placed
<1>1. UNCHANGED <<mark, job, prepared, lease, fence, sealed, lost, late>> /\ Close(call, i)
  BY DEF SnapshotReturns
<1>2. i \in Id /\ call[i].w \in Id /\ writer[call[i].w].by \in Eligible
  BY Caller
<1>3. PICK w \in Id : w = call[i].w
  BY <1>2
<1>4. PICK n \in Eligible : n = writer[w].by
  BY <1>2, <1>3
<1>5. \/ /\ Commits(i, seen) /\ Commit(i)
         /\ writer' = [writer EXCEPT ![w].since = 0]
         /\ log' = [log EXCEPT ![n] = Compact(@, call[i].seq)]
         /\ UNCHANGED acting
      \/ /\ writer' = [writer EXCEPT ![w].fenced = @ \/ Stale(i, seen)]
         /\ StepDown(n) \/ UNCHANGED acting
         /\ UNCHANGED <<log, committed>>
  BY <1>3, <1>4 DEF SnapshotReturns
<1>7. /\ call' \in [Id -> CallRec] /\ net' \subseteq net
      /\ \A j \in Id : call'[j] = call[j] \/ call'[j] = NoCall
  BY <1>0, <1>1, <1>2, CloseOK
<1>8. /\ writer' \in [Id -> WriterRec]
      /\ \A v \in Id : writer'[v].by = writer[v].by /\ writer'[v].epoch = writer[v].epoch
  <2>1. CASE writer' = [writer EXCEPT ![w].since = 0]
    <3> DEFINE r == [writer[w] EXCEPT !.since = 0]
    <3>1. writer' = [writer EXCEPT ![w] = r]
      BY <2>1
    <3>2. r \in WriterRec /\ r.by = writer[w].by /\ r.epoch = writer[w].epoch
      BY <1>0, WriterFields
    <3> HIDE DEF r
    <3> QED BY <1>0, <3>1, <3>2, WriterSet
  <2>2. CASE writer' = [writer EXCEPT ![w].fenced = @ \/ Stale(i, seen)]
    <3>1. PICK b \in BOOLEAN : b = (writer[w].fenced \/ Stale(i, seen))
      OBVIOUS
    <3> DEFINE r == [writer[w] EXCEPT !.fenced = b]
    <3>2. writer' = [writer EXCEPT ![w] = r]
      BY <2>2, <3>1
    <3>3. r \in WriterRec /\ r.by = writer[w].by /\ r.epoch = writer[w].epoch
      BY <1>0, WriterFields
    <3> HIDE DEF r
    <3> QED BY <1>0, <3>2, <3>3, WriterSet
  <2> QED BY <1>5, <2>1, <2>2
<1>9. Grows
  BY <1>0, <1>1, <1>8, Basics DEF Grows
<1>10. \/ committed' = committed
       \/ \E j \in Open : \E s \in SUBSET Node : Commits(j, s) /\ Commit(j)
  BY <1>5
<1>11. log' \in [Node -> Seq(Entry)] /\ LogsRestart'
  <2>1. CASE log' = log
    BY <1>0, <1>1, <2>1 DEF World, LogsRestart
  <2>2. CASE log' = [log EXCEPT ![n] = Compact(@, call[i].seq)]
    <3> DEFINE k == Compact(log[n], call[i].seq)
    <3>1. /\ n \in Node /\ log[n] \in Seq(Entry) /\ Chain(log[n]) /\ LastEpoch(log[n]) <= mark[n]
      BY <1>0, Basics DEF World, LogsRestart
    <3>2. k \in Seq(Entry) /\ Chain(k) /\ LastEpoch(k) <= mark[n]
      BY <3>1, CompactChain
    <3>3. log' = [log EXCEPT ![n] = k]
      BY <2>2
    <3> HIDE DEF k
    <3>4. log' \in [Node -> Seq(Entry)]
      BY <1>0, <3>2, <3>3 DEF World
    <3>5. ASSUME NEW p \in Node PROVE Chain(log'[p]) /\ LastEpoch(log'[p]) <= mark'[p]
      <4>1. CASE p = n
        BY <1>0, <1>1, <3>1, <3>2, <3>3, <4>1 DEF World
      <4>2. CASE p # n
        BY <1>0, <1>1, <3>3, <4>2 DEF World, LogsRestart
      <4> QED BY <4>1, <4>2
    <3> QED BY <3>4, <3>5 DEF LogsRestart
  <2> QED BY <1>5, <2>1, <2>2
<1>12. World'
  <2>1. /\ mark' \in [Node -> Nat] /\ MarksGrow /\ \A p \in Node : mark'[p] <= lease'.epoch
    BY <1>0, <1>1, Basics DEF World, MarksGrow
  <2>2. \A j \in Id : call'[j].open =>
            /\ call[j].open /\ call'[j].w = call[j].w /\ call'[j].kind = call[j].kind
            /\ \A q \in Node : Shut(j, q) => call'[j].reply[q] \notin {"ok", "retry"}
    <3> TAKE j \in Id
    <3>1. CASE call'[j] = call[j]
      BY <3>1 DEF Shut
    <3>2. CASE call'[j] = NoCall
      BY <3>2, Empties
    <3> QED BY <1>7, <3>1, <3>2
  <2>3. sealed' = sealed /\ late' = late /\ \A d \in net' : d \in net
    BY <1>1, <1>7
  <2> QED BY <1>9, <1>10, <1>11, <2>1, <2>2, <2>3, Frame
<1>13. Records'
  BY <1>0, <1>1, <1>7, <1>8 DEF Records
<1>14. Takes'
  <2>1. acting' = acting \/ acting' = [acting EXCEPT ![n] = 0]
    BY <1>5 DEF StepDown
  <2>2. /\ acting' \in [Eligible -> Id \cup {0}]
        /\ \A m \in Eligible : acting'[m] = acting[m] \/ acting'[m] = 0
    BY <1>0, <2>1 DEF Takes
  <2> QED BY <1>0, <1>1, <1>9, <2>2, TakesKept DEF Takes
<1> QED BY <1>12, <1>13, <1>14, Assemble

LEMMA RecordReturnsInv ==
    ASSUME IInv, NEW i \in Open, NEW seen \in SUBSET Node, RecordReturns(i, seen)
    PROVE  IInv' /\ MarksGrow
<1>0. /\ World /\ Records /\ Takes /\ Placed /\ TypeOK /\ sealed \in Nat /\ lease.epoch \in Nat
      /\ \A q \in Node : mark[q] \in Nat
  BY Parts, Basics DEF IInv, Placed
<1>1. UNCHANGED <<job, prepared, lease, fence, lost>>
  BY DEF RecordReturns
<1>2. /\ i \in Id /\ i <= sealed /\ call[i].w \in Id
      /\ writer[call[i].w].by \in Eligible /\ Writes(call[i].w, writer[call[i].w].by)
  BY Caller
<1>3. PICK w \in Id : w = call[i].w
  BY <1>2
<1>4. PICK n \in Eligible : n = writer[w].by
  BY <1>2, <1>3
<1>5. writer[w] \in WriterRec /\ Writes(w, n)
  BY <1>0, <1>2, <1>3, <1>4 DEF Records
<1>6. PICK e \in Nat \ {0} : e = writer[w].epoch
  BY <1>0, <1>5 DEF Writes
<1>7. PICK h \in SUBSET Id : h = writer[w].has
  BY <1>5 DEF WriterRec
<1>8. PICK s \in Nat : s = writer[w].since + 1
  BY <1>5 DEF WriterRec
<1>9. /\ log[n] \in Seq(Entry) /\ n \in Node /\ Chain(log[n])
      /\ LastEpoch(log[n]) \in Nat /\ LastEpoch(log[n]) <= mark[n]
  BY <1>0, Basics, LastTypes DEF World, LogsRestart
<1>10. PICK l \in Seq(Entry) : l = log[n]
  BY <1>9
<1>11. PICK x : x = Seal(n, e, "snapshot", l, h)
  OBVIOUS
<1> DEFINE counted == [writer EXCEPT ![w].since = @ + 1]
<1>12. \/ committed' = committed
       \/ \E j \in Open : \E t \in SUBSET Node : Commits(j, t) /\ Commit(j)
  BY DEF RecordReturns
<1>13. \/ /\ \/ writer' = [writer EXCEPT ![w].fenced = TRUE] \/ writer' = counted
             \/ writer' = [counted EXCEPT ![w].fenced = TRUE]
          /\ StepDown(n) \/ UNCHANGED acting
          /\ Close(call, i) /\ UNCHANGED <<log, mark, sealed, late>>
       \/ /\ mark[n] <= e /\ VerdictOne(l, mark[n], x) = "stored" /\ sealed < MaxEntry
          /\ Write(n, x, l)
          /\ writer' = counted
          /\ call' = [call EXCEPT ![i] = NoCall, ![x.id] = Started(x, w)]
          /\ net' = Sent(n, w, x) \cup
                       (IF "late" \in Extra THEN net ELSE {d \in net : d.id # i})
          /\ UNCHANGED acting
  BY <1>3, <1>4, <1>6, <1>7, <1>10, <1>11 DEF RecordReturns
<1>14. /\ writer' \in [Id -> WriterRec]
       /\ \A v \in Id : writer'[v].by = writer[v].by /\ writer'[v].epoch = writer[v].epoch
  <2>1. PICK r : /\ r \in {[writer[w] EXCEPT !.fenced = TRUE], [writer[w] EXCEPT !.since = s],
                           [writer[w] EXCEPT !.since = s, !.fenced = TRUE]}
                 /\ writer' = [writer EXCEPT ![w] = r]
    <3>1. CASE writer' = [writer EXCEPT ![w].fenced = TRUE]
      BY <3>1
    <3>2. CASE writer' = counted
      BY <1>8, <3>2
    <3>3. CASE writer' = [counted EXCEPT ![w].fenced = TRUE]
      <4> DEFINE r1 == [writer[w] EXCEPT !.since = s]
                 r2 == [writer[w] EXCEPT !.since = s, !.fenced = TRUE]
      <4>1. counted = [writer EXCEPT ![w] = r1]
        BY <1>8
      <4>2. counted[w] = r1
        BY <1>0, <4>1 DEF Records
      <4>3. r2 = [r1 EXCEPT !.fenced = TRUE]
        BY <1>5 DEF WriterRec
      <4>4. writer' = [counted EXCEPT ![w] = r2]
        BY <3>3, <4>2, <4>3
      <4> HIDE DEF r1, r2
      <4>5. writer' = [writer EXCEPT ![w] = r2]
        BY <1>0, <4>1, <4>4 DEF Records
      <4> QED BY <4>5 DEF r2
    <3> QED BY <1>13, <3>1, <3>2, <3>3
  <2>2. r \in WriterRec /\ r.by = writer[w].by /\ r.epoch = writer[w].epoch
    BY <1>5, <2>1 DEF WriterRec
  <2> QED BY <1>0, <2>1, <2>2, WriterSet
<1> HIDE DEF counted
<1>15. CASE /\ StepDown(n) \/ UNCHANGED acting
            /\ Close(call, i) /\ UNCHANGED <<log, mark, sealed, late>>
  <2>1. /\ call' \in [Id -> CallRec] /\ net' \subseteq net
        /\ \A j \in Id : call'[j] = call[j] \/ call'[j] = NoCall
    BY <1>0, <1>2, <1>15, CloseOK
  <2>2. Grows
    BY <1>0, <1>1, <1>14, <1>15, Basics DEF Grows
  <2>3. World'
    BY <1>12, <1>15, <2>1, <2>2, Quiet
  <2>4. Records'
    BY <1>0, <1>1, <1>14, <2>1 DEF Records
  <2>5. Takes'
    <3>1. acting' = acting \/ acting' = [acting EXCEPT ![n] = 0]
      BY <1>15 DEF StepDown
    <3>2. /\ acting' \in [Eligible -> Id \cup {0}]
          /\ \A m \in Eligible : acting'[m] = acting[m] \/ acting'[m] = 0
      BY <1>0, <3>1 DEF Takes
    <3> QED BY <1>0, <1>1, <2>2, <3>2, TakesKept DEF Takes
  <2>6. MarksGrow
    BY <1>0, <1>15 DEF MarksGrow
  <2> QED BY <2>3, <2>4, <2>5, <2>6, Assemble
<1>16. CASE /\ mark[n] <= e /\ VerdictOne(l, mark[n], x) = "stored" /\ sealed < MaxEntry
            /\ Write(n, x, l)
            /\ call' = [call EXCEPT ![i] = NoCall, ![x.id] = Started(x, w)]
            /\ net' = Sent(n, w, x) \cup
                         (IF "late" \in Extra THEN net ELSE {d \in net : d.id # i})
            /\ UNCHANGED acting
  <2>1. /\ x \in Entry /\ x.id = sealed + 1 /\ x.epoch = e /\ x.kind = "snapshot"
        /\ x.by = n /\ x.seq = LastSeq(l) + 1 /\ x.prev = LastHash(l)
    BY <1>0, <1>11, <1>16, SealType
  <2>2. x.id \in Id /\ LastEpoch(l) <= x.epoch /\ (x.epoch > LastEpoch(l) => x.kind = "term")
    <3>1. ~(x.epoch > LastEpoch(l) /\ x.kind # "term")
      BY <1>16 DEF VerdictOne
    <3>2. LastEpoch(l) <= e
      BY <1>0, <1>9, <1>10, <1>16
    <3>3. x.id \in Id
      BY <2>1 DEF Entry
    <3> QED BY <2>1, <3>1, <3>2, <3>3
  <2>3. sealed' = sealed + 1
    BY <1>16, <2>1 DEF Write
  <2>4. Grows
    BY <1>0, <1>1, <1>14, <2>3, Basics DEF Grows
  <2>5. Writes(w, n)' /\ writer'[w].epoch = x.epoch
    BY <1>0, <1>5, <1>6, <1>14, <2>1, <2>4, WritesKept
  <2>6. /\ call' \in [Id -> CallRec] /\ call'[x.id] = Started(x, w)
        /\ \A j \in Id \ {x.id} : call'[j] = call[j] \/ call'[j] = NoCall
    <3>1. Started(x, w) \in CallRec
      BY <2>1, Starting
    <3> QED BY <1>0, <1>16, <2>2, <3>1, Empties DEF Records
  <2>7. World' /\ MarksGrow
    <3>1. Chain(l) /\ mark[n] <= x.epoch /\ (x.kind = "term" => w = x.id)
      BY <1>9, <1>10, <1>16, <2>1
    <3>2. net' \subseteq net \cup Sent(n, w, x)
      BY <1>16
    <3>3. Write(n, x, l) /\ sealed < MaxEntry
      BY <1>16
    <3> QED BY <1>12, <2>1, <2>2, <2>4, <2>5, <2>6, <3>1, <3>2, <3>3, WriteWorld
  <2>8. Records'
    BY <1>0, <1>1, <1>14, <2>6 DEF Records
  <2>9. Takes'
    BY <1>0, <1>1, <1>16, <2>4, TakesKept DEF Takes
  <2> QED BY <2>7, <2>8, <2>9, Assemble
<1> QED BY <1>13, <1>15, <1>16
-----------------------------------------------------------------------------
(* Takeovers *)

LEMMA TakesMade ==
    ASSUME IInv, Grows,
           lease' \in [holder : Node \cup {NoNode}, epoch : Nat],
           lease'.holder # NoNode => lease'.epoch > 0,
           fence' \in [Eligible -> Nat],
           \A n \in Eligible : fence'[n] # 0 => fence'[n] = lease'.epoch,
           job' \in [Eligible -> [Job -> JobRec]],
           \A n \in Eligible, k \in Job :
               \/ job'[n][k] = job[n][k]
               \/ /\ BaseOK(job'[n][k].base)
                  /\ job'[n][k].st = "reread" => job'[n][k].epoch \in 1..lease'.epoch,
           prepared' \in [Eligible -> Base], \A n \in Eligible : BaseOK(prepared'[n]),
           acting' \in [Eligible -> Id \cup {0}],
           \A n \in Eligible : acting'[n] = acting[n] \/ acting'[n] = 0
    PROVE  Takes'
<1>0. Takes /\ Placed /\ lease.epoch \in Nat
  BY Parts, Basics DEF IInv, Placed
<1>1. ASSUME NEW n \in Eligible, NEW k \in Job
      PROVE  /\ job'[n][k].st = "reread" => job'[n][k].epoch \in 1..lease'.epoch
             /\ BaseOK(job'[n][k].base)
  <2>1. CASE job'[n][k] = job[n][k]
    <3>1. BaseOK(job[n][k].base)
      BY <1>0 DEF Takes
    <3>2. job[n][k].st = "reread" => job[n][k].epoch \in 1..lease.epoch
      BY <1>0 DEF Takes
    <3>3. 1..lease.epoch \subseteq 1..lease'.epoch
      BY <1>0 DEF Grows
    <3> QED BY <2>1, <3>1, <3>2, <3>3
  <2>2. CASE job'[n][k] # job[n][k]
    BY <2>2
  <2> QED BY <2>1, <2>2
<1>2. \A n \in Eligible : acting'[n] # 0 => Writes(acting[n], n)'
  <2> TAKE n \in Eligible
  <2>1. CASE acting'[n] = acting[n]
    BY <1>0, <2>1, ActingKept
  <2> QED BY <2>1
<1>3. (\A n \in Eligible, k \in Job :
          /\ job[n][k].st = "reread" => job[n][k].epoch \in 1..lease.epoch
          /\ BaseOK(job[n][k].base))'
  BY <1>1 DEF BaseOK
<1>4. (\A n \in Eligible : BaseOK(prepared[n]))'
  BY DEF BaseOK
<1> QED BY <1>2, <1>3, <1>4 DEF Takes

\* A node begins to read a majority of logs, or goes on.
LEMMA ExportInv ==
    ASSUME IInv, NEW n \in Eligible, NEW p \in Node, NEW k \in Job, Export(n, k, p)
    PROVE  IInv'
<1>0. /\ World /\ Records /\ Takes /\ Placed /\ TypeOK /\ sealed \in Nat /\ lease.epoch \in Nat
  BY Parts, Basics DEF IInv, Placed
<1>1. UNCHANGED <<log, mark, writer, acting, prepared, call, net, lease, fence, sealed,
                  committed, lost, late>>
  BY DEF Export, replicas, history
<1>2. job[n][k] \in JobRec /\ BaseOK(job[n][k].base)
  BY <1>0 DEF Takes
<1>3. PICK c \in Base : c = job[n][k].base
  BY <1>2 DEF JobRec
<1>4. PICK b \in Merges(c, p) :
         job' = [job EXCEPT ![n][k] =
                    [job[n][k] EXCEPT !.st = IF job[n][k].st = "idle" THEN "read" ELSE job[n][k].st,
                                      !.base = b, !.asked = job[n][k].asked \cup {p}]]
  BY <1>3 DEF Export
<1>5. b \in Base /\ BaseOK(b)
  BY <1>0, <1>2, <1>3, MergesOK
<1> DEFINE r == [job[n][k] EXCEPT !.st = IF job[n][k].st = "idle" THEN "read" ELSE job[n][k].st,
                                  !.base = b, !.asked = job[n][k].asked \cup {p}]
<1>6. /\ r \in JobRec /\ r.base = b /\ r.epoch = job[n][k].epoch
      /\ r.st = "reread" => job[n][k].st = "reread"
  BY <1>2, <1>5 DEF JobRec
<1>7. job'  = [job EXCEPT ![n][k] = r]
  BY <1>4
<1> HIDE DEF r
<1>8. /\ job' \in [Eligible -> [Job -> JobRec]] /\ job'[n][k] = r
      /\ \A m \in Eligible, q \in Job : (m # n \/ q # k) => job'[m][q] = job[m][q]
  <2>1. Takes /\ r \in JobRec
    BY <1>0, <1>6
  <2> QED BY <1>7, <2>1, JobSet
<1>9. Grows
  BY <1>0, <1>1 DEF Grows
<1>10. World'
  BY <1>1, <1>9, Quiet
<1>11. Records'
  BY <1>0, <1>1 DEF Records
<1>12. Takes'
  <2>1. ASSUME NEW m \in Eligible, NEW q \in Job
        PROVE  \/ job'[m][q] = job[m][q]
               \/ /\ BaseOK(job'[m][q].base)
                  /\ job'[m][q].st = "reread" => job'[m][q].epoch \in 1..lease'.epoch
    <3>1. CASE m = n /\ q = k
      <4>1. BaseOK(job'[m][q].base)
        BY <1>5, <1>6, <1>8, <3>1
      <4>2. job'[m][q].st = "reread" => job'[m][q].epoch \in 1..lease'.epoch
        BY <1>0, <1>1, <1>6, <1>8, <3>1 DEF Takes
      <4> QED BY <4>1, <4>2
    <3>2. CASE m # n \/ q # k
      BY <1>8, <3>2
    <3> QED BY <3>1, <3>2
  <2>2. \A m \in Eligible : BaseOK(prepared'[m])
    BY <1>0, <1>1 DEF Takes
  <2>3. /\ lease' \in [holder : Node \cup {NoNode}, epoch : Nat]
        /\ lease'.holder # NoNode => lease'.epoch > 0
        /\ fence' \in [Eligible -> Nat]
        /\ \A m \in Eligible : fence'[m] # 0 => fence'[m] = lease'.epoch
        /\ prepared' \in [Eligible -> Base]
        /\ acting' \in [Eligible -> Id \cup {0}]
        /\ \A m \in Eligible : acting'[m] = acting[m] \/ acting'[m] = 0
    BY <1>0, <1>1 DEF Takes
  <2> QED BY <1>8, <1>9, <2>1, <2>2, <2>3, TakesMade
<1> QED BY <1>10, <1>11, <1>12, Assemble

\* A term adopted from a base that covers the local mark.
LEMMA AdoptTermInv ==
    ASSUME IInv, NEW n \in Eligible, NEW k \in Job, NEW b \in Base, BaseOK(b),
           NEW e \in Nat \ {0}, NEW f \in [Eligible -> Nat],
           lease' \in [holder : Node \cup {NoNode}, epoch : Nat],
           lease'.holder # NoNode => lease'.epoch > 0,
           lease'.epoch >= lease.epoch, e <= lease'.epoch,
           ~Refuses(n, b, e) => mark[n] <= e,
           \A m \in Eligible : f[m] # 0 => f[m] = lease'.epoch,
           prepared' \in [Eligible -> Base], \A m \in Eligible : BaseOK(prepared'[m]),
           AdoptTerm(n, k, b, e, f), committed' = committed
    PROVE  IInv' /\ MarksGrow
<1>0. /\ World /\ Records /\ Takes /\ Placed /\ TypeOK /\ sealed \in Nat /\ lease.epoch \in Nat
      /\ lease'.epoch \in Nat /\ \A q \in Node : mark[q] \in Nat
  BY Parts, Basics DEF IInv, Placed
<1>1. CASE /\ GiveUp(n, k, f)
           /\ UNCHANGED <<replicas, writer, call, net, sealed, lost, late>>
  <2>1. /\ UNCHANGED <<log, mark, writer, call, net, sealed, lost, late>>
        /\ acting' = [acting EXCEPT ![n] = 0] /\ job' = [job EXCEPT ![n][k] = NoJob]
        /\ fence' = [f EXCEPT ![n] = 0]
    BY <1>1 DEF GiveUp, StepDown, Idle, replicas
  <2>2. Grows
    BY <1>0, <2>1 DEF Grows
  <2>3. World'
    BY <2>1, <2>2, Quiet
  <2>4. Records'
    BY <1>0, <2>1 DEF Records
  <2>5. /\ job' \in [Eligible -> [Job -> JobRec]] /\ job'[n][k] = NoJob
        /\ \A m \in Eligible, q \in Job : (m # n \/ q # k) => job'[m][q] = job[m][q]
    <3>1. NoJob \in JobRec /\ Takes
      BY <1>0, Empties
    <3>2. job' = [job EXCEPT ![n][k] = NoJob]
      BY <2>1
    <3> QED BY <3>1, <3>2, JobSet, ZenonT(30)
  <2>6. ASSUME NEW m \in Eligible, NEW q \in Job
        PROVE  \/ job'[m][q] = job[m][q]
               \/ /\ BaseOK(job'[m][q].base)
                  /\ job'[m][q].st = "reread" => job'[m][q].epoch \in 1..lease'.epoch
    <3>1. CASE m = n /\ q = k
      <4>1. BaseOK(NoBase) /\ NoJob.base = NoBase /\ NoJob.st = "idle"
        BY Empties DEF NoJob
      <4> QED BY <2>5, <3>1, <4>1
    <3>2. CASE m # n \/ q # k
      BY <2>5, <3>2
    <3> QED BY <3>1, <3>2
  <2>7. /\ acting' \in [Eligible -> Id \cup {0}]
        /\ \A m \in Eligible : acting'[m] = acting[m] \/ acting'[m] = 0
    BY <1>0, <2>1 DEF Takes
  <2>8. /\ fence' \in [Eligible -> Nat]
        /\ \A m \in Eligible : fence'[m] # 0 => fence'[m] = lease'.epoch
    BY <2>1
  <2>9. Takes'
    BY <2>2, <2>5, <2>6, <2>7, <2>8, TakesMade
  <2>10. MarksGrow
    BY <1>0, <2>1 DEF MarksGrow
  <2> QED BY <2>3, <2>4, <2>9, <2>10, Assemble
<1>2. CASE \E x : /\ x = Seal(n, e, "term", b.log, {})
                  /\ ~Refuses(n, b, e) /\ Room
                  /\ Write(n, x, b.log)
                  /\ writer' = [writer EXCEPT ![x.id] =
                                  [NoWriter EXCEPT !.by = n, !.epoch = e, !.has = Replay(b.log)]]
                  /\ call' = [call EXCEPT ![x.id] = Started(x, x.id)]
                  /\ net' = net \cup Sent(n, x.id, x)
                  /\ job' = [job EXCEPT ![n][k] = [NoJob EXCEPT !.st = "start", !.id = x.id]]
                  /\ StepDown(n)
                  /\ fence' = f
                  /\ lost' = lost \cup (Changes \ Replay(b.log))
  <2>1. PICK x : /\ x = Seal(n, e, "term", b.log, {})
                 /\ ~Refuses(n, b, e) /\ Room
                 /\ Write(n, x, b.log)
                 /\ writer' = [writer EXCEPT ![x.id] =
                                 [NoWriter EXCEPT !.by = n, !.epoch = e, !.has = Replay(b.log)]]
                 /\ call' = [call EXCEPT ![x.id] = Started(x, x.id)]
                 /\ net' = net \cup Sent(n, x.id, x)
                 /\ job' = [job EXCEPT ![n][k] = [NoJob EXCEPT !.st = "start", !.id = x.id]]
                 /\ StepDown(n)
                 /\ fence' = f
                 /\ lost' = lost \cup (Changes \ Replay(b.log))
    BY <1>2
  <2>2. sealed < MaxEntry /\ mark[n] <= e
    BY <2>1 DEF Room
  <2>3. PICK l \in Seq(Entry) : /\ l = b.log /\ Chain(l) /\ LastEpoch(l) \in Nat
                                /\ LastEpoch(l) <= e
    <3>1. b.log \in Seq(Entry) /\ b.max \in Nat /\ Chain(b.log) /\ LastEpoch(b.log) <= b.max
      BY DEF Base, BaseOK
    <3>2. b.max <= e
      BY <2>1, <3>1 DEF Refuses
    <3>3. LastEpoch(b.log) \in Nat
      BY <3>1, LastTypes
    <3> QED BY <3>1, <3>2, <3>3
  <2>4. /\ x \in Entry /\ x.id = sealed + 1 /\ x.epoch = e /\ x.kind = "term"
        /\ x.by = n /\ x.seq = LastSeq(l) + 1 /\ x.prev = LastHash(l)
    BY <1>0, <2>1, <2>2, <2>3, SealType
  <2>5. PICK w \in Id : w = x.id
    BY <2>4 DEF Entry
  <2>6. PICK r : r = [NoWriter EXCEPT !.by = n, !.epoch = e, !.has = Replay(b.log)]
    OBVIOUS
  <2>7. r \in WriterRec /\ r.by = n /\ r.epoch = e
    <3>1. Replay(b.log) \in SUBSET Id /\ n \in Node
      BY <1>0, <2>3, ReplayType, Basics
    <3>2. NoWriter \in WriterRec
      BY Empties
    <3> QED BY <2>6, <3>1, <3>2 DEF WriterRec, NoWriter
  <2>8. /\ writer' \in [Id -> WriterRec] /\ writer'[w] = r
        /\ \A v \in Id : v # w => writer'[v] = writer[v]
    BY <1>0, <2>1, <2>5, <2>6, <2>7 DEF Records
  <2>9. sealed' = sealed + 1
    BY <2>1, <2>4 DEF Write
  <2>10. Grows
    <3>1. ASSUME NEW v \in 1..sealed
          PROVE  writer'[v].by = writer[v].by /\ writer'[v].epoch = writer[v].epoch
      <4>1. v \in Id
        BY <1>0, Basics
      <4>2. v # w
        BY <1>0, <2>4, <2>5
      <4> QED BY <2>8, <4>1, <4>2
    <3> QED BY <1>0, <2>9, <3>1 DEF Grows
  <2>11. Writes(w, n)' /\ writer'[w].epoch = x.epoch
    <3>1. w \in 1..sealed'
      BY <1>0, <2>4, <2>5, <2>9
    <3> QED BY <1>0, <2>4, <2>7, <2>8, <3>1 DEF Writes
  <2>12. /\ call' \in [Id -> CallRec] /\ call'[x.id] = Started(x, w)
         /\ \A j \in Id \ {x.id} : call'[j] = call[j]
    <3>1. Started(x, w) \in CallRec
      BY <2>4, Starting
    <3> QED BY <1>0, <2>1, <2>5, <3>1 DEF Records
  <2>13. World' /\ MarksGrow
    <3>1. mark[n] <= x.epoch /\ (x.kind = "term" => w = x.id) /\ LastEpoch(l) <= x.epoch
      BY <2>2, <2>3, <2>4, <2>5
    <3>2. net' \subseteq net \cup Sent(n, w, x) /\ Write(n, x, l)
      BY <2>1, <2>3, <2>5
    <3>3. /\ sealed < MaxEntry /\ Chain(l)
          /\ \A j \in Id \ {x.id} : call'[j] = call[j] \/ call'[j] = NoCall
          /\ call'[x.id] = Started(x, w)
      BY <2>2, <2>3, <2>12
    <3> QED BY <2>4, <2>10, <2>11, <3>1, <3>2, <3>3, WriteWorld
  <2>14. Records'
    <3>1. lost' \subseteq Id
      <4>1. Changes \subseteq Id
        BY <1>0 DEF World, CommitRec, Changes
      <4> QED BY <1>0, <2>1, <4>1 DEF Records
    <3> QED BY <2>8, <2>12, <3>1 DEF Records
  <2>15. Takes'
    <3>1. PICK q : q = [NoJob EXCEPT !.st = "start", !.id = x.id]
      OBVIOUS
    <3>2. q \in JobRec /\ q.st = "start" /\ q.base = NoBase
      <4>1. NoJob \in JobRec /\ NoJob.base = NoBase
        BY Empties DEF NoJob
      <4> QED BY <2>5, <3>1, <4>1 DEF JobRec
    <3>3. /\ job' \in [Eligible -> [Job -> JobRec]] /\ job'[n][k] = q
          /\ \A m \in Eligible, j \in Job : (m # n \/ j # k) => job'[m][j] = job[m][j]
      <4>1. job' = [job EXCEPT ![n][k] = q]
        BY <2>1, <3>1
      <4>2. Takes /\ q \in JobRec
        BY <1>0, <3>2
      <4> QED BY <4>1, <4>2, JobSet, ZenonT(30)
    <3>4. ASSUME NEW m \in Eligible, NEW j \in Job
          PROVE  \/ job'[m][j] = job[m][j]
                 \/ /\ BaseOK(job'[m][j].base)
                    /\ job'[m][j].st = "reread" => job'[m][j].epoch \in 1..lease'.epoch
      <4>1. CASE m = n /\ j = k
        BY <3>2, <3>3, <4>1, Empties
      <4>2. CASE m # n \/ j # k
        BY <3>3, <4>2
      <4> QED BY <4>1, <4>2
    <3>5. acting' = [acting EXCEPT ![n] = 0]
      BY <2>1 DEF StepDown
    <3>6. /\ acting' \in [Eligible -> Id \cup {0}]
          /\ \A m \in Eligible : acting'[m] = acting[m] \/ acting'[m] = 0
      BY <1>0, <3>5 DEF Takes
    <3>7. /\ fence' \in [Eligible -> Nat]
          /\ \A m \in Eligible : fence'[m] # 0 => fence'[m] = lease'.epoch
      BY <2>1
    <3> QED BY <2>10, <3>3, <3>4, <3>6, <3>7, TakesMade
  <2> QED BY <2>13, <2>14, <2>15, Assemble
<1> QED
  <2>1. \/ /\ GiveUp(n, k, f)
           /\ UNCHANGED <<replicas, writer, call, net, sealed, lost, late>>
        \/ /\ ~Refuses(n, b, e) /\ Room
           /\ Write(n, Seal(n, e, "term", b.log, {}), b.log)
           /\ writer' = [writer EXCEPT ![Seal(n, e, "term", b.log, {}).id] =
                           [NoWriter EXCEPT !.by = n, !.epoch = e, !.has = Replay(b.log)]]
           /\ call' = [call EXCEPT ![Seal(n, e, "term", b.log, {}).id] =
                          Started(Seal(n, e, "term", b.log, {}), Seal(n, e, "term", b.log, {}).id)]
           /\ net' = net \cup Sent(n, Seal(n, e, "term", b.log, {}).id, Seal(n, e, "term", b.log, {}))
           /\ job' = [job EXCEPT ![n][k] =
                         [NoJob EXCEPT !.st = "start", !.id = Seal(n, e, "term", b.log, {}).id]]
           /\ StepDown(n)
           /\ fence' = f
           /\ lost' = lost \cup (Changes \ Replay(b.log))
    BY DEF AdoptTerm
  <2> QED BY <1>1, <1>2, <2>1

LEMMA RestoreInv ==
    ASSUME IInv, NEW n \in Eligible, NEW k \in Job, Restore(n, k)
    PROVE  IInv' /\ MarksGrow
<1>0. /\ World /\ Records /\ Takes /\ Placed /\ TypeOK /\ sealed \in Nat /\ lease.epoch \in Nat
      /\ n \in Node /\ \A q \in Node : mark[q] \in Nat
  BY Parts, Basics DEF IInv, Placed
<1>1. lease' = lease /\ committed' = committed
  BY DEF Restore
<1>2. job[n][k] \in JobRec /\ BaseOK(job[n][k].base)
  BY <1>0 DEF Takes
<1>3. PICK c \in Base : c = job[n][k].base
  BY <1>2 DEF JobRec
<1>4. PICK b \in Merges(c, n) :
        \/ /\ StepDown(n) /\ Idle(n, k)
           /\ UNCHANGED <<replicas, writer, prepared, call, net, fence, sealed, lost, late>>
        \/ /\ GiveUp(n, k, fence)
           /\ UNCHANGED <<replicas, writer, prepared, call, net, sealed, lost, late>>
        \/ /\ prepared' = [prepared EXCEPT ![n] = b]
           /\ Idle(n, k)
           /\ UNCHANGED <<replicas, writer, acting, call, net, fence, sealed, lost, late>>
        \/ /\ job[n][k].st = "reread"
           /\ AdoptTerm(n, k, b, job[n][k].epoch, fence)
           /\ UNCHANGED prepared
  BY <1>3 DEF Restore
<1>5. b \in Base /\ BaseOK(b) /\ b.max \in Nat /\ b.max >= mark[n]
  <2>1. b \in Base /\ BaseOK(b) /\ b.max >= mark[n]
    BY <1>0, <1>2, <1>3, MergesOK
  <2> QED BY <2>1 DEF Base
<1>6. ASSUME /\ job' = [job EXCEPT ![n][k] = NoJob]
             /\ UNCHANGED <<log, mark, writer, call, net, sealed, lost, late>>
             /\ acting' = acting \/ acting' = [acting EXCEPT ![n] = 0]
             /\ fence' = fence \/ fence' = [fence EXCEPT ![n] = 0]
             /\ prepared' = prepared \/ prepared' = [prepared EXCEPT ![n] = b]
      PROVE  IInv' /\ MarksGrow
  <2>1. Grows
    BY <1>0, <1>1, <1>6 DEF Grows
  <2>2. World'
    BY <1>1, <1>6, <2>1, Quiet
  <2>3. Records'
    BY <1>0, <1>6 DEF Records
  <2>4. /\ job' \in [Eligible -> [Job -> JobRec]] /\ job'[n][k] = NoJob
        /\ \A m \in Eligible, q \in Job : (m # n \/ q # k) => job'[m][q] = job[m][q]
    <3>1. NoJob \in JobRec /\ Takes
      BY <1>0, Empties
    <3>2. job' = [job EXCEPT ![n][k] = NoJob]
      BY <1>6
    <3> QED BY <3>1, <3>2, JobSet, ZenonT(30)
  <2>5. ASSUME NEW m \in Eligible, NEW q \in Job
        PROVE  \/ job'[m][q] = job[m][q]
               \/ /\ BaseOK(job'[m][q].base)
                  /\ job'[m][q].st = "reread" => job'[m][q].epoch \in 1..lease'.epoch
    <3>1. CASE m = n /\ q = k
      <4>1. BaseOK(NoBase) /\ NoJob.base = NoBase /\ NoJob.st = "idle"
        BY Empties DEF NoJob
      <4> QED BY <2>4, <3>1, <4>1
    <3>2. CASE m # n \/ q # k
      BY <2>4, <3>2
    <3> QED BY <3>1, <3>2
  <2>6. /\ acting' \in [Eligible -> Id \cup {0}]
        /\ \A m \in Eligible : acting'[m] = acting[m] \/ acting'[m] = 0
    BY <1>0, <1>6 DEF Takes
  <2>7. /\ lease' \in [holder : Node \cup {NoNode}, epoch : Nat]
        /\ lease'.holder # NoNode => lease'.epoch > 0
        /\ fence' \in [Eligible -> Nat]
        /\ \A m \in Eligible : fence'[m] # 0 => fence'[m] = lease'.epoch
    <3>1. /\ fence \in [Eligible -> Nat] /\ \A m \in Eligible : fence[m] # 0 => fence[m] = lease.epoch
          /\ lease \in [holder : Node \cup {NoNode}, epoch : Nat]
          /\ lease.holder # NoNode => lease.epoch > 0
      BY <1>0 DEF Takes
    <3>2. fence' \in [Eligible -> Nat] /\ \A m \in Eligible : fence'[m] = fence[m] \/ fence'[m] = 0
      BY <1>6, <3>1
    <3> QED BY <1>1, <3>1, <3>2
  <2>8. prepared' \in [Eligible -> Base] /\ \A m \in Eligible : BaseOK(prepared'[m])
    <3>1. prepared \in [Eligible -> Base] /\ \A m \in Eligible : BaseOK(prepared[m])
      BY <1>0 DEF Takes
    <3>2. CASE prepared' = prepared
      BY <3>1, <3>2
    <3>3. CASE prepared' = [prepared EXCEPT ![n] = b]
      BY <1>5, <3>1, <3>3
    <3> QED BY <1>6, <3>2, <3>3
  <2>9. Takes'
    BY <2>1, <2>4, <2>5, <2>6, <2>7, <2>8, TakesMade
  <2>10. MarksGrow
    BY <1>0, <1>6 DEF MarksGrow
  <2> QED BY <2>2, <2>3, <2>9, <2>10, Assemble
<1>7. ASSUME /\ job[n][k].st = "reread"
             /\ AdoptTerm(n, k, b, job[n][k].epoch, fence)
             /\ prepared' = prepared
      PROVE  IInv' /\ MarksGrow
  <2>1. PICK e \in Nat \ {0} : e = job[n][k].epoch /\ e <= lease.epoch
    <3>1. job[n][k].epoch \in 1..lease.epoch
      BY <1>0, <1>7 DEF Takes
    <3> QED BY <1>0, <3>1
  <2>2. PICK f \in [Eligible -> Nat] : f = fence
    BY <1>0 DEF Takes
  <2>3. AdoptTerm(n, k, b, e, f)
    BY <1>7, <2>1, <2>2 DEF AdoptTerm, GiveUp
  <2>4. ~Refuses(n, b, e) => mark[n] <= e
    BY <1>0, <1>5 DEF Refuses
  <2>5. /\ lease' \in [holder : Node \cup {NoNode}, epoch : Nat]
        /\ lease'.holder # NoNode => lease'.epoch > 0
        /\ lease'.epoch >= lease.epoch /\ e <= lease'.epoch
    BY <1>0, <1>1, <2>1 DEF Takes
  <2>6. /\ \A m \in Eligible : f[m] # 0 => f[m] = lease'.epoch
        /\ prepared' \in [Eligible -> Base] /\ \A m \in Eligible : BaseOK(prepared'[m])
    BY <1>0, <1>1, <1>7, <2>2 DEF Takes
  <2> QED BY <1>1, <1>5, <2>3, <2>4, <2>5, <2>6, AdoptTermInv
<1> QED BY <1>4, <1>6, <1>7 DEF StepDown, Idle, GiveUp, replicas

\* The lease of the last epoch is adopted, or was already.
LEMMA AdoptInv ==
    ASSUME IInv, NEW n \in Eligible, NEW k \in Job, NEW e \in Nat \ {0},
           NEW f \in [Eligible -> Nat],
           lease' \in [holder : Node \cup {NoNode}, epoch : Nat],
           lease'.epoch >= lease.epoch, lease'.epoch = e,
           \A m \in Eligible : f[m] # 0 => f[m] = e,
           Adopt(n, k, e, f)
    PROVE  IInv' /\ MarksGrow
<1>0. /\ World /\ Records /\ Takes /\ Placed /\ TypeOK /\ sealed \in Nat /\ lease.epoch \in Nat
      /\ n \in Node /\ \A q \in Node : mark[q] \in Nat
  BY Parts, Basics DEF IInv, Placed
<1>1. prepared' = [prepared EXCEPT ![n] = NoBase] /\ committed' = committed
  BY DEF Adopt
<1>2. prepared' \in [Eligible -> Base] /\ \A m \in Eligible : BaseOK(prepared'[m])
  <2>1. prepared \in [Eligible -> Base] /\ \A m \in Eligible : BaseOK(prepared[m])
    BY <1>0 DEF Takes
  <2>2. NoBase \in Base /\ BaseOK(NoBase)
    BY Empties
  <2> QED BY <1>1, <2>1, <2>2
<1>3. lease'.holder # NoNode => lease'.epoch > 0
  OBVIOUS
<1>4. ASSUME NEW r \in JobRec,
             /\ BaseOK(r.base)
             /\ r.st = "reread" => r.epoch \in 1..lease'.epoch
             /\ job' = [job EXCEPT ![n][k] = r] /\ fence' = f
             /\ UNCHANGED <<log, mark, writer, acting, call, net, sealed, lost, late>>
      PROVE  IInv' /\ MarksGrow
  <2>1. Grows
    BY <1>0, <1>4 DEF Grows
  <2>2. World'
    BY <1>1, <1>4, <2>1, Quiet
  <2>3. Records'
    BY <1>0, <1>4 DEF Records
  <2>4. /\ job' \in [Eligible -> [Job -> JobRec]] /\ job'[n][k] = r
        /\ \A m \in Eligible, q \in Job : (m # n \/ q # k) => job'[m][q] = job[m][q]
    <3>1. Takes /\ r \in JobRec /\ n \in Eligible /\ k \in Job
      BY <1>0, <1>4
    <3>2. job' = [job EXCEPT ![n][k] = r]
      BY <1>4
    <3> QED BY ONLY <3>1, <3>2, JobSet, Zenon
  <2>5. ASSUME NEW m \in Eligible, NEW q \in Job
        PROVE  \/ job'[m][q] = job[m][q]
               \/ /\ BaseOK(job'[m][q].base)
                  /\ job'[m][q].st = "reread" => job'[m][q].epoch \in 1..lease'.epoch
    <3>1. CASE m = n /\ q = k
      BY <1>4, <2>4, <3>1
    <3>2. CASE m # n \/ q # k
      BY <2>4, <3>2
    <3> QED BY <3>1, <3>2
  <2>6. /\ acting' \in [Eligible -> Id \cup {0}]
        /\ \A m \in Eligible : acting'[m] = acting[m] \/ acting'[m] = 0
    BY <1>0, <1>4 DEF Takes
  <2>7. /\ fence' \in [Eligible -> Nat]
        /\ \A m \in Eligible : fence'[m] # 0 => fence'[m] = lease'.epoch
    BY <1>4
  <2>8. Takes'
    BY <1>2, <1>3, <2>1, <2>4, <2>5, <2>6, <2>7, TakesMade
  <2>9. MarksGrow
    BY <1>0, <1>4 DEF MarksGrow
  <2> QED BY <2>2, <2>3, <2>8, <2>9, Assemble
<1>5. CASE AdoptTerm(n, k, prepared[n], e, f)
  <2>1. PICK b \in Base : b = prepared[n] /\ BaseOK(b)
    BY <1>0 DEF Takes
  <2>2. AdoptTerm(n, k, b, e, f)
    BY <1>5, <2>1 DEF AdoptTerm
  <2>3. mark[n] <= e
    BY <1>0 DEF World
  <2> QED BY <1>1, <1>2, <1>3, <2>1, <2>2, <2>3, AdoptTermInv
<1>6. CASE /\ Idle(n, k) /\ fence' = f
           /\ UNCHANGED <<replicas, writer, acting, call, net, sealed, lost, late>>
  <2>1. NoJob \in JobRec /\ NoJob.st = "idle" /\ BaseOK(NoJob.base)
    <3>1. NoJob.base = NoBase
      BY DEF NoJob
    <3> QED BY <3>1, Empties
  <2> QED BY <1>4, <1>6, <2>1 DEF Idle, replicas
<1>7. CASE /\ job' = [job EXCEPT ![n][k] = [NoJob EXCEPT !.st = "reread", !.epoch = e]]
           /\ fence' = f
           /\ UNCHANGED <<replicas, writer, acting, call, net, sealed, lost, late>>
  <2>1. PICK r : r = [NoJob EXCEPT !.st = "reread", !.epoch = e]
    OBVIOUS
  <2>2. r \in JobRec /\ r.base = NoBase /\ r.epoch = e
    <3>1. NoJob \in JobRec /\ NoJob.base = NoBase
      BY Empties DEF NoJob
    <3> QED BY <2>1, <3>1 DEF JobRec
  <2>3. BaseOK(r.base) /\ r.epoch \in 1..lease'.epoch
    BY <2>2, Empties
  <2> QED BY <1>4, <1>7, <2>1, <2>2, <2>3 DEF replicas
<1> QED BY <1>5, <1>6, <1>7 DEF Adopt

LEMMA AcquireInv ==
    ASSUME IInv, NEW n \in Eligible, Acquire(n)
    PROVE  IInv' /\ MarksGrow
<1>0. Takes /\ lease.epoch \in Nat /\ n \in Node
  BY Parts, Basics DEF IInv, Placed
<1>1. PICK e : /\ e = lease.epoch + 1 \/ (lease.holder = n /\ e = lease.epoch)
               /\ lease' = [holder |-> n, epoch |-> e]
               /\ Adopt(n, "take", e, [fence EXCEPT ![n] = e])
  BY DEF Acquire
<1>2. e \in Nat \ {0} /\ e >= lease.epoch
  <2>1. CASE e = lease.epoch + 1
    BY <1>0, <2>1
  <2>2. CASE lease.holder = n /\ e = lease.epoch
    <3>1. n # NoNode
      BY <1>0, JournalAssumption
    <3> QED BY <1>0, <2>2, <3>1 DEF Takes
  <2> QED BY <1>1, <2>1, <2>2
<1>3. PICK f : f = [fence EXCEPT ![n] = e]
  OBVIOUS
<1>4. f \in [Eligible -> Nat] /\ \A m \in Eligible : f[m] # 0 => f[m] = e
  <2>1. fence \in [Eligible -> Nat] /\ \A m \in Eligible \ {n} : fence[m] = 0
    BY <1>0 DEF Acquire, Free, Takes
  <2> QED BY <1>2, <1>3, <2>1
<1>5. Adopt(n, "take", e, f)
  BY <1>1, <1>3
<1>6. lease' \in [holder : Node \cup {NoNode}, epoch : Nat] /\ lease'.epoch = e
  BY <1>0, <1>1, <1>2
<1> QED BY <1>2, <1>4, <1>5, <1>6, AdoptInv, JournalAssumption

LEMMA RefreshInv ==
    ASSUME IInv, NEW n \in Eligible, NEW k \in Job, Refresh(n, k)
    PROVE  IInv' /\ MarksGrow
<1>0. Takes /\ lease.epoch \in Nat
  BY Parts, Basics DEF IInv, Placed
<1>1. fence[n] # 0 /\ Adopt(n, k, fence[n], fence) /\ lease' = lease
  BY DEF Refresh
<1>2. PICK e \in Nat \ {0} : e = fence[n] /\ e = lease.epoch
  BY <1>0, <1>1 DEF Takes
<1>3. PICK f \in [Eligible -> Nat] : f = fence
  BY <1>0 DEF Takes
<1>4. Adopt(n, k, e, f)
  BY <1>1, <1>2, <1>3 DEF Adopt, AdoptTerm, GiveUp
<1>5. /\ lease' \in [holder : Node \cup {NoNode}, epoch : Nat]
      /\ lease'.epoch >= lease.epoch /\ lease'.epoch = e
      /\ \A m \in Eligible : f[m] # 0 => f[m] = e
  BY <1>0, <1>1, <1>2, <1>3 DEF Takes
<1> QED BY <1>4, <1>5, AdoptInv
-----------------------------------------------------------------------------
(* Theorems *)

LEMMA StepInv ==
    ASSUME IInv, Next
    PROVE  IInv' /\ MarksGrow
<1>0. \A p \in Node : mark[p] \in Nat
  BY Basics DEF IInv, Placed
<1>1. mark' = mark => MarksGrow
  BY <1>0 DEF MarksGrow
<1>2. CASE \E n \in Eligible : Record(n) \/ Acquire(n) \/ NoteLost(n)
                               \/ Observe(n) \/ DropFence(n) \/ Crash(n)
  <2>1. PICK n \in Eligible : Record(n) \/ Acquire(n) \/ NoteLost(n)
                              \/ Observe(n) \/ DropFence(n) \/ Crash(n)
    BY <1>2
  <2>2. CASE Record(n) \/ Acquire(n) \/ Observe(n)
    BY <2>2, RecordInv, AcquireInv, ObserveInv
  <2>3. CASE NoteLost(n)
    BY <1>1, <2>3, NoteLostInv DEF NoteLost, replicas
  <2>4. CASE DropFence(n)
    BY <1>1, <2>4, DropFenceInv DEF DropFence, replicas
  <2>5. CASE Crash(n)
    BY <1>1, <2>5, CrashInv DEF Crash, replicas
  <2> QED BY <2>1, <2>2, <2>3, <2>4, <2>5
<1>3. CASE \E n \in Eligible, k \in Job : Restore(n, k) \/ Refresh(n, k)
  BY <1>3, RestoreInv, RefreshInv
<1>4. CASE \E n \in Eligible, p \in Node, k \in Job : Export(n, k, p)
  <2>1. PICK n \in Eligible, p \in Node, k \in Job : Export(n, k, p)
    BY <1>4
  <2>2. mark' = mark
    BY <2>1 DEF Export, replicas
  <2> QED BY <1>1, <2>1, <2>2, ExportInv
<1>5. CASE \E d \in net : Deliver(d)
  BY <1>5, DeliverInv
<1>6. CASE \E i \in Open, p \in Node : Resend(i, p)
  <2>1. PICK i \in Open, p \in Node : Resend(i, p)
    BY <1>6
  <2>2. mark' = mark
    BY <2>1 DEF Resend, replicas
  <2> QED BY <1>1, <2>1, <2>2, ResendInv
<1>7. CASE \E i \in Open :
              \E seen \in IF "lost" \in Extra THEN SUBSET Answered(i) ELSE {Answered(i)} :
                  StartReturns(i, seen) \/ RecordReturns(i, seen) \/ SnapshotReturns(i, seen)
  <2>1. PICK i \in Open :
           \E seen \in SUBSET Node :
               StartReturns(i, seen) \/ RecordReturns(i, seen) \/ SnapshotReturns(i, seen)
    BY <1>7 DEF Answered
  <2>2. PICK seen \in SUBSET Node :
           StartReturns(i, seen) \/ RecordReturns(i, seen) \/ SnapshotReturns(i, seen)
    BY <2>1
  <2>3. CASE StartReturns(i, seen)
    BY <1>1, <2>3, StartReturnsInv DEF StartReturns, replicas
  <2>4. CASE RecordReturns(i, seen)
    BY <2>4, RecordReturnsInv
  <2>5. CASE SnapshotReturns(i, seen)
    BY <1>1, <2>5, SnapshotReturnsInv DEF SnapshotReturns
  <2> QED BY <2>2, <2>3, <2>4, <2>5
<1> QED BY <1>2, <1>3, <1>4, <1>5, <1>6, <1>7 DEF Next

LEMMA StutterInv ==
    ASSUME IInv, UNCHANGED vars
    PROVE  IInv' /\ MarksGrow
<1>0. World /\ Records /\ Takes /\ Placed /\ sealed \in Nat /\ lease.epoch \in Nat
      /\ \A p \in Node : mark[p] \in Nat
  BY Parts, Basics DEF IInv, Placed
<1>1. UNCHANGED <<log, mark, writer, acting, job, prepared, call, net, lease, fence,
                  sealed, committed, lost, late>>
  BY DEF vars
<1>2. Grows /\ MarksGrow
  BY <1>0, <1>1 DEF Grows, MarksGrow
<1>3. World'
  BY <1>1, <1>2, Quiet
<1>4. Records'
  BY <1>0, <1>1 DEF Records
<1>5. Takes'
  BY <1>0, <1>1, <1>2, TakesKept DEF Takes
<1> QED BY <1>2, <1>3, <1>4, <1>5, Assemble

\* IInv holds in every reachable state: besides the properties below it says
\* that a majority is shut for every entry sealed after a newer term had a
\* majority, that no mark and no delivery is above the lease's last epoch, and
\* that a restore under way holds a chain below the highest epoch it has seen.
THEOREM Invariant == Spec => []IInv
<1>1. Init => IInv
  BY InitInv
<1>2. IInv /\ [Next]_vars => IInv'
  BY StepInv, StutterInv
<1> QED BY <1>1, <1>2, PTL DEF Spec

\* Every variable keeps its type, whatever replicas, writers and takeovers do.
THEOREM TypeCorrect == Spec => []TypeOK
<1>1. IInv => TypeOK
  BY DEF IInv, Placed
<1> QED BY <1>1, Invariant, PTL

\* Whatever a replica stores, adopts or compacts, its file can be read again: one
\* chain (JournalReplica's constructor refuses anything else), and no entry above
\* the high-water mark (which the constructor therefore never has to raise).
THEOREM LogsAlwaysRestart == Spec => []LogsRestart
<1>1. IInv => LogsRestart
  BY DEF IInv, Placed
<1> QED BY <1>1, Invariant, PTL

\* No delivery, adoption, observation, compaction or crash lowers the mark that
\* fences older terms (JournalReplica.observeEpoch, append, adopt).
THEOREM MarksRise == Spec => MarksNeverFall
<1>1. IInv /\ [Next]_vars => [\A n \in Node : mark'[n] >= mark[n]]_vars
  BY StepInv, StutterInv DEF MarksGrow
<1> QED BY <1>1, Invariant, PTL DEF Spec, MarksNeverFall

\* An entry sealed by a Main that a majority has already left behind never
\* collects a majority, whatever was still in the network.
THEOREM LateForNothing == Spec => []LateNeverCommits
<1>1. IInv => LateNeverCommits
  BY DEF IInv
<1> QED BY <1>1, Invariant, PTL
=============================================================================
