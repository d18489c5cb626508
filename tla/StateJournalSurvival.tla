------------------------ MODULE StateJournalSurvival ------------------------
(***************************************************************************)
(* Proof that a change committed in quiet times is in the log of every      *)
(* later term (StateJournal!QuietCommitsSurvive), for every number of       *)
(* nodes, entries and epochs.                                               *)
(*                                                                         *)
(* Logs are ordered as restoreMainState orders them, by the epoch of the    *)
(* last entry and then by length.  The proof follows one entry from the     *)
(* moment it is sealed: as long as its writer is the only one of the newest *)
(* epoch, a replica that has acknowledged it stays at or past it (TopOK);   *)
(* once it has committed, a majority stays at or past it, every restore     *)
(* begun since then is past it as soon as it has met that majority, and     *)
(* everything sealed past it was sealed on a log that has it (Safe).        *)
(***************************************************************************)
EXTENDS StateJournalProofs

\* Every entry on a disk, in a restore or in the network.
OnDisk == UNION {Entries(log[n]) : n \in Node}
Restored == UNION {Entries(prepared[n].log) : n \in Eligible}
ReadBy(n) == UNION {Entries(job[n][k].base.log) : k \in Job}
BeingRead == UNION {ReadBy(n) : n \in Eligible}
InNetwork == UNION {Entries(d.batch) : d \in net}
Everywhere == OnDisk \cup Restored \cup BeingRead \cup InNetwork

\* Epoch f and number t are at or past epoch e and number s.
Past(f, t, e, s) == f > e \/ (f = e /\ t >= s)
AtLeast(l, e, s) == Past(LastEpoch(l), LastSeq(l), e, s)

\* Entries are told apart by their ids, know the entry they follow, and are of
\* the epoch of a writer.
EntryOK(y) ==
    /\ y.id <= sealed /\ y.prev <= sealed
    /\ y.prev = 0 => y.seq = 1
    /\ y.kind = "change" => y.has = {y.id}
    /\ y.kind = "term" => writer[y.id].epoch = y.epoch
    /\ \E v \in Id : writer[v].epoch = y.epoch

PairOK(y, z) ==
    /\ y.id = z.id => y = z
    /\ y.prev = z.id => /\ y.seq = z.seq + 1 /\ z.epoch <= y.epoch
                        /\ z.epoch < y.epoch => y.kind = "term"

\* A pending call knows what it waits for.
CallOK(i) ==
    call[i].open =>
        /\ call[i].seq > 0
        /\ call[i].kind = "change" => call[i].w < i /\ i \in writer[call[i].w].has
        /\ \A y \in Everywhere :
              y.id = i => /\ y.kind = call[i].kind /\ y.seq = call[i].seq
                          /\ y.epoch = writer[call[i].w].epoch

HistOK ==
    /\ \A y \in Everywhere : EntryOK(y)
    /\ \A y, z \in Everywhere : PairOK(y, z)
    /\ \A i \in Id : CallOK(i)
    /\ \A d \in net : call[d.id].open => d.w = call[d.id].w
    /\ \A v \in Id : writer[v].epoch > 0 => \E n \in Eligible : Writes(v, n)

\* The only writer of the newest epoch.
Top(w) ==
    /\ writer[w].epoch > 0
    /\ \A v \in Id \ {w} : writer[v].epoch < writer[w].epoch

\* What the entry that call i replicates is sure of while its writer is on top.
Followed(i) ==
    LET e == writer[call[i].w].epoch
        s == call[i].seq
    IN  /\ \A y \in Everywhere :
              y.epoch = e =>
                  /\ y.id < i => y.seq < s
                  /\ y.id > i => y.seq > s /\ (y.kind = "snapshot" => i \in y.has)
        /\ \A p \in Node : call[i].reply[p] = "ok" => AtLeast(log[p], e, s)
        /\ \A d \in net : d.id = i /\ d.replace => LastEpoch(d.batch) = e

OnTop(w) ==
    LET l == log[writer[w].by]
    IN  /\ LastEpoch(l) = writer[w].epoch
        /\ \A y \in Everywhere : y.epoch = writer[w].epoch => y.seq <= LastSeq(l)
        /\ \A i \in Id : call[i].open /\ call[i].w = w =>
              /\ call[i].seq <= LastSeq(l)
              /\ call[i].kind = "change" => Followed(i)
TopOK == \A w \in Id : Top(w) => OnTop(w)

\* A restore has counted the replicas it has asked, never its own node.
ReadsOK ==
    \A n \in Eligible, k \in Job :
        /\ n \notin job[n][k].asked /\ IsFiniteSet(job[n][k].asked)
        /\ job[n][k].base.count = Cardinality(job[n][k].asked)

\* Entry c of epoch e and number s survives: the majority Q keeps it.
SafeEntries(c, e, s) ==
    \A y \in Everywhere :
        /\ y.id = c => y.kind = "change" /\ y.has = {c} /\ y.epoch = e /\ y.seq = s
        /\ y.id # c /\ Past(y.epoch, y.seq, e, s) =>
              /\ y.prev # 0
              /\ y.kind = "snapshot" => c \in y.has
              /\ \A z \in Everywhere : y.prev = z.id => Past(z.epoch, z.seq, e, s)
SafeWriters(c, e, s) ==
    \A v \in Id : writer[v].epoch >= e =>
        c \in writer[v].has /\ AtLeast(log[writer[v].by], e, s)
SafeReads(e, s, Q) ==
    /\ \A n \in Eligible : prepared[n] # NoBase => AtLeast(prepared[n].log, e, s)
    /\ \A n \in Eligible, k \in Job :
          job[n][k].asked \cap Q # {} => AtLeast(job[n][k].base.log, e, s)
Safe(c, e, s, Q) ==
    /\ Cardinality(Q) >= Quorum
    /\ \A q \in Q : AtLeast(log[q], e, s)
    /\ SafeEntries(c, e, s) /\ SafeWriters(c, e, s) /\ SafeReads(e, s, Q)

\* An entry commits once; what commits in quiet times is safe.
OnceOK ==
    /\ \A c \in committed : c.id <= sealed /\ ~call[c.id].open
    /\ \A c, d \in committed : c.id = d.id => c = d
    /\ lost \subseteq Changes
SafeOK ==
    \A c \in committed : c.clean /\ c.kind = "change" =>
        /\ c.id \notin lost
        /\ \E e \in Nat \ {0}, s \in Nat \ {0}, Q \in SUBSET Node : Safe(c.id, e, s, Q)

SInv == IInv /\ HistOK /\ TopOK /\ ReadsOK /\ OnceOK /\ SafeOK
-----------------------------------------------------------------------------
(* Logs and their entries *)

LEMMA EntriesAppend ==
    ASSUME NEW l \in Seq(Entry), NEW x \in Entry
    PROVE  Entries(Append(l, x)) = Entries(l) \cup {x}
<1> DEFINE k == Append(l, x)
<1>1. /\ Len(k) = Len(l) + 1 /\ Len(l) \in Nat
      /\ \A i \in 1..Len(l) : k[i] = l[i]
      /\ k[Len(l) + 1] = x
  BY AppendProperties, LenProperties
<1> HIDE DEF k
<1>2. ASSUME NEW y \in Entries(k) PROVE y \in Entries(l) \cup {x}
  <2>1. PICK i \in 1..Len(k) : y = k[i]
    BY DEF Entries
  <2>2. CASE i \in 1..Len(l)
    BY <1>1, <2>1, <2>2 DEF Entries
  <2>3. CASE i = Len(l) + 1
    BY <1>1, <2>1, <2>3
  <2> QED BY <1>1, <2>1, <2>2, <2>3
<1>3. x \in Entries(k)
  BY <1>1 DEF Entries
<1>4. ASSUME NEW y \in Entries(l) PROVE y \in Entries(k)
  <2>1. PICK i \in 1..Len(l) : y = l[i]
    BY DEF Entries
  <2>2. i \in 1..Len(k) /\ y = k[i]
    BY <1>1, <2>1
  <2> QED BY <2>2 DEF Entries
<1> QED BY <1>2, <1>3, <1>4 DEF k

LEMMA EntriesFew ==
    /\ Entries(<<>>) = {}
    /\ \A x \in Entry : Entries(<<x>>) = {x}
<1>1. Entries(<<>>) = {}
  BY EmptySeq DEF Entries
<1>2. ASSUME NEW x \in Entry PROVE Entries(<<x>>) = {x}
  BY DEF Entries
<1> QED BY <1>1, <1>2

\* Nothing in a chain is newer, or has a higher number, than its last entry.
LEMMA ChainCapped ==
    ASSUME NEW l \in Seq(Entry), Chain(l), NEW y \in Entries(l)
    PROVE  /\ l # <<>> /\ y.seq <= LastSeq(l) /\ y.epoch <= LastEpoch(l)
           /\ y.seq = LastSeq(l) => y = Last(l)
<1> DEFINE ok(k) == /\ l[k].seq <= LastSeq(l) /\ l[k].epoch <= LastEpoch(l)
                    /\ k < Len(l) => l[k].seq < LastSeq(l)
           bad == {k \in 1..Len(l) : ~ok(k)}
<1>1. /\ Len(l) \in Nat /\ l # <<>> /\ Len(l) \in 1..Len(l)
      /\ \A k \in 1..Len(l) : l[k] \in Entry /\ l[k].seq \in Nat /\ l[k].epoch \in Nat
  <2>1. Len(l) \in Nat /\ \A k \in 1..Len(l) : l[k] \in Entry
    BY LenProperties, ElementOfSeq
  <2>2. \A x \in Entry : x.seq \in Nat /\ x.epoch \in Nat
    BY DEF Entry
  <2>3. PICK k \in 1..Len(l) : y = l[k]
    BY DEF Entries
  <2> QED BY <2>1, <2>2, <2>3, EmptySeq
<1>2. LastSeq(l) = l[Len(l)].seq /\ LastEpoch(l) = l[Len(l)].epoch /\ Last(l) = l[Len(l)]
  BY <1>1 DEF LastSeq, LastEpoch, Last
<1>3. bad = {}
  <2> SUFFICES ASSUME bad # {} PROVE FALSE
    OBVIOUS
  <2>1. PICK k \in bad : \A j \in bad : j <= k
    BY <1>1, LastPosition
  <2>2. CASE k = Len(l)
    BY <1>1, <1>2, <2>1, <2>2
  <2>3. CASE k # Len(l)
    <3>1. k \in 1..Len(l) - 1 /\ k + 1 \in 1..Len(l)
      BY <1>1, <2>3
    <3>2. ok(k + 1)
      BY <1>1, <2>1, <3>1
    <3>3. Follows(l[k + 1], l[k])
      BY <3>1 DEF Chain
    <3>4. l[k].seq < l[k + 1].seq /\ l[k].epoch <= l[k + 1].epoch
      BY <1>1, <3>1, <3>3 DEF Follows
    <3>5. ok(k)
      BY <1>1, <1>2, <3>1, <3>2, <3>4
    <3> QED BY <2>1, <3>5
  <2> QED BY <2>2, <2>3
<1>4. PICK k \in 1..Len(l) : y = l[k]
  BY DEF Entries
<1>5. ok(k)
  BY <1>3
<1>6. y.seq <= LastSeq(l) /\ y.epoch <= LastEpoch(l)
  BY <1>4, <1>5
<1>7. ASSUME y.seq = LastSeq(l) PROVE y = Last(l)
  <2>1. ~(k < Len(l))
    BY <1>1, <1>2, <1>4, <1>5, <1>7
  <2> QED BY <1>1, <1>2, <1>4, <2>1
<1> QED BY <1>1, <1>6, <1>7

\* A chain of known entries that is at or past a safe entry replays it.
LEMMA Walk ==
    ASSUME NEW l \in Seq(Entry), Chain(l), Entries(l) \subseteq Everywhere,
           NEW c, NEW e \in Nat \ {0}, NEW s \in Nat, SafeEntries(c, e, s), AtLeast(l, e, s)
    PROVE  c \in Replay(l)
<1> DEFINE from == {i \in 1..Len(l) : l[i].kind = "snapshot"}
           start == IF from = {} THEN 1 ELSE CHOOSE i \in from : \A j \in from : j <= i
           P(k) == Past(l[k].epoch, l[k].seq, e, s)
           bad == {k \in 1..Len(l) : k >= start /\ ~P(k)}
<1>1. Len(l) \in Nat /\ l # <<>> /\ Len(l) >= 1
  <2>1. l # <<>>
    <3>1. CASE l = <<>>
      BY <3>1 DEF AtLeast, Past, LastEpoch
    <3> QED BY <3>1
  <2> QED BY <2>1, LenProperties, EmptySeq
<1>2. P(Len(l))
  BY <1>1 DEF AtLeast, LastEpoch, LastSeq, Last
<1>3. start \in 1..Len(l) /\ (from # {} => start \in from)
  <2>1. CASE from = {}
    BY <1>1, <2>1
  <2>2. CASE from # {}
    <3>1. \E i \in from : \A j \in from : j <= i
      BY <1>1, <2>2, LastPosition
    <3>2. (CHOOSE i \in from : \A j \in from : j <= i) \in from
      <4> HIDE DEF from
      <4> QED BY <3>1
    <3> QED BY <2>2, <3>2
  <2> QED BY <2>1, <2>2
<1>4. \A k \in 1..Len(l) : l[k] \in Everywhere
  BY DEF Entries
<1>5. Replay(l) = UNION {l[i].has : i \in start..Len(l)}
  BY DEF Replay
<1>6. ASSUME NEW k \in 1..Len(l), k >= start, c \in l[k].has PROVE c \in Replay(l)
  <2> HIDE DEF start
  <2>1. k \in start..Len(l)
    BY <1>1, <1>3, <1>6
  <2> QED BY <1>5, <1>6, <2>1
<1>7. ASSUME NEW k \in 1..Len(l), k >= start, l[k].id = c PROVE c \in Replay(l)
  <2>1. l[k].has = {c}
    BY <1>4, <1>7 DEF SafeEntries
  <2> QED BY <1>6, <1>7, <2>1
<1>8. CASE bad # {}
  <2>1. PICK m \in bad : \A j \in bad : j <= m
    <3>1. bad \in SUBSET (1..Len(l))
      OBVIOUS
    <3> HIDE DEF bad
    <3> QED BY <1>1, <1>8, <3>1, LastPosition
  <2>2. m \in 1..Len(l) /\ m >= start /\ ~P(m)
    OBVIOUS
  <2>3. m # Len(l)
    BY <1>2, <2>2
  <2>4. m \in 1..Len(l) - 1 /\ m + 1 \in 1..Len(l) /\ m + 1 >= start
    <3> HIDE DEF start, P
    <3> QED BY <1>1, <1>3, <2>2, <2>3
  <2>5. P(m + 1)
    <3>1. m + 1 \notin bad
      <4> HIDE DEF bad
      <4> QED BY <2>1, <2>4
    <3> HIDE DEF P
    <3> QED BY <2>4, <3>1
  <2>6. l[m + 1].prev = l[m].id
    BY <2>4 DEF Chain, Follows
  <2>7. l[m + 1].id = c
    BY <1>4, <2>2, <2>4, <2>5, <2>6 DEF SafeEntries
  <2> QED BY <1>7, <2>4, <2>7
<1>9. CASE bad = {}
  <2>1. P(start)
    <3> HIDE DEF P, start
    <3> QED BY <1>1, <1>3, <1>9
  <2>2. CASE from # {}
    <3>1. l[start].kind = "snapshot"
      BY <1>3, <2>2
    <3> HIDE DEF start
    <3>2. l[start].id = c \/ c \in l[start].has
      BY <1>3, <1>4, <2>1, <3>1 DEF SafeEntries
    <3> QED BY <1>3, <1>6, <1>7, <3>2
  <2>3. CASE from = {}
    <3>1. start = 1 /\ l[1].kind # "snapshot"
      BY <1>1, <2>3
    <3>2. l[1].prev = 0
      BY <1>1, <3>1 DEF Chain
    <3>3. P(1)
      <4> HIDE DEF start, P
      <4> QED BY <2>1, <3>1
    <3>4. l[1].id = c
      BY <1>1, <1>4, <3>2, <3>3 DEF SafeEntries
    <3> QED BY <1>1, <1>7, <3>1, <3>4
  <2> QED BY <2>2, <2>3
<1> QED BY <1>8, <1>9

\* Compaction drops entries from the front only.
LEMMA CompactKeeps ==
    ASSUME NEW l \in Seq(Entry), NEW seq
    PROVE  /\ Entries(Compact(l, seq)) \subseteq Entries(l)
           /\ LastEpoch(Compact(l, seq)) = LastEpoch(l) /\ LastSeq(Compact(l, seq)) = LastSeq(l)
<1> DEFINE at == {i \in 1..Len(l) : l[i].kind = "snapshot" /\ l[i].seq <= seq}
<1>1. CASE at = {}
  BY <1>1 DEF Compact
<1>2. CASE at # {}
  <2> DEFINE f == CHOOSE i \in at : \A j \in at : j <= i
             k == SubSeq(l, f, Len(l))
  <2>1. Len(l) \in Nat
    BY LenProperties
  <2>2. f \in 1..Len(l)
    <3>1. \E i \in at : \A j \in at : j <= i
      BY <1>2, <2>1, LastPosition
    <3>2. f \in at
      <4> HIDE DEF at
      <4> QED BY <3>1
    <3> QED BY <3>2
  <2>3. Compact(l, seq) = k
    BY <1>2 DEF Compact
  <2> HIDE DEF f, at
  <2>4. /\ k \in Seq(Entry) /\ Len(k) = Len(l) - f + 1
        /\ \A i \in 1..Len(l) - f + 1 : k[i] = l[f + i - 1]
    BY <2>1, <2>2, SubSeqProperties
  <2> HIDE DEF k
  <2>5. k # <<>> /\ l # <<>> /\ Last(k) = Last(l)
    BY <2>1, <2>2, <2>4, EmptySeq DEF Last
  <2>6. ASSUME NEW y \in Entries(k) PROVE y \in Entries(l)
    <3>1. PICK i \in 1..Len(k) : y = k[i]
      BY DEF Entries
    <3>2. f + i - 1 \in 1..Len(l) /\ y = l[f + i - 1]
      BY <2>1, <2>2, <2>4, <3>1
    <3> QED BY <3>2 DEF Entries
  <2> QED BY <2>3, <2>5, <2>6 DEF LastEpoch, LastSeq
<1> QED BY <1>1, <1>2

\* Two majorities share a replica.
LEMMA MajoritiesMeet ==
    ASSUME NEW Q \in SUBSET Node, NEW R \in SUBSET Node,
           Cardinality(Q) >= Quorum, Cardinality(R) >= Quorum
    PROVE  Q \cap R # {}
<1> SUFFICES ASSUME Q \cap R = {} PROVE FALSE
  OBVIOUS
<1>1. IsFiniteSet(Node) /\ Cardinality(Node) \in Nat
  BY JournalAssumption, FS_CardinalityType
<1>2. /\ IsFiniteSet(Q) /\ IsFiniteSet(R)
      /\ Cardinality(Q) \in Nat /\ Cardinality(R) \in Nat
  BY <1>1, FS_Subset, FS_CardinalityType
<1>3. Cardinality(Q \cup R) = Cardinality(Q) + Cardinality(R)
  <2>1. Cardinality(Q \cap R) = 0
    BY FS_EmptySet
  <2>2. Cardinality(Q \cup R) = Cardinality(Q) + Cardinality(R) - Cardinality(Q \cap R)
    BY <1>2, FS_Union
  <2> QED BY <1>2, <2>1, <2>2
<1>4. Cardinality(Q \cup R) <= Cardinality(Node)
  BY <1>1, FS_Subset
<1> QED BY <1>1, <1>2, <1>3, <1>4 DEF Quorum

\* The entries of each place, and what follows when all places are known.
LEMMA Somewhere ==
    /\ \A n \in Node : Entries(log[n]) \subseteq Everywhere
    /\ \A n \in Eligible : Entries(prepared[n].log) \subseteq Everywhere
    /\ \A n \in Eligible, k \in Job : Entries(job[n][k].base.log) \subseteq Everywhere
    /\ \A d \in net : Entries(d.batch) \subseteq Everywhere
<1>1. ASSUME NEW n \in Node PROVE Entries(log[n]) \subseteq OnDisk
  BY DEF OnDisk
<1>2. ASSUME NEW n \in Eligible PROVE Entries(prepared[n].log) \subseteq Restored
  BY DEF Restored
<1>3. ASSUME NEW n \in Eligible, NEW k \in Job
      PROVE  Entries(job[n][k].base.log) \subseteq BeingRead
  <2>1. Entries(job[n][k].base.log) \subseteq ReadBy(n)
    BY DEF ReadBy
  <2>2. ReadBy(n) \subseteq BeingRead
    BY DEF BeingRead
  <2> QED BY <2>1, <2>2
<1>4. ASSUME NEW d \in net PROVE Entries(d.batch) \subseteq InNetwork
  BY DEF InNetwork
<1>5. /\ OnDisk \subseteq Everywhere /\ Restored \subseteq Everywhere
      /\ BeingRead \subseteq Everywhere /\ InNetwork \subseteq Everywhere
  BY DEF Everywhere
<1>6. \A n \in Node : Entries(log[n]) \subseteq Everywhere
  BY <1>1, <1>5
<1>7. \A n \in Eligible : Entries(prepared[n].log) \subseteq Everywhere
  BY <1>2, <1>5
<1>8. \A n \in Eligible, k \in Job : Entries(job[n][k].base.log) \subseteq Everywhere
  BY <1>3, <1>5
<1>9. \A d \in net : Entries(d.batch) \subseteq Everywhere
  BY <1>4, <1>5
<1> QED BY <1>6, <1>7, <1>8, <1>9

LEMMA Nowhere ==
    ASSUME NEW E,
           \A n \in Node : Entries(log'[n]) \subseteq E,
           \A n \in Eligible : Entries(prepared'[n].log) \subseteq E,
           \A n \in Eligible, k \in Job : Entries(job'[n][k].base.log) \subseteq E,
           \A d \in net' : Entries(d.batch) \subseteq E
    PROVE  Everywhere' \subseteq E
<1>1. OnDisk' \subseteq E
  BY DEF OnDisk
<1>2. Restored' \subseteq E
  BY DEF Restored
<1>3. \A n \in Eligible : ReadBy(n)' \subseteq E
  BY DEF ReadBy
<1>4. BeingRead' \subseteq E
  BY <1>3 DEF BeingRead
<1>5. InNetwork' \subseteq E
  BY DEF InNetwork
<1> QED BY <1>1, <1>2, <1>4, <1>5 DEF Everywhere

\* Types of what the invariant compares.
LEMMA Kinds ==
    ASSUME IInv
    PROVE  /\ Everywhere \subseteq Entry
           /\ \A y \in Everywhere : /\ y.id \in Id /\ y.seq \in Nat \ {0} /\ y.epoch \in Nat \ {0}
                                    /\ y.prev \in Nat /\ y.has \subseteq Id
           /\ \A n \in Node : /\ log[n] \in Seq(Entry) /\ Chain(log[n]) /\ mark[n] \in Nat
                              /\ LastEpoch(log[n]) \in Nat /\ LastSeq(log[n]) \in Nat
                              /\ LastEpoch(log[n]) <= mark[n]
           /\ \A v \in Id : /\ writer[v].epoch \in Nat /\ writer[v].has \subseteq Id
                            /\ call[v].seq \in Nat /\ call[v].w \in Id \cup {0}
           /\ sealed \in Nat /\ lease.epoch \in Nat /\ Id \subseteq Nat /\ 0 \notin Id
<1>0. World /\ Records /\ Takes /\ TypeOK /\ Shape /\ LogsRestart
  BY Parts DEF IInv, Placed
<1>1. \A n \in Node : log[n] \in Seq(Entry) /\ mark[n] \in Nat
  BY <1>0, Basics
<1>2. \A l \in Seq(Entry) : Entries(l) \subseteq Entry
  <2> SUFFICES ASSUME NEW l \in Seq(Entry), NEW y \in Entries(l) PROVE y \in Entry
    OBVIOUS
  <2> QED BY ElementOfSeq DEF Entries
<1>3. OnDisk \subseteq Entry
  BY <1>1, <1>2 DEF OnDisk
<1>4. Restored \subseteq Entry
  <2>1. \A n \in Eligible : prepared[n].log \in Seq(Entry)
    BY <1>0 DEF Shape, Base
  <2> QED BY <1>2, <2>1 DEF Restored
<1>5. BeingRead \subseteq Entry
  <2>1. \A n \in Eligible, k \in Job : job[n][k].base.log \in Seq(Entry)
    BY <1>0 DEF TypeOK
  <2>2. \A n \in Eligible : ReadBy(n) \subseteq Entry
    BY <1>2, <2>1 DEF ReadBy
  <2> QED BY <2>2 DEF BeingRead
<1>6. InNetwork \subseteq Entry
  <2>1. \A d \in net : d.batch \in Seq(Entry)
    BY <1>0 DEF TypeOK
  <2> QED BY <1>2, <2>1 DEF InNetwork
<1>7. Everywhere \subseteq Entry
  BY <1>3, <1>4, <1>5, <1>6 DEF Everywhere
<1>8. \A y \in Entry : /\ y.id \in Id /\ y.seq \in Nat \ {0} /\ y.epoch \in Nat \ {0}
                       /\ y.prev \in Nat /\ y.has \subseteq Id
  BY DEF Entry
<1>9. \A n \in Node : /\ Chain(log[n]) /\ LastEpoch(log[n]) <= mark[n]
                      /\ LastEpoch(log[n]) \in Nat /\ LastSeq(log[n]) \in Nat
  BY <1>0, <1>1, LastTypes DEF LogsRestart
<1>10. \A v \in Id : /\ writer[v].epoch \in Nat /\ writer[v].has \subseteq Id
                     /\ call[v].seq \in Nat /\ call[v].w \in Id \cup {0}
  BY <1>0 DEF TypeOK
<1>11. sealed \in Nat /\ lease.epoch \in Nat /\ Id \subseteq Nat /\ 0 \notin Id
  BY <1>0, Basics
<1> QED BY <1>1, <1>7, <1>8, <1>9, <1>10, <1>11

LEMMA KindsNext ==
    ASSUME IInv'
    PROVE  /\ \A n \in Node : /\ log'[n] \in Seq(Entry) /\ Chain(log'[n])
                              /\ LastEpoch(log'[n]) \in Nat /\ LastSeq(log'[n]) \in Nat
                              /\ mark'[n] \in Nat /\ LastEpoch(log'[n]) <= mark'[n]
           /\ sealed' \in Nat /\ lease'.epoch \in Nat
<1>1. TypeOK' /\ LogsRestart'
  BY DEF IInv, Placed
<1>2. /\ log' \in [Node -> Seq(Entry)] /\ mark' \in [Node -> Nat]
      /\ sealed' \in 0..MaxEntry /\ lease'.epoch \in Nat
  BY <1>1 DEF TypeOK
<1>3. MaxEntry \in Nat
  BY JournalAssumption
<1>4. \A n \in Node : log'[n] \in Seq(Entry) /\ mark'[n] \in Nat
  BY <1>2
<1>5. \A n \in Node : Chain(log'[n]) /\ LastEpoch(log'[n]) <= mark'[n]
  BY <1>1 DEF LogsRestart
<1>6. \A n \in Node : LastEpoch(log'[n]) \in Nat /\ LastSeq(log'[n]) \in Nat
  BY <1>4, LastTypes
<1> QED BY <1>2, <1>3, <1>4, <1>5, <1>6

LEMMA LastKnown ==
    ASSUME NEW l \in Seq(Entry), LastEpoch(l) # 0
    PROVE  /\ l # <<>> /\ Last(l) \in Entries(l) /\ LastHash(l) = Last(l).id
           /\ LastEpoch(l) = Last(l).epoch /\ LastSeq(l) = Last(l).seq
<1>1. l # <<>>
  BY DEF LastEpoch
<1>2. Len(l) \in 1..Len(l)
  BY <1>1, LenProperties, EmptySeq
<1> QED BY <1>1, <1>2 DEF Entries, Last, LastEpoch, LastSeq, LastHash

\* No known entry is newer than the writer on top.
LEMMA TopMost ==
    ASSUME IInv, HistOK, NEW w \in Id, Top(w), NEW y \in Everywhere
    PROVE  y.epoch <= writer[w].epoch
<1>1. PICK v \in Id : writer[v].epoch = y.epoch
  BY DEF HistOK, EntryOK
<1>2. writer[v].epoch \in Nat /\ writer[w].epoch \in Nat
  BY Kinds
<1>3. v = w \/ writer[v].epoch < writer[w].epoch
  BY DEF Top
<1> QED BY <1>1, <1>2, <1>3

LEMMA TopNode ==
    ASSUME IInv, HistOK, NEW w \in Id, writer[w].epoch > 0
    PROVE  Writes(w, writer[w].by) /\ writer[w].by \in Eligible /\ writer[w].by \in Node
<1>1. PICK n \in Eligible : Writes(w, n)
  BY DEF HistOK
<1>2. n = writer[w].by
  BY <1>1 DEF Writes
<1> QED BY <1>1, <1>2, JournalAssumption

LEMMA AtLeastNext ==
    ASSUME NEW f \in Nat, NEW t \in Nat, NEW e \in Nat, NEW s \in Nat, NEW l \in Seq(Entry),
           Past(f, t, e, s), AtLeast(l, f, t)
    PROVE  AtLeast(l, e, s)
<1>1. LastEpoch(l) \in Nat /\ LastSeq(l) \in Nat
  BY LastTypes
<1> QED BY <1>1 DEF AtLeast, Past
-----------------------------------------------------------------------------
(* Steps that seal nothing *)

CalmWriters ==
    /\ sealed' = sealed /\ lease'.epoch >= lease.epoch
    /\ \A v \in Id : /\ writer'[v].by = writer[v].by /\ writer'[v].epoch = writer[v].epoch
                     /\ writer'[v].has = writer[v].has
CalmLogs == \A p \in Node : AtLeast(log'[p], LastEpoch(log[p]), LastSeq(log[p]))
SameCall(i) ==
    /\ call[i].open /\ call'[i].w = call[i].w
    /\ call'[i].kind = call[i].kind /\ call'[i].seq = call[i].seq
CalmCalls ==
    \A i \in Id : call'[i].open =>
        /\ SameCall(i)
        /\ Top(call[i].w) /\ call[i].kind = "change" =>
              \A p \in Node : call'[i].reply[p] = "ok" =>
                  \/ call[i].reply[p] = "ok"
                  \/ AtLeast(log'[p], writer[call[i].w].epoch, call[i].seq)
CalmNet ==
    \A d \in net' :
        \/ d \in net
        \/ /\ d.w = call[d.id].w
           /\ d.replace /\ Top(d.w) => LastEpoch(d.batch) = writer[d.w].epoch

\* A step after which nothing is known that was not known before, and no log is
\* shorter, keeps what holds of entries and calls.
LEMMA CalmHist ==
    ASSUME IInv, HistOK, IInv', Everywhere' \subseteq Everywhere,
           CalmWriters, CalmCalls, CalmNet
    PROVE  HistOK'
<1>1. \A y \in Everywhere' : EntryOK(y)'
  <2> SUFFICES ASSUME NEW y \in Everywhere' PROVE EntryOK(y)'
    OBVIOUS
  <2>1. y \in Everywhere /\ EntryOK(y) /\ y.id \in Id
    BY Kinds DEF HistOK
  <2> QED BY <2>1 DEF EntryOK, CalmWriters
<1>2. \A y, z \in Everywhere' : PairOK(y, z)'
  BY DEF HistOK, PairOK
<1>3. \A i \in Id : CallOK(i)'
  <2> SUFFICES ASSUME NEW i \in Id, call'[i].open PROVE CallOK(i)'
    BY DEF CallOK
  <2>1. SameCall(i) /\ CallOK(i)
    BY DEF CalmCalls, HistOK
  <2>2. call[i].w \in Id
    BY <2>1, Caller DEF SameCall, Open
  <2> QED BY <2>1, <2>2 DEF CallOK, SameCall, CalmWriters
<1>4. \A d \in net' : call'[d.id].open => d.w = call'[d.id].w
  <2> SUFFICES ASSUME NEW d \in net', call'[d.id].open PROVE d.w = call'[d.id].w
    OBVIOUS
  <2>1. d.id \in Id
    BY DEF IInv, Placed, TypeOK
  <2>2. call[d.id].open /\ call'[d.id].w = call[d.id].w
    BY <2>1 DEF CalmCalls, SameCall
  <2> QED BY <2>2 DEF CalmNet, HistOK
<1>5. \A v \in Id : writer'[v].epoch > 0 => \E n \in Eligible : Writes(v, n)'
  <2> SUFFICES ASSUME NEW v \in Id, writer'[v].epoch > 0 PROVE \E n \in Eligible : Writes(v, n)'
    OBVIOUS
  <2>1. writer[v].epoch > 0
    BY DEF CalmWriters
  <2>2. PICK n \in Eligible : Writes(v, n)
    BY <2>1 DEF HistOK
  <2>3. lease.epoch \in Nat /\ lease'.epoch \in Nat
    BY Kinds, KindsNext
  <2>4. Writes(v, n)'
    BY <2>2, <2>3 DEF Writes, CalmWriters
  <2> QED BY <2>4
<1> QED BY <1>1, <1>2, <1>3, <1>4, <1>5 DEF HistOK

LEMMA CalmTop ==
    ASSUME IInv, HistOK, TopOK, IInv', HistOK', Everywhere' \subseteq Everywhere,
           CalmWriters, CalmLogs, CalmCalls, CalmNet
    PROVE  TopOK'
<1> SUFFICES ASSUME NEW w \in Id, Top(w)'
             PROVE  OnTop(w)'
  BY DEF TopOK
<1> DEFINE m == writer[w].by
           e == writer[w].epoch
<1>1. Top(w) /\ writer'[w].by = m /\ writer'[w].epoch = e
  BY DEF Top, CalmWriters
<1>2. m \in Node /\ e \in Nat /\ e > 0
  BY <1>1, TopNode, Kinds DEF Top
<1>3. /\ LastEpoch(log[m]) = e
      /\ \A y \in Everywhere : y.epoch = e => y.seq <= LastSeq(log[m])
      /\ \A i \in Id : call[i].open /\ call[i].w = w =>
            /\ call[i].seq <= LastSeq(log[m])
            /\ call[i].kind = "change" => Followed(i)
  BY <1>1 DEF TopOK, OnTop
<1> HIDE DEF m, e
<1>4. /\ log'[m] \in Seq(Entry) /\ LastEpoch(log'[m]) \in Nat /\ LastSeq(log'[m]) \in Nat
      /\ LastEpoch(log[m]) \in Nat /\ LastSeq(log[m]) \in Nat
  BY <1>2, Kinds, KindsNext
<1>5. Past(LastEpoch(log'[m]), LastSeq(log'[m]), e, LastSeq(log[m]))
  BY <1>2, <1>3 DEF CalmLogs, AtLeast
<1>6. LastEpoch(log'[m]) <= e
  <2>1. LastEpoch(log'[m]) # 0
    BY <1>2, <1>4, <1>5 DEF Past
  <2>2. Last(log'[m]) \in Everywhere /\ LastEpoch(log'[m]) = Last(log'[m]).epoch
    <3>1. \A n \in Node : Entries(log'[n]) \subseteq Everywhere'
      <4>1. \A n \in Node : Entries(log'[n]) \subseteq OnDisk'
        BY DEF OnDisk
      <4> QED BY <4>1 DEF Everywhere
    <3> QED BY <1>2, <1>4, <2>1, <3>1, LastKnown
  <2> QED BY <1>1, <2>2, TopMost DEF e
<1>7. LastEpoch(log'[m]) = e /\ LastSeq(log'[m]) >= LastSeq(log[m])
  BY <1>2, <1>4, <1>5, <1>6 DEF Past
<1>8. ASSUME NEW y \in Everywhere', y.epoch = e PROVE y.seq <= LastSeq(log'[m])
  <2>1. y.seq <= LastSeq(log[m]) /\ y.seq \in Nat
    BY <1>3, <1>8, Kinds
  <2> QED BY <1>4, <1>7, <2>1
<1>9. ASSUME NEW i \in Id, call'[i].open, call'[i].w = w
      PROVE  /\ call'[i].seq <= LastSeq(log'[m])
             /\ call'[i].kind = "change" => Followed(i)'
  <2>1. SameCall(i) /\ call[i].w = w /\ call[i].seq \in Nat
    BY <1>9, Kinds DEF CalmCalls, SameCall
  <2>2. call'[i].seq <= LastSeq(log'[m])
    BY <1>3, <1>4, <1>7, <2>1 DEF SameCall
  <2>3. ASSUME call'[i].kind = "change" PROVE Followed(i)'
    <3> DEFINE s == call[i].seq
    <3>1. Followed(i) /\ call'[i].seq = s /\ writer'[call'[i].w].epoch = e
      BY <1>1, <1>3, <1>9, <2>1, <2>3 DEF SameCall
    <3>2. writer[call[i].w].epoch = e
      BY <2>1 DEF e
    <3>3. \A y \in Everywhere' :
              y.epoch = e =>
                  /\ y.id < i => y.seq < s
                  /\ y.id > i => y.seq > s /\ (y.kind = "snapshot" => i \in y.has)
      BY <3>1, <3>2 DEF Followed
    <3>4. ASSUME NEW p \in Node, call'[i].reply[p] = "ok" PROVE AtLeast(log'[p], e, s)
      <4>1. call[i].reply[p] = "ok" \/ AtLeast(log'[p], e, s)
        BY <1>1, <1>9, <2>1, <2>3, <3>2, <3>4 DEF CalmCalls, SameCall
      <4>2. CASE call[i].reply[p] = "ok"
        <5>1. Past(LastEpoch(log[p]), LastSeq(log[p]), e, s)
          BY <3>1, <3>2, <4>2 DEF Followed, AtLeast
        <5>2. /\ AtLeast(log'[p], LastEpoch(log[p]), LastSeq(log[p]))
              /\ LastEpoch(log[p]) \in Nat /\ LastSeq(log[p]) \in Nat /\ log'[p] \in Seq(Entry)
          BY Kinds, KindsNext DEF CalmLogs
        <5> QED BY <1>2, <2>1, <5>1, <5>2, AtLeastNext
      <4> QED BY <4>1, <4>2
    <3>5. ASSUME NEW d \in net', d.id = i, d.replace PROVE LastEpoch(d.batch) = e
      <4>1. CASE d \in net
        BY <3>1, <3>2, <3>5, <4>1 DEF Followed
      <4>2. CASE d.w = call[d.id].w /\ (d.replace /\ Top(d.w) => LastEpoch(d.batch) = writer[d.w].epoch)
        BY <1>1, <2>1, <3>2, <3>5, <4>2
      <4> QED BY <4>1, <4>2 DEF CalmNet
    <3> HIDE DEF s
    <3> QED BY <3>1, <3>3, <3>4, <3>5 DEF Followed
  <2> QED BY <2>2, <2>3
<1> QED BY <1>1, <1>7, <1>8, <1>9 DEF OnTop

LEMMA CalmSafe ==
    ASSUME IInv, HistOK, IInv', Everywhere' \subseteq Everywhere, CalmWriters, CalmLogs,
           NEW c, NEW e \in Nat \ {0}, NEW s \in Nat \ {0}, NEW Q \in SUBSET Node,
           Safe(c, e, s, Q), SafeReads(e, s, Q)'
    PROVE  Safe(c, e, s, Q)'
<1>1. \A p \in Node : AtLeast(log[p], e, s) => AtLeast(log'[p], e, s)
  <2> SUFFICES ASSUME NEW p \in Node, AtLeast(log[p], e, s) PROVE AtLeast(log'[p], e, s)
    OBVIOUS
  <2>1. /\ AtLeast(log'[p], LastEpoch(log[p]), LastSeq(log[p])) /\ log'[p] \in Seq(Entry)
        /\ LastEpoch(log[p]) \in Nat /\ LastSeq(log[p]) \in Nat
    BY Kinds, KindsNext DEF CalmLogs
  <2>2. Past(LastEpoch(log[p]), LastSeq(log[p]), e, s)
    BY DEF AtLeast
  <2> QED BY <2>1, <2>2, AtLeastNext
<1>2. \A q \in Q : AtLeast(log'[q], e, s)
  BY <1>1 DEF Safe
<1>3. SafeEntries(c, e, s)'
  BY DEF Safe, SafeEntries
<1>4. SafeWriters(c, e, s)'
  <2> SUFFICES ASSUME NEW v \in Id, writer'[v].epoch >= e
               PROVE  c \in writer'[v].has /\ AtLeast(log'[writer'[v].by], e, s)
    BY DEF SafeWriters
  <2>1. /\ writer[v].epoch >= e /\ writer'[v].by = writer[v].by /\ writer'[v].has = writer[v].has
    BY DEF CalmWriters
  <2>2. writer[v].by \in Node
    <3>1. writer[v].epoch > 0
      BY <2>1, Kinds
    <3> QED BY <3>1, TopNode
  <2>3. c \in writer[v].has /\ AtLeast(log[writer[v].by], e, s)
    BY <2>1 DEF Safe, SafeWriters
  <2> QED BY <1>1, <2>1, <2>2, <2>3
<1> QED BY <1>2, <1>3, <1>4 DEF Safe

CalmReads ==
    /\ \A n \in Eligible, k \in Job :
          \/ job'[n][k].asked = job[n][k].asked /\ job'[n][k].base = job[n][k].base
          \/ job'[n][k].asked = {} /\ job'[n][k].base = NoBase
    /\ \A n \in Eligible : prepared'[n] = prepared[n] \/ prepared'[n] = NoBase

LEMMA CalmReadsOK ==
    ASSUME ReadsOK, CalmReads
    PROVE  ReadsOK' /\ \A e, s, Q : SafeReads(e, s, Q) => SafeReads(e, s, Q)'
<1>1. ReadsOK'
  <2> SUFFICES ASSUME NEW n \in Eligible, NEW k \in Job
               PROVE  /\ n \notin job'[n][k].asked /\ IsFiniteSet(job'[n][k].asked)
                      /\ job'[n][k].base.count = Cardinality(job'[n][k].asked)
    BY DEF ReadsOK
  <2>1. CASE job'[n][k].asked = job[n][k].asked /\ job'[n][k].base = job[n][k].base
    BY <2>1 DEF ReadsOK
  <2>2. CASE job'[n][k].asked = {} /\ job'[n][k].base = NoBase
    <3>1. IsFiniteSet({}) /\ Cardinality({}) = 0
      BY FS_EmptySet
    <3> QED BY <2>2, <3>1 DEF NoBase
  <2> QED BY <2>1, <2>2 DEF CalmReads
<1>2. ASSUME NEW e, NEW s, NEW Q, SafeReads(e, s, Q) PROVE SafeReads(e, s, Q)'
  BY <1>2 DEF SafeReads, CalmReads
<1> QED BY <1>1, <1>2

\* What a majority has acknowledged in quiet times is safe.
LEMMA CommitSafe ==
    ASSUME IInv, HistOK, TopOK, NEW i \in Open, NEW seen \in SUBSET Node, Commits(i, seen),
           call[i].kind = "change", Undisturbed(call[i].w)
    PROVE  \E e \in Nat \ {0}, s \in Nat \ {0}, Q \in SUBSET Node : Safe(i, e, s, Q)
<1> DEFINE w == call[i].w
           e == writer[w].epoch
           s == call[i].seq
           m == writer[w].by
           Q == Acks(i, seen)
<1>1. /\ i \in Id /\ call[i].open /\ w \in Id /\ e \in Nat \ {0} /\ m \in Node /\ Id \subseteq Nat
  <2>1. i \in Id /\ call[i].open /\ w \in Id /\ Writes(w, m) /\ m \in Eligible
    BY Caller
  <2> QED BY <2>1, Kinds, JournalAssumption DEF Writes
<1>2. CallOK(i)
  BY <1>1 DEF HistOK
<1>3. s \in Nat \ {0} /\ w < i /\ i \in writer[w].has
  BY <1>1, <1>2, Kinds DEF CallOK
<1>4. Top(w)
  BY <1>1 DEF Top, Undisturbed
<1>5. LastEpoch(log[m]) = e /\ s <= LastSeq(log[m]) /\ Followed(i)
  BY <1>1, <1>4 DEF TopOK, OnTop
<1>6. AtLeast(log[m], e, s)
  BY <1>1, <1>3, <1>5, Kinds DEF AtLeast, Past
<1>7. Q \in SUBSET Node /\ Cardinality(Q) >= Quorum
  BY <1>1 DEF Acks, Commits
<1>8. \A q \in Q : AtLeast(log[q], e, s)
  <2> SUFFICES ASSUME NEW q \in Q PROVE AtLeast(log[q], e, s)
    OBVIOUS
  <2>1. q = m \/ (q \in Node /\ call[i].reply[q] = "ok")
    BY DEF Acks
  <2> QED BY <1>5, <1>6, <2>1 DEF Followed
<1>9. SafeEntries(i, e, s)
  <2> SUFFICES ASSUME NEW y \in Everywhere
               PROVE  /\ y.id = i => y.kind = "change" /\ y.has = {i} /\ y.epoch = e /\ y.seq = s
                      /\ y.id # i /\ Past(y.epoch, y.seq, e, s) =>
                            /\ y.prev # 0
                            /\ y.kind = "snapshot" => i \in y.has
                            /\ \A z \in Everywhere : y.prev = z.id => Past(z.epoch, z.seq, e, s)
    BY DEF SafeEntries
  <2>1. /\ EntryOK(y) /\ y.id \in Nat /\ y.seq \in Nat /\ y.epoch \in Nat /\ y.epoch <= e
        /\ y.id \in Id
    BY <1>1, <1>4, Kinds, TopMost DEF HistOK
  <2>2. ASSUME y.id = i PROVE y.kind = "change" /\ y.has = {i} /\ y.epoch = e /\ y.seq = s
    BY <1>1, <1>2, <2>1, <2>2 DEF CallOK, EntryOK
  <2>3. ASSUME y.id # i, Past(y.epoch, y.seq, e, s)
        PROVE  /\ y.prev # 0
               /\ y.kind = "snapshot" => i \in y.has
               /\ \A z \in Everywhere : y.prev = z.id => Past(z.epoch, z.seq, e, s)
    <3>1. y.epoch = e /\ y.seq >= s
      BY <1>1, <1>3, <2>1, <2>3 DEF Past
    <3>2. y.id > i /\ y.seq > s /\ (y.kind = "snapshot" => i \in y.has)
      <4>1. /\ y.id < i => y.seq < s
            /\ y.id > i => y.seq > s /\ (y.kind = "snapshot" => i \in y.has)
        BY <1>5, <3>1 DEF Followed
      <4>2. y.id > i
        BY <1>1, <1>3, <2>1, <2>3, <3>1, <4>1
      <4> QED BY <4>1, <4>2
    <3>3. y.prev # 0
      BY <1>3, <2>1, <3>2 DEF EntryOK
    <3>4. ASSUME NEW z \in Everywhere, y.prev = z.id PROVE Past(z.epoch, z.seq, e, s)
      <4>1. y.seq = z.seq + 1 /\ z.epoch <= y.epoch /\ (z.epoch < y.epoch => y.kind = "term")
        BY <3>4 DEF HistOK, PairOK
      <4>2. z.seq \in Nat /\ z.epoch \in Nat
        BY Kinds
      <4>3. y.kind # "term"
        <5> SUFFICES ASSUME y.kind = "term" PROVE FALSE
          OBVIOUS
        <5>1. writer[y.id].epoch = e
          BY <2>1, <3>1 DEF EntryOK
        <5>2. y.id = w
          <6>1. y.id # w => writer[y.id].epoch < e
            BY <1>4, <2>1 DEF Top
          <6> QED BY <1>1, <5>1, <6>1
        <5>3. i \in Nat /\ w \in Nat
          BY <1>1
        <5> HIDE DEF w
        <5> QED BY <1>3, <3>2, <5>2, <5>3
      <4>4. z.epoch = e /\ z.seq >= s
        BY <1>1, <1>3, <2>1, <3>1, <3>2, <4>1, <4>2, <4>3
      <4> QED BY <1>1, <1>3, <4>2, <4>4 DEF Past
    <3> QED BY <3>2, <3>3, <3>4
  <2> QED BY <2>2, <2>3
<1>10. SafeWriters(i, e, s)
  <2> SUFFICES ASSUME NEW v \in Id, writer[v].epoch >= e
               PROVE  i \in writer[v].has /\ AtLeast(log[writer[v].by], e, s)
    BY DEF SafeWriters
  <2>1. v = w
    <3>1. v # w => writer[v].epoch < e
      BY <1>4 DEF Top
    <3>2. writer[v].epoch \in Nat
      BY Kinds
    <3> QED BY <1>1, <3>1, <3>2
  <2> QED BY <1>3, <1>6, <2>1
<1>11. SafeReads(e, s, Q)
  <2>1. \A n \in Eligible : prepared[n] = NoBase /\ \A k \in Job : job[n][k] = NoJob
    BY DEF Undisturbed
  <2> QED BY <2>1 DEF SafeReads, NoJob
<1>12. Safe(i, e, s, Q)
  BY <1>7, <1>8, <1>9, <1>10, <1>11 DEF Safe
<1> HIDE DEF e, s, Q
<1> QED BY <1>1, <1>3, <1>7, <1>12

Keeps ==
    \A c \in 1..sealed, e \in Nat \ {0}, s \in Nat \ {0}, Q \in SUBSET Node :
        Safe(c, e, s, Q) => Safe(c, e, s, Q)'
MayCommit ==
    \/ committed' = committed
    \/ \E i \in Open : /\ \E seen \in SUBSET Node : Commits(i, seen)
                       /\ Commit(i) /\ ~call'[i].open

LEMMA Committing ==
    ASSUME IInv, HistOK, TopOK, OnceOK, SafeOK, sealed' \in Nat, sealed' >= sealed,
           \A i \in Id : i <= sealed /\ call'[i].open => call[i].open,
           MayCommit, Keeps,
           \A c \in lost' : \/ c \in lost
                            \/ /\ c \in Changes
                               /\ \A e \in Nat \ {0}, s \in Nat \ {0}, Q \in SUBSET Node :
                                      ~Safe(c, e, s, Q)
    PROVE  OnceOK' /\ SafeOK'
<1> DEFINE Fresh(c) == /\ c.id \in Open
                       /\ \E seen \in SUBSET Node : Commits(c.id, seen)
                       /\ c.clean => Undisturbed(call[c.id].w)
                       /\ c.kind = call[c.id].kind
                       /\ ~call'[c.id].open
<1>0. /\ \A c \in committed : c.id \in Id
      /\ \A c \in committed : c.id \in 1..sealed
      /\ sealed \in Nat /\ Id \subseteq Nat
  <2>1. \A c \in committed : c.id \in Id
    BY DEF IInv, Placed, TypeOK
  <2>2. sealed \in Nat /\ Id \subseteq Nat /\ 0 \notin Id
    BY Kinds
  <2>3. \A c \in committed : c.id <= sealed
    BY DEF OnceOK
  <2> QED BY <2>1, <2>2, <2>3 DEF Id
<1>1. /\ committed \subseteq committed'
      /\ \A c \in committed' : c \in committed \/ Fresh(c)
      /\ \A c, d \in committed' : c \notin committed /\ d \notin committed => c = d
  <2>1. CASE committed' = committed
    BY <2>1
  <2>2. CASE committed' # committed
    <3>1. PICK i \in Open : /\ \E seen \in SUBSET Node : Commits(i, seen)
                            /\ Commit(i) /\ ~call'[i].open
      BY <2>2 DEF MayCommit
    <3> DEFINE r == [id |-> i, kind |-> call[i].kind, clean |-> Undisturbed(call[i].w)]
    <3>2. committed' = committed \cup {r}
      BY <3>1 DEF Commit
    <3>3. Fresh(r)
      BY <3>1
    <3> HIDE DEF r, Fresh
    <3> QED BY <3>2, <3>3
  <2> QED BY <2>1, <2>2
<1>2. ASSUME NEW c \in committed', Fresh(c), NEW d \in committed PROVE d.id # c.id
  BY <1>2 DEF Open, OnceOK
<1>3. \A c \in committed' : c.id <= sealed /\ c.id \in 1..sealed /\ ~call'[c.id].open
  <2> SUFFICES ASSUME NEW c \in committed'
               PROVE  c.id <= sealed /\ c.id \in 1..sealed /\ ~call'[c.id].open
    OBVIOUS
  <2>1. CASE c \in committed
    BY <1>0, <2>1 DEF OnceOK
  <2>2. CASE Fresh(c)
    <3>1. c.id \in Id /\ c.id <= sealed
      BY <2>2, Caller
    <3>2. c.id \in 1..sealed
      BY <1>0, <3>1 DEF Id
    <3> QED BY <2>2, <3>1, <3>2
  <2> QED BY <1>1, <2>1, <2>2
<1>4. \A c, d \in committed' : c.id = d.id => c = d
  <2> SUFFICES ASSUME NEW c \in committed', NEW d \in committed', c.id = d.id PROVE c = d
    OBVIOUS
  <2> HIDE DEF Fresh
  <2>1. CASE c \in committed /\ d \in committed
    BY <2>1 DEF OnceOK
  <2>2. CASE c \notin committed /\ d \notin committed
    BY <1>1, <2>2
  <2>3. CASE c \in committed /\ d \notin committed
    BY <1>1, <1>2, <2>3
  <2>4. CASE c \notin committed /\ d \in committed
    BY <1>1, <1>2, <2>4
  <2> QED BY <2>1, <2>2, <2>3, <2>4
<1>5. Changes \subseteq Changes'
  BY <1>1 DEF Changes
<1>6. OnceOK'
  <2>1. lost' \subseteq Changes'
    <3>1. \A c \in lost' : c \in lost \/ c \in Changes
      OBVIOUS
    <3> QED BY <1>5, <3>1 DEF OnceOK
  <2>2. \A c \in committed' : c.id <= sealed'
    <3>1. \A c \in committed' : c.id <= sealed /\ c.id \in Nat
      BY <1>0, <1>3
    <3> QED BY <1>0, <3>1
  <2> QED BY <1>3, <1>4, <2>1, <2>2 DEF OnceOK
<1>7. SafeOK'
  <2> SUFFICES ASSUME NEW c \in committed', c.clean, c.kind = "change"
               PROVE  /\ c.id \notin lost'
                      /\ \E e \in Nat \ {0}, s \in Nat \ {0}, Q \in SUBSET Node :
                            Safe(c.id, e, s, Q)'
    BY DEF SafeOK
  <2>1. /\ c.id \notin lost
        /\ \E e \in Nat \ {0}, s \in Nat \ {0}, Q \in SUBSET Node : Safe(c.id, e, s, Q)
    <3>1. CASE c \in committed
      BY <3>1 DEF SafeOK
    <3>2. CASE Fresh(c)
      <4>1. \E e \in Nat \ {0}, s \in Nat \ {0}, Q \in SUBSET Node : Safe(c.id, e, s, Q)
        <5>1. PICK i \in Open : i = c.id
          BY <3>2
        <5>2. PICK seen \in SUBSET Node : Commits(i, seen)
          BY <3>2, <5>1
        <5>3. call[i].kind = "change" /\ Undisturbed(call[i].w)
          BY <3>2, <5>1
        <5> QED BY <5>1, <5>2, <5>3, CommitSafe
      <4>2. c.id \notin Changes
        BY <1>2, <3>2 DEF Changes
      <4> QED BY <4>1, <4>2 DEF OnceOK
    <3> HIDE DEF Fresh
    <3> QED BY <1>1, <3>1, <3>2
  <2>2. c.id \notin lost'
    BY <2>1
  <2>3. c.id \in 1..sealed
    BY <1>3
  <2> QED BY <2>1, <2>2, <2>3 DEF Keeps
<1> QED BY <1>6, <1>7

KeepsReads ==
    \A c \in 1..sealed, e \in Nat \ {0}, s \in Nat \ {0}, Q \in SUBSET Node :
        Safe(c, e, s, Q) => SafeReads(e, s, Q)'

LEMMA Calm ==
    ASSUME SInv, IInv', Everywhere' \subseteq Everywhere,
           CalmWriters, CalmLogs, CalmCalls, CalmNet,
           ReadsOK', KeepsReads, lost' = lost, MayCommit
    PROVE  SInv'
<1>1. IInv /\ HistOK /\ TopOK /\ OnceOK /\ SafeOK
  BY DEF SInv
<1>2. HistOK'
  BY <1>1, CalmHist
<1>3. TopOK'
  BY <1>1, <1>2, CalmTop
<1>4. Keeps
  BY <1>1, CalmSafe DEF Keeps, KeepsReads
<1>5. OnceOK' /\ SafeOK'
  <2>1. sealed' \in Nat /\ sealed' >= sealed
    BY <1>1, Kinds DEF CalmWriters
  <2>2. \A i \in Id : i <= sealed /\ call'[i].open => call[i].open
    BY DEF CalmCalls, SameCall
  <2> QED BY <1>1, <1>4, <2>1, <2>2, Committing
<1> QED BY <1>2, <1>3, <1>5 DEF SInv

LEMMA NoNewEntries ==
    ASSUME \A n \in Node : Entries(log'[n]) \subseteq Everywhere, CalmReads,
           \A d \in net' : d \in net \/ Entries(d.batch) \subseteq Everywhere
    PROVE  Everywhere' \subseteq Everywhere
<1>1. \A n \in Eligible : Entries(prepared'[n].log) \subseteq Everywhere
  <2> SUFFICES ASSUME NEW n \in Eligible PROVE Entries(prepared'[n].log) \subseteq Everywhere
    OBVIOUS
  <2>1. CASE prepared'[n] = prepared[n]
    BY <2>1, Somewhere
  <2>2. CASE prepared'[n] = NoBase
    BY <2>2, EntriesFew DEF NoBase
  <2> QED BY <2>1, <2>2 DEF CalmReads
<1>2. \A n \in Eligible, k \in Job : Entries(job'[n][k].base.log) \subseteq Everywhere
  <2> SUFFICES ASSUME NEW n \in Eligible, NEW k \in Job
               PROVE  Entries(job'[n][k].base.log) \subseteq Everywhere
    OBVIOUS
  <2>1. CASE job'[n][k].base = job[n][k].base
    BY <2>1, Somewhere
  <2>2. CASE job'[n][k].base = NoBase
    BY <2>2, EntriesFew DEF NoBase
  <2> QED BY <2>1, <2>2 DEF CalmReads
<1>3. \A d \in net' : Entries(d.batch) \subseteq Everywhere
  BY Somewhere
<1> QED BY <1>1, <1>2, <1>3, Nowhere

\* A log stands at its own end.
LEMMA AtOwnEnd ==
    ASSUME NEW l \in Seq(Entry)
    PROVE  AtLeast(l, LastEpoch(l), LastSeq(l))
BY LastTypes DEF AtLeast, Past

\* Steps that change no log and add nothing to calls and to the network.
LEMMA Still ==
    ASSUME SInv, IInv', log' = log, net' \subseteq net,
           \A i \in Id : call'[i] = call[i] \/ call'[i] = NoCall,
           CalmWriters, CalmReads, lost' = lost, MayCommit
    PROVE  SInv'
<1>0. IInv /\ HistOK /\ ReadsOK
  BY DEF SInv
<1>1. Everywhere' \subseteq Everywhere
  BY Somewhere, NoNewEntries
<1>2. CalmLogs
  BY <1>0, Kinds, AtOwnEnd DEF CalmLogs
<1>3. CalmCalls
  <2>1. ~NoCall.open
    BY DEF NoCall
  <2> QED BY <2>1 DEF CalmCalls, SameCall
<1>4. CalmNet
  BY DEF CalmNet
<1>5. ReadsOK' /\ KeepsReads
  BY <1>0, CalmReadsOK DEF KeepsReads, Safe
<1> QED BY <1>1, <1>2, <1>3, <1>4, <1>5, Calm
-----------------------------------------------------------------------------
(* The steps that seal nothing, one by one *)

SameWriters ==
    \A v \in Id : /\ writer'[v].by = writer[v].by /\ writer'[v].epoch = writer[v].epoch
                  /\ writer'[v].has = writer[v].has

LEMMA WriterMarks ==
    ASSUME IInv, NEW w \in Id, NEW b, NEW t,
           \/ writer' = writer
           \/ writer' = [writer EXCEPT ![w].fenced = b]
           \/ writer' = [writer EXCEPT ![w].since = t]
           \/ writer' = [[writer EXCEPT ![w].since = t] EXCEPT ![w].fenced = b]
    PROVE  SameWriters
<1>1. writer \in [Id -> WriterRec]
  BY Parts DEF Records
<1> SUFFICES ASSUME NEW v \in Id
             PROVE  /\ writer'[v].by = writer[v].by /\ writer'[v].epoch = writer[v].epoch
                    /\ writer'[v].has = writer[v].has
  BY DEF SameWriters
<1>2. writer[v] \in WriterRec /\ writer[w] \in WriterRec
  BY <1>1
<1>3. CASE writer' = writer
  BY <1>3
<1>4. CASE writer' = [writer EXCEPT ![w].fenced = b]
  BY <1>1, <1>2, <1>4 DEF WriterRec
<1>5. CASE writer' = [writer EXCEPT ![w].since = t]
  BY <1>1, <1>2, <1>5 DEF WriterRec
<1>6. CASE writer' = [[writer EXCEPT ![w].since = t] EXCEPT ![w].fenced = b]
  <2> DEFINE u == [writer EXCEPT ![w].since = t]
  <2>1. /\ DOMAIN u = Id /\ DOMAIN u[v] = DOMAIN writer[v]
        /\ u[v].by = writer[v].by /\ u[v].epoch = writer[v].epoch /\ u[v].has = writer[v].has
        /\ {"by", "epoch", "has"} \subseteq DOMAIN writer[v]
    BY <1>1, <1>2 DEF WriterRec
  <2>2. writer' = [u EXCEPT ![w].fenced = b]
    BY <1>6
  <2> HIDE DEF u
  <2> QED BY <2>1, <2>2
<1> QED BY <1>3, <1>4, <1>5, <1>6

\* A job that is set anew holds nothing yet.
LEMMA JobsEmptied ==
    ASSUME IInv, NEW n \in Eligible, NEW k \in Job, NEW r \in JobRec,
           r.asked = {}, r.base = NoBase,
           job' = job \/ job' = [job EXCEPT ![n][k] = r],
           \A m \in Eligible : prepared'[m] = prepared[m] \/ prepared'[m] = NoBase
    PROVE  CalmReads
<1>1. Takes
  BY Parts
<1>2. CASE job' = job
  BY <1>2 DEF CalmReads
<1>3. CASE job' = [job EXCEPT ![n][k] = r]
  <2>1. /\ job'[n][k] = r
        /\ \A m \in Eligible, q \in Job : (m # n \/ q # k) => job'[m][q] = job[m][q]
    BY <1>1, <1>3, JobSet, ZenonT(30)
  <2>2. ASSUME NEW m \in Eligible, NEW q \in Job
        PROVE  \/ job'[m][q].asked = job[m][q].asked /\ job'[m][q].base = job[m][q].base
               \/ job'[m][q].asked = {} /\ job'[m][q].base = NoBase
    <3>1. CASE m = n /\ q = k
      BY <2>1, <3>1
    <3>2. CASE m # n \/ q # k
      BY <2>1, <3>2
    <3> QED BY <3>1, <3>2
  <2> QED BY <2>2 DEF CalmReads
<1> QED BY <1>2, <1>3

LEMMA NothingMoves ==
    ASSUME IInv
    PROVE  /\ sealed' = sealed /\ lease' = lease /\ SameWriters => CalmWriters
           /\ committed' = committed => MayCommit
           /\ job' = job /\ prepared' = prepared => CalmReads
<1>1. lease.epoch \in Nat
  BY Kinds
<1>2. sealed' = sealed /\ lease' = lease /\ SameWriters => CalmWriters
  BY <1>1 DEF CalmWriters, SameWriters
<1> QED BY <1>2 DEF MayCommit, CalmReads

LEMMA LeaseSteps ==
    ASSUME SInv, IInv', NEW n \in Eligible, NoteLost(n) \/ Observe(n) \/ DropFence(n)
    PROVE  SInv'
<1>1. /\ log' = log /\ net' = net /\ call' = call /\ writer' = writer /\ sealed' = sealed
      /\ lease' = lease /\ committed' = committed /\ lost' = lost
      /\ job' = job /\ prepared' = prepared
  BY DEF NoteLost, Observe, DropFence, replicas, runtime, history
<1>2. CalmWriters /\ MayCommit /\ CalmReads
  BY <1>1, NothingMoves DEF SInv, SameWriters
<1> QED BY <1>1, <1>2, Still

LEMMA CrashStep ==
    ASSUME SInv, IInv', NEW n \in Eligible, Crash(n)
    PROVE  SInv'
<1>0. IInv /\ Takes /\ Records
  BY Parts DEF SInv
<1>1. /\ log' = log /\ net' = net /\ writer' = writer /\ sealed' = sealed
      /\ lease' = lease /\ committed' = committed /\ lost' = lost
      /\ job' = [job EXCEPT ![n] = [k \in Job |-> NoJob]]
      /\ prepared' = [prepared EXCEPT ![n] = NoBase]
      /\ \A i \in Id : call'[i] = call[i] \/ call'[i] = NoCall
  BY DEF Crash, replicas, history
<1>2. CalmWriters /\ MayCommit
  BY <1>0, <1>1, NothingMoves DEF SameWriters
<1>3. CalmReads
  <2>1. \A m \in Eligible : job'[m] = job[m] \/ job'[m] = [k \in Job |-> NoJob]
    BY <1>0, <1>1 DEF Takes
  <2>2. \A m \in Eligible : prepared'[m] = prepared[m] \/ prepared'[m] = NoBase
    BY <1>0, <1>1 DEF Takes
  <2> QED BY <2>1, <2>2 DEF CalmReads, NoJob
<1> QED BY <1>1, <1>2, <1>3, Still

LEMMA StutterStep ==
    ASSUME SInv, IInv', UNCHANGED vars
    PROVE  SInv'
<1>1. /\ log' = log /\ net' = net /\ call' = call /\ writer' = writer /\ sealed' = sealed
      /\ lease' = lease /\ committed' = committed /\ lost' = lost
      /\ job' = job /\ prepared' = prepared
  BY DEF vars
<1>2. CalmWriters /\ MayCommit /\ CalmReads
  BY <1>1, NothingMoves DEF SInv, SameWriters
<1> QED BY <1>1, <1>2, Still

LEMMA StartReturnsStep ==
    ASSUME SInv, IInv', NEW i \in Open, NEW seen \in SUBSET Node, StartReturns(i, seen)
    PROVE  SInv'
<1>0. IInv /\ Takes /\ Records /\ i \in Id
  BY Parts DEF SInv, Open
<1> DEFINE n == writer[call[i].w].by
<1>1. /\ log' = log /\ sealed' = sealed /\ lease' = lease /\ lost' = lost /\ prepared' = prepared
      /\ Close(call, i)
  BY DEF StartReturns, replicas
<1>2. PICK k \in Job :
        /\ Idle(n, k)
        /\ \/ Commits(i, seen) /\ Commit(i) /\ writer' = writer
           \/ committed' = committed /\ writer' = [writer EXCEPT ![i].fenced = @ \/ Stale(i, seen)]
  BY DEF StartReturns
<1>3. /\ net' \subseteq net /\ \A j \in Id : call'[j] = call[j] \/ call'[j] = NoCall
      /\ ~call'[i].open
  <2>1. ~call'[i].open
    BY <1>0, <1>1 DEF Close, NoCall, Records
  <2> QED BY <1>0, <1>1, <2>1, CloseOK
<1>4. SameWriters
  BY <1>0, <1>2, WriterMarks
<1>5. CalmReads
  <2>1. n \in Eligible
    BY <1>0, Caller
  <2>2. NoJob \in JobRec /\ NoJob.asked = {} /\ NoJob.base = NoBase
    BY Empties DEF NoJob
  <2>3. job' = [job EXCEPT ![n][k] = NoJob]
    BY <1>2 DEF Idle
  <2> HIDE DEF n
  <2> QED BY <1>0, <1>1, <2>1, <2>2, <2>3, JobsEmptied
<1>6. MayCommit
  BY <1>2, <1>3 DEF MayCommit
<1>7. CalmWriters
  BY <1>0, <1>1, <1>4, NothingMoves
<1> QED BY <1>1, <1>3, <1>5, <1>6, <1>7, Still

LEMMA SnapshotReturnsStep ==
    ASSUME SInv, IInv', NEW i \in Open, NEW seen \in SUBSET Node, SnapshotReturns(i, seen)
    PROVE  SInv'
<1>0. IInv /\ Takes /\ Records /\ i \in Id /\ ReadsOK
  BY Parts DEF SInv, Open
<1>1. /\ sealed' = sealed /\ lease' = lease /\ lost' = lost /\ prepared' = prepared /\ job' = job
      /\ Close(call, i)
  BY DEF SnapshotReturns
<1>2. PICK w \in Id : w = call[i].w
  BY <1>0, Caller
<1>3. PICK n \in Eligible : n = writer[w].by
  BY <1>0, <1>2, Caller
<1>4. \/ /\ Commits(i, seen) /\ Commit(i)
         /\ writer' = [writer EXCEPT ![w].since = 0]
         /\ log' = [log EXCEPT ![n] = Compact(@, call[i].seq)]
      \/ /\ committed' = committed
         /\ writer' = [writer EXCEPT ![w].fenced = @ \/ Stale(i, seen)]
         /\ log' = log
  BY <1>2, <1>3 DEF SnapshotReturns
<1>5. /\ net' \subseteq net /\ \A j \in Id : call'[j] = call[j] \/ call'[j] = NoCall
      /\ ~call'[i].open
  <2>1. ~call'[i].open
    BY <1>0, <1>1 DEF Close, NoCall, Records
  <2> QED BY <1>0, <1>1, <2>1, CloseOK
<1>6. SameWriters
  BY <1>0, <1>4, WriterMarks
<1>7. CalmWriters /\ CalmReads
  BY <1>0, <1>1, <1>6, NothingMoves
<1>8. MayCommit
  BY <1>4, <1>5 DEF MayCommit
<1>9. CASE log' = log
  BY <1>1, <1>5, <1>7, <1>8, <1>9, Still
<1>10. CASE log' = [log EXCEPT ![n] = Compact(@, call[i].seq)]
  <2> DEFINE k == Compact(log[n], call[i].seq)
  <2>1. /\ n \in Node /\ log \in [Node -> Seq(Entry)]
        /\ \A p \in Node : log[p] \in Seq(Entry) /\ Chain(log[p])
    BY <1>0, Kinds, JournalAssumption DEF IInv, Placed, TypeOK
  <2>2. /\ Entries(k) \subseteq Entries(log[n])
        /\ LastEpoch(k) = LastEpoch(log[n]) /\ LastSeq(k) = LastSeq(log[n])
    BY <2>1, CompactKeeps
  <2>3. log'[n] = k /\ \A p \in Node : p # n => log'[p] = log[p]
    BY <1>10, <2>1
  <2> HIDE DEF k
  <2>4. \A p \in Node : /\ Entries(log'[p]) \subseteq Entries(log[p])
                        /\ LastEpoch(log'[p]) = LastEpoch(log[p])
                        /\ LastSeq(log'[p]) = LastSeq(log[p])
    BY <2>2, <2>3
  <2>5. Everywhere' \subseteq Everywhere
    <3>1. \A p \in Node : Entries(log'[p]) \subseteq Everywhere
      BY <2>4, Somewhere
    <3> QED BY <1>5, <1>7, <3>1, NoNewEntries
  <2>6. CalmLogs
    <3> SUFFICES ASSUME NEW p \in Node PROVE AtLeast(log'[p], LastEpoch(log[p]), LastSeq(log[p]))
      BY DEF CalmLogs
    <3>1. AtLeast(log[p], LastEpoch(log[p]), LastSeq(log[p]))
      BY <2>1, AtOwnEnd
    <3> QED BY <2>4, <3>1 DEF AtLeast
  <2>7. CalmCalls /\ CalmNet
    <3>1. ~NoCall.open
      BY DEF NoCall
    <3> QED BY <1>5, <3>1 DEF CalmCalls, CalmNet, SameCall
  <2>8. ReadsOK' /\ KeepsReads
    BY <1>0, <1>7, CalmReadsOK DEF KeepsReads, Safe
  <2> QED BY <1>1, <1>7, <1>8, <2>5, <2>6, <2>7, <2>8, Calm
<1> QED BY <1>4, <1>9, <1>10

\* A job is given up or set anew, and nothing is sealed.
LEMMA SetJob ==
    ASSUME SInv, IInv', NEW n \in Eligible, NEW k \in Job, NEW r \in JobRec,
           r.asked = {}, r.base = NoBase, job' = [job EXCEPT ![n][k] = r],
           \A m \in Eligible : prepared'[m] = prepared[m] \/ prepared'[m] = NoBase,
           UNCHANGED <<log, writer, call, net, sealed, lost, committed>>,
           lease'.epoch >= lease.epoch
    PROVE  SInv'
<1>0. IInv
  BY DEF SInv
<1>1. CalmReads
  BY <1>0, JobsEmptied
<1>2. CalmWriters /\ MayCommit
  BY DEF CalmWriters, MayCommit
<1> QED BY <1>1, <1>2, Still

LEMMA FenceStep ==
    ASSUME SInv, IInv', NEW n \in Eligible, NEW w \in Id, NEW b,
           writer' = [writer EXCEPT ![w].fenced = b],
           UNCHANGED <<log, call, net, sealed, lost, committed, job, prepared, lease>>
    PROVE  SInv'
<1>0. IInv
  BY DEF SInv
<1>1. SameWriters
  BY <1>0, WriterMarks
<1> QED BY <1>0, <1>1, NothingMoves, Still

LEMMA ResendStep ==
    ASSUME SInv, IInv', NEW i \in Open, NEW p \in Node, Resend(i, p)
    PROVE  SInv'
<1>0. IInv /\ Takes /\ Records /\ i \in Id /\ HistOK /\ TopOK /\ ReadsOK
  BY Parts DEF SInv, Open
<1>1. /\ log' = log /\ writer' = writer /\ sealed' = sealed /\ lease' = lease
      /\ lost' = lost /\ committed' = committed /\ job' = job /\ prepared' = prepared
      /\ call' = [call EXCEPT ![i].reply[p] = "none"]
  BY DEF Resend, replicas, runtime, history
<1>2. PICK w \in Id : w = call[i].w
  BY <1>0, Caller
<1>3. PICK n \in Node : n = writer[w].by
  BY <1>0, <1>2, Caller, JournalAssumption
<1>4. PICK d : d = Delivery(p, w, i, log[n], TRUE)
  OBVIOUS
<1>5. net' = net \cup {d} /\ d.w = w /\ d.id = i /\ d.batch = log[n]
  BY <1>2, <1>3, <1>4 DEF Resend, Delivery
<1>6. CalmWriters /\ MayCommit /\ CalmReads
  BY <1>0, <1>1, NothingMoves DEF SameWriters
<1>7. Everywhere' \subseteq Everywhere
  <2>1. Entries(d.batch) \subseteq Everywhere
    BY <1>5, Somewhere
  <2> QED BY <1>1, <1>5, <1>6, <2>1, Somewhere, NoNewEntries
<1>8. CalmLogs
  BY <1>0, <1>1, Kinds, AtOwnEnd DEF CalmLogs
<1>9. CalmCalls
  <2> SUFFICES ASSUME NEW j \in Id, call'[j].open
               PROVE  /\ SameCall(j)
                      /\ \A q \in Node : call'[j].reply[q] = "ok" => call[j].reply[q] = "ok"
    BY DEF CalmCalls
  <2>1. call[j] \in CallRec /\ call[i] \in CallRec
    BY <1>0 DEF Records
  <2>2. CASE j # i
    BY <1>0, <1>1, <2>2 DEF Records, SameCall
  <2>3. CASE j = i
    <3>1. call'[i] = [call[i] EXCEPT !.reply = [call[i].reply EXCEPT ![p] = "none"]]
      BY <1>0, <1>1 DEF Records
    <3> QED BY <2>1, <2>3, <3>1 DEF CallRec, SameCall
  <2> QED BY <2>2, <2>3
<1>10. CalmNet
  <2> SUFFICES ASSUME Top(w) PROVE LastEpoch(log[n]) = writer[w].epoch
    BY <1>2, <1>5 DEF CalmNet
  <2> QED BY <1>0, <1>3 DEF TopOK, OnTop
<1>11. ReadsOK' /\ KeepsReads
  BY <1>0, <1>6, CalmReadsOK DEF KeepsReads, Safe
<1> QED BY <1>1, <1>6, <1>7, <1>8, <1>9, <1>10, <1>11, Calm
-----------------------------------------------------------------------------
(* Restores under way *)

\* A merge counts one replica more, and its log is behind neither.
LEMMA Merged ==
    ASSUME NEW c \in Base, NEW p \in Node, log[p] \in Seq(Entry), NEW b \in Merges(c, p)
    PROVE  /\ b.count = c.count + 1 /\ b.log \in {log[p], c.log}
           /\ c.count = 0 => b.log = log[p]
           /\ \A e, s \in Nat : AtLeast(log[p], e, s) => AtLeast(b.log, e, s)
           /\ \A e, s \in Nat : c.count # 0 /\ AtLeast(c.log, e, s) => AtLeast(b.log, e, s)
<1>1. PICK k \in IF c.count = 0 THEN {log[p]}
                 ELSE {h \in {log[p], c.log} : ~Newer(log[p], h) /\ ~Newer(c.log, h)} :
         b = [log |-> k, max |-> Larger(c.max, Larger(mark[p], LastEpoch(log[p]))),
              count |-> c.count + 1]
  BY DEF Merges
<1>2. b.log = k /\ b.count = c.count + 1
  BY <1>1
<1>3. /\ k \in {log[p], c.log} /\ (c.count = 0 => k = log[p])
      /\ c.count # 0 => ~Newer(log[p], k) /\ ~Newer(c.log, k)
  BY <1>1
<1>4. /\ LastEpoch(log[p]) \in Nat /\ LastSeq(log[p]) \in Nat
      /\ LastEpoch(c.log) \in Nat /\ LastSeq(c.log) \in Nat
  BY LastTypes DEF Base
<1>5. LastEpoch(k) \in Nat /\ LastSeq(k) \in Nat
  BY <1>3, <1>4
<1>6. ASSUME NEW e \in Nat, NEW s \in Nat, AtLeast(log[p], e, s) PROVE AtLeast(k, e, s)
  BY <1>3, <1>4, <1>5, <1>6 DEF AtLeast, Past, Newer
<1>7. ASSUME NEW e \in Nat, NEW s \in Nat, c.count # 0, AtLeast(c.log, e, s)
      PROVE  AtLeast(k, e, s)
  BY <1>3, <1>4, <1>5, <1>7 DEF AtLeast, Past, Newer
<1> QED BY <1>2, <1>3, <1>6, <1>7

\* A restore that has met the majority of a safe entry is at or past it.
LEMMA ReadSafe ==
    ASSUME IInv, ReadsOK, NEW n \in Eligible, NEW k \in Job, NEW p \in Node,
           NEW b \in Merges(job[n][k].base, p),
           NEW e \in Nat, NEW s \in Nat, NEW Q \in SUBSET Node,
           SafeReads(e, s, Q), \A q \in Q : AtLeast(log[q], e, s),
           (job[n][k].asked \cup {p}) \cap Q # {}
    PROVE  AtLeast(b.log, e, s)
<1>1. /\ log[p] \in Seq(Entry) /\ job[n][k].base \in Base /\ job[n][k].asked \subseteq Node
  <2>1. Takes
    BY Parts
  <2>2. job[n][k] \in JobRec
    BY <2>1 DEF Takes
  <2> QED BY <2>2, Kinds DEF JobRec
<1>2. CASE p \in Q
  BY <1>1, <1>2, Merged
<1>3. CASE p \notin Q
  <2>1. job[n][k].asked \cap Q # {}
    BY <1>3
  <2>2. AtLeast(job[n][k].base.log, e, s)
    BY <2>1 DEF SafeReads
  <2>3. job[n][k].base.count # 0
    BY <2>1, FS_EmptySet DEF ReadsOK
  <2> QED BY <1>1, <2>2, <2>3, Merged
<1> QED BY <1>2, <1>3

LEMMA ExportStep ==
    ASSUME SInv, IInv', NEW n \in Eligible, NEW k \in Job, NEW p \in Node, Export(n, k, p)
    PROVE  SInv'
<1>0. IInv /\ Takes /\ HistOK /\ ReadsOK
  BY Parts DEF SInv
<1> DEFINE j == job[n][k]
<1>1. /\ log' = log /\ writer' = writer /\ sealed' = sealed /\ lease' = lease /\ net' = net
      /\ lost' = lost /\ committed' = committed /\ call' = call /\ prepared' = prepared
      /\ p \notin j.asked /\ p # n
  BY DEF Export, replicas, history
<1>2. PICK b \in Merges(j.base, p) :
         job' = [job EXCEPT ![n][k] =
                    [j EXCEPT !.st = IF j.st = "idle" THEN "read" ELSE j.st,
                              !.base = b, !.asked = j.asked \cup {p}]]
  BY DEF Export
<1>3. j \in JobRec /\ j.base \in Base /\ BaseOK(j.base) /\ log[p] \in Seq(Entry)
  <2>1. j \in JobRec /\ BaseOK(j.base)
    BY <1>0 DEF Takes
  <2> QED BY <1>0, <2>1, Kinds DEF JobRec
<1>4. b \in Base
  BY <1>0, <1>3, MergesOK DEF IInv
<1>5. PICK r : r = [j EXCEPT !.st = IF j.st = "idle" THEN "read" ELSE j.st,
                             !.base = b, !.asked = j.asked \cup {p}]
  OBVIOUS
<1>6. r \in JobRec /\ r.base = b /\ r.asked = j.asked \cup {p}
  BY <1>3, <1>4, <1>5 DEF JobRec
<1>7. /\ job'[n][k] = r
      /\ \A m \in Eligible, q \in Job : (m # n \/ q # k) => job'[m][q] = job[m][q]
  <2>1. Takes /\ r \in JobRec
    BY <1>0, <1>6
  <2>2. job' = [job EXCEPT ![n][k] = r]
    BY <1>2, <1>5
  <2> HIDE DEF j
  <2> QED BY <2>1, <2>2, JobSet, ZenonT(30)
<1>8. b.log \in {log[p], j.base.log} /\ b.count = j.base.count + 1
  BY <1>3, Merged
<1>9. Everywhere' \subseteq Everywhere
  <2>1. ASSUME NEW m \in Eligible, NEW q \in Job
        PROVE  Entries(job'[m][q].base.log) \subseteq Everywhere
    <3>1. CASE m = n /\ q = k
      BY <1>6, <1>7, <1>8, <3>1, Somewhere
    <3>2. CASE m # n \/ q # k
      BY <1>7, <3>2, Somewhere
    <3> QED BY <3>1, <3>2
  <2> QED BY <1>1, <2>1, Somewhere, Nowhere
<1>10. ReadsOK'
  <2> SUFFICES ASSUME NEW m \in Eligible, NEW q \in Job
               PROVE  /\ m \notin job'[m][q].asked /\ IsFiniteSet(job'[m][q].asked)
                      /\ job'[m][q].base.count = Cardinality(job'[m][q].asked)
    BY DEF ReadsOK
  <2>1. CASE m = n /\ q = k
    <3>1. n \notin j.asked /\ IsFiniteSet(j.asked) /\ j.base.count = Cardinality(j.asked)
      BY <1>0 DEF ReadsOK
    <3>2. IsFiniteSet(j.asked \cup {p}) /\ Cardinality(j.asked \cup {p}) = Cardinality(j.asked) + 1
      BY <1>1, <3>1, FS_AddElement
    <3> HIDE DEF j
    <3> QED BY <1>1, <1>6, <1>7, <1>8, <2>1, <3>1, <3>2
  <2>2. CASE m # n \/ q # k
    BY <1>0, <1>7, <2>2 DEF ReadsOK
  <2> QED BY <2>1, <2>2
<1>11. KeepsReads
  <2> SUFFICES ASSUME NEW c \in 1..sealed, NEW e \in Nat \ {0}, NEW s \in Nat \ {0},
                      NEW Q \in SUBSET Node, Safe(c, e, s, Q)
               PROVE  SafeReads(e, s, Q)'
    BY DEF KeepsReads
  <2>1. SafeReads(e, s, Q) /\ \A q \in Q : AtLeast(log[q], e, s)
    BY DEF Safe
  <2>2. ASSUME NEW m \in Eligible, NEW q \in Job, job'[m][q].asked \cap Q # {}
        PROVE  AtLeast(job'[m][q].base.log, e, s)
    <3>1. CASE m = n /\ q = k
      <4>1. (j.asked \cup {p}) \cap Q # {}
        BY <1>6, <1>7, <2>2, <3>1
      <4>2. AtLeast(b.log, e, s)
        BY <1>0, <2>1, <4>1, ReadSafe
      <4> HIDE DEF j
      <4> QED BY <1>6, <1>7, <3>1, <4>2
    <3>2. CASE m # n \/ q # k
      BY <1>7, <2>1, <2>2, <3>2 DEF SafeReads
    <3> QED BY <3>1, <3>2
  <2> QED BY <1>1, <2>1, <2>2 DEF SafeReads
<1>12. CalmWriters /\ MayCommit
  BY <1>0, <1>1, NothingMoves DEF SameWriters
<1>13. CalmLogs
  BY <1>0, <1>1, Kinds, AtOwnEnd DEF CalmLogs
<1>14. CalmCalls /\ CalmNet
  BY <1>1 DEF CalmCalls, SameCall, CalmNet
<1> QED BY <1>1, <1>9, <1>10, <1>11, <1>12, <1>13, <1>14, Calm

\* A restore that a majority has answered is past everything that is safe.
LEMMA RestoreMeets ==
    ASSUME IInv, ReadsOK, NEW n \in Eligible, NEW k \in Job,
           NEW b \in Merges(job[n][k].base, n), b.count >= Quorum,
           NEW c, NEW e \in Nat, NEW s \in Nat, NEW Q \in SUBSET Node, Safe(c, e, s, Q)
    PROVE  AtLeast(b.log, e, s)
<1> DEFINE A == job[n][k].asked
<1>1. /\ n \in Node /\ log[n] \in Seq(Entry) /\ job[n][k].base \in Base /\ A \in SUBSET Node
  <2>1. Takes /\ n \in Node
    BY Parts, JournalAssumption
  <2>2. job[n][k] \in JobRec
    BY <2>1 DEF Takes
  <2> QED BY <2>1, <2>2, Kinds DEF JobRec
<1>2. b.count = Cardinality(A) + 1
  BY <1>1, Merged DEF ReadsOK
<1>3. Cardinality(A \cup {n}) = Cardinality(A) + 1
  <2>1. n \notin A /\ IsFiniteSet(A)
    BY DEF ReadsOK
  <2> QED BY <2>1, FS_AddElement
<1>4. A \cup {n} \in SUBSET Node /\ Cardinality(A \cup {n}) >= Quorum
  BY <1>1, <1>2, <1>3
<1>5. (A \cup {n}) \cap Q # {}
  <2>1. Cardinality(Q) >= Quorum
    BY DEF Safe
  <2> HIDE DEF A
  <2> QED BY <1>4, <2>1, MajoritiesMeet
<1> QED BY <1>1, <1>5, ReadSafe DEF Safe

\* A finished restore is kept for the lease that is asked for next.
LEMMA PrepareStep ==
    ASSUME SInv, IInv', NEW n \in Eligible, NEW k \in Job,
           NEW b \in Merges(job[n][k].base, n), b.count >= Quorum,
           prepared' = [prepared EXCEPT ![n] = b], Idle(n, k),
           UNCHANGED <<log, writer, call, net, sealed, lost, committed, lease>>
    PROVE  SInv'
<1>0. IInv /\ Takes /\ HistOK /\ ReadsOK /\ n \in Node
  BY Parts, JournalAssumption DEF SInv
<1>1. /\ job[n][k].base \in Base /\ log[n] \in Seq(Entry)
  <2>1. job[n][k] \in JobRec
    BY <1>0 DEF Takes
  <2> QED BY <1>0, <2>1, Kinds DEF JobRec
<1>2. /\ prepared'[n] = b
      /\ \A m \in Eligible : m # n => prepared'[m] = prepared[m]
  BY <1>0 DEF Takes
<1>3. /\ job'[n][k] = NoJob
      /\ \A m \in Eligible, q \in Job : (m # n \/ q # k) => job'[m][q] = job[m][q]
  <2>1. Takes /\ NoJob \in JobRec
    BY <1>0, Empties
  <2>2. job' = [job EXCEPT ![n][k] = NoJob]
    BY DEF Idle
  <2> QED BY <2>1, <2>2, JobSet, ZenonT(30)
<1>4. NoJob.asked = {} /\ NoJob.base = NoBase /\ NoBase.log = <<>> /\ NoBase.count = 0
  BY DEF NoJob, NoBase
<1>5. ASSUME NEW m \in Eligible, NEW q \in Job
      PROVE  \/ job'[m][q] = job[m][q]
             \/ job'[m][q].asked = {} /\ job'[m][q].base = NoBase
  <2>1. CASE m = n /\ q = k
    BY <1>3, <1>4, <2>1
  <2>2. CASE m # n \/ q # k
    BY <1>3, <2>2
  <2> QED BY <2>1, <2>2
<1>6. Everywhere' \subseteq Everywhere
  <2>1. ASSUME NEW m \in Eligible PROVE Entries(prepared'[m].log) \subseteq Everywhere
    <3>1. CASE m = n
      <4>1. b.log \in {log[n], job[n][k].base.log}
        BY <1>0, <1>1, Merged
      <4> QED BY <1>0, <1>2, <3>1, <4>1, Somewhere
    <3>2. CASE m # n
      BY <1>2, <3>2, Somewhere
    <3> QED BY <3>1, <3>2
  <2>2. ASSUME NEW m \in Eligible, NEW q \in Job
        PROVE  Entries(job'[m][q].base.log) \subseteq Everywhere
    <3>1. CASE job'[m][q] = job[m][q]
      BY <3>1, Somewhere
    <3>2. CASE job'[m][q].base = NoBase
      BY <1>4, <3>2, EntriesFew
    <3> QED BY <1>5, <3>1, <3>2
  <2> QED BY <2>1, <2>2, Somewhere, Nowhere
<1>7. ReadsOK'
  <2> SUFFICES ASSUME NEW m \in Eligible, NEW q \in Job
               PROVE  /\ m \notin job'[m][q].asked /\ IsFiniteSet(job'[m][q].asked)
                      /\ job'[m][q].base.count = Cardinality(job'[m][q].asked)
    BY DEF ReadsOK
  <2>1. CASE job'[m][q] = job[m][q]
    BY <1>0, <2>1 DEF ReadsOK
  <2>2. CASE job'[m][q].asked = {} /\ job'[m][q].base = NoBase
    BY <1>4, <2>2, FS_EmptySet
  <2> QED BY <1>5, <2>1, <2>2
<1>8. KeepsReads
  <2> SUFFICES ASSUME NEW c \in 1..sealed, NEW e \in Nat \ {0}, NEW s \in Nat \ {0},
                      NEW Q \in SUBSET Node, Safe(c, e, s, Q)
               PROVE  SafeReads(e, s, Q)'
    BY DEF KeepsReads
  <2>1. SafeReads(e, s, Q)
    BY DEF Safe
  <2>2. AtLeast(b.log, e, s)
    BY <1>0, RestoreMeets
  <2>3. ASSUME NEW m \in Eligible, prepared'[m] # NoBase PROVE AtLeast(prepared'[m].log, e, s)
    BY <1>2, <2>1, <2>2, <2>3 DEF SafeReads
  <2>4. ASSUME NEW m \in Eligible, NEW q \in Job, job'[m][q].asked \cap Q # {}
        PROVE  AtLeast(job'[m][q].base.log, e, s)
    BY <1>5, <2>1, <2>4 DEF SafeReads
  <2> QED BY <2>3, <2>4 DEF SafeReads
<1>9. CalmWriters /\ MayCommit
  BY <1>0, NothingMoves DEF SameWriters
<1>10. CalmLogs
  BY <1>0, Kinds, AtOwnEnd DEF CalmLogs
<1>11. CalmCalls /\ CalmNet
  BY DEF CalmCalls, SameCall, CalmNet
<1> QED BY <1>6, <1>7, <1>8, <1>9, <1>10, <1>11, Calm
-----------------------------------------------------------------------------
(* Deliveries *)

\* What a replica stores is known already and never behind what it had.
LEMMA StoredAhead ==
    ASSUME IInv, NEW d \in net, d.batch # <<>>
    PROVE  LET k == log[d.to]
               l == Stored(k, Verdict(k, mark[d.to], d), d)
           IN  /\ l \in Seq(Entry) /\ Entries(l) \subseteq Everywhere
               /\ AtLeast(l, LastEpoch(k), LastSeq(k))
<1>0. IInv /\ Placed /\ d \in Delivered /\ NetOK(d) /\ d.to \in Node /\ d.batch \in Seq(Entry)
  BY DEF IInv, Placed, Shape, WorkOK, Delivered
<1>1. PICK p \in Node : p = d.to
  BY <1>0
<1>2. PICK k \in Seq(Entry) : k = log[p]
  BY <1>0, Kinds
<1>3. /\ Chain(k) /\ LastEpoch(k) \in Nat /\ LastSeq(k) \in Nat /\ LastEpoch(k) <= mark[p]
      /\ mark[p] \in Nat /\ Entries(k) \subseteq Everywhere
  BY <1>0, <1>2, Kinds, Somewhere
<1> DEFINE v == Verdict(k, mark[p], d)
           l == Stored(k, v, d)
<1>4. CASE v # "stored"
  <2>1. l = k
    BY <1>4 DEF Stored
  <2> QED BY <1>1, <1>2, <1>3, <2>1, AtOwnEnd
<1>5. CASE v = "stored"
  <2>1. /\ l \in Seq(Entry) /\ Chain(l)
        /\ LastEpoch(l) = LastEpoch(d.batch) /\ LastEpoch(d.batch) >= mark[p]
    BY <1>0, <1>1, <1>2, <1>5, StoredOK
  <2>2. LastEpoch(l) \in Nat /\ LastSeq(l) \in Nat /\ LastEpoch(l) >= LastEpoch(k)
    BY <1>3, <2>1, LastTypes
  <2>3. CASE ~d.replace
    <3> DEFINE x == d.batch[1]
    <3>1. x \in Entry /\ x \in Entries(d.batch) /\ Len(d.batch) = 1
      BY <1>0, <2>3, ElementOfSeq DEF NetOK, Entries
    <3>2. l = Append(k, x)
      BY <1>5, <2>3 DEF Stored
    <3>3. VerdictOne(k, mark[p], x) = "stored"
      BY <1>5, <2>3 DEF Verdict
    <3>4. x.seq = LastSeq(k) + 1
      BY <3>3 DEF VerdictOne
    <3> HIDE DEF x, l
    <3>5. Entries(l) \subseteq Everywhere
      BY <1>3, <3>1, <3>2, EntriesAppend, Somewhere
    <3>6. LastSeq(l) = x.seq
      <4>1. /\ l # <<>> /\ Len(l) = Len(k) + 1 /\ l[Len(k) + 1] = x
        BY <3>1, <3>2, AppendProperties
      <4> QED BY <4>1 DEF LastSeq, Last
    <3>7. AtLeast(l, LastEpoch(k), LastSeq(k))
      BY <1>3, <2>2, <3>4, <3>6 DEF AtLeast, Past
    <3> QED BY <1>1, <1>2, <2>1, <3>5, <3>7 DEF l
  <2>4. CASE d.replace
    <3>1. l = d.batch
      BY <1>5, <2>4 DEF Stored
    <3>2. ~Rewrites(k, mark[p], d.batch)
      <4>1. VerdictAll(k, mark[p], d.batch) = "stored"
        BY <1>5, <2>4 DEF Verdict
      <4> QED BY <4>1 DEF VerdictAll
    <3> HIDE DEF l
    <3>3. Entries(l) \subseteq Everywhere
      BY <3>1, Somewhere
    <3>4. LastSeq(l) >= LastSeq(k) \/ LastEpoch(l) > LastEpoch(k)
      <4> SUFFICES ASSUME LastEpoch(l) = LastEpoch(k) PROVE LastSeq(l) >= LastSeq(k)
        BY <1>3, <2>2
      <4>1. LastEpoch(k) = mark[p] /\ LastEpoch(l) = mark[p]
        BY <1>3, <2>1, <2>2
      <4>2. LastEpoch(k) # 0
        <5>1. LastEpoch(l) # 0
          <6>1. Last(l) \in Entry
            BY <1>0, <3>1, ElementOfSeq, LenProperties, EmptySeq DEF Last
          <6> QED BY <3>1, <6>1 DEF LastEpoch, Entry
        <5> QED BY <4>1, <5>1
      <4>3. PICK y \in Entries(k) : y = Last(k) /\ y.epoch = mark[p] /\ y.seq = LastSeq(k)
        BY <4>1, <4>2, LastKnown
      <4>4. ASSUME NEW z \in Entries(l) PROVE z.seq <= LastSeq(l)
        BY <2>1, ChainCapped
      <4>5. CASE \E z \in Entries(l) : z.seq = y.seq
        BY <4>3, <4>4, <4>5
      <4>6. CASE ~(y.seq >= l[1].seq)
        <5>1. l[1] \in Entries(l) /\ l[1] \in Entry
          <6>1. 1 \in 1..Len(l)
            BY <1>0, <3>1, LenProperties, EmptySeq
          <6> QED BY <2>1, <6>1, ElementOfSeq DEF Entries
        <5>2. l[1].seq \in Nat /\ l[1].seq <= LastSeq(l)
          BY <4>4, <5>1 DEF Entry
        <5> QED BY <1>3, <2>2, <4>3, <4>6, <5>2
      <4> QED BY <3>1, <3>2, <4>1, <4>3, <4>5, <4>6 DEF Rewrites
    <3>5. AtLeast(l, LastEpoch(k), LastSeq(k))
      BY <1>3, <2>2, <3>4 DEF AtLeast, Past
    <3> QED BY <1>1, <1>2, <2>1, <3>3, <3>5 DEF l
  <2> QED BY <2>3, <2>4
<1> QED BY <1>4, <1>5

\* A replica that says it has the entry of the writer on top is at or past it.
LEMMA AckedAhead ==
    ASSUME IInv, HistOK, TopOK, NEW d \in net, d.batch # <<>>,
           call[d.id].open, call[d.id].kind = "change", Top(call[d.id].w), NEW l, NEW m,
           l = Stored(log[d.to], Verdict(log[d.to], mark[d.to], d), d),
           ReplyTo(Verdict(log[d.to], mark[d.to], d), l, m, d.w, call[d.id].seq, d.replace) = "ok"
    PROVE  AtLeast(l, writer[call[d.id].w].epoch, call[d.id].seq)
<1>0. IInv /\ Placed /\ d \in Delivered /\ NetOK(d) /\ d.to \in Node /\ d.batch \in Seq(Entry)
      /\ d.id \in Id
  BY DEF IInv, Placed, Shape, WorkOK, Delivered
<1>1. PICK p \in Node : p = d.to
  BY <1>0
<1>2. PICK k \in Seq(Entry) : k = log[p] /\ Chain(k)
  BY <1>0, Kinds
<1>3. PICK w \in Id : w = call[d.id].w /\ w = d.w
  BY <1>0, Caller DEF HistOK, Open
<1>4. PICK e \in Nat : e = writer[w].epoch
  BY Kinds
<1>5. PICK v : v = Verdict(k, mark[p], d)
  OBVIOUS
<1>6. l = Stored(k, v, d) /\ l \in Seq(Entry)
  BY <1>0, <1>1, <1>2, <1>5, StoredAhead
<1>7. v \in {"stored", "known"} /\ LastSeq(l) >= call[d.id].seq
  <2>1. ReplyTo(v, l, m, d.w, call[d.id].seq, d.replace) = "ok"
    BY <1>1, <1>2, <1>5
  <2>2. CASE v \in {"stored", "known"}
    BY <2>1, <2>2 DEF ReplyTo
  <2>3. CASE v \notin {"stored", "known"}
    <3>1. /\ v = "stale-epoch" => ReplyTo(v, l, m, d.w, call[d.id].seq, d.replace) \in {"stale", "refused"}
          /\ v = "invalid" => ReplyTo(v, l, m, d.w, call[d.id].seq, d.replace) = "refused"
          /\ v \notin {"stale-epoch", "invalid"} =>
                ReplyTo(v, l, m, d.w, call[d.id].seq, d.replace) \in {"refused", "retry"}
      BY <2>3 DEF ReplyTo
    <3> QED BY <2>1, <3>1
  <2> QED BY <2>2, <2>3
<1>8. LastEpoch(l) \in Nat /\ LastSeq(l) \in Nat /\ call[d.id].seq \in Nat
  BY <1>0, <1>6, LastTypes, Kinds
<1>9. LastEpoch(l) >= e
  <2>1. CASE d.replace
    <3>1. v = VerdictAll(k, mark[p], d.batch)
      BY <1>5, <2>1 DEF Verdict
    <3>2. v # "known"
      BY <3>1 DEF VerdictAll
    <3>3. l = d.batch
      BY <1>6, <1>7, <2>1, <3>2 DEF Stored
    <3>4. Followed(d.id)
      BY <1>0, <1>3 DEF TopOK, OnTop
    <3>5. LastEpoch(d.batch) = e
      BY <1>3, <1>4, <2>1, <3>4 DEF Followed
    <3> QED BY <1>4, <3>3, <3>5
  <2>2. CASE ~d.replace /\ v = "stored"
    <3>1. LastEpoch(l) = LastEpoch(d.batch)
      BY <1>0, <1>1, <1>2, <1>5, <1>6, <2>2, StoredOK
    <3>2. LastEpoch(d.batch) = e
      BY <1>0, <1>3, <1>4, <2>2 DEF NetOK, LastEpoch, Last
    <3> QED BY <1>4, <3>1, <3>2
  <2>3. CASE ~d.replace /\ v = "known"
    <3> DEFINE x == d.batch[1]
    <3>1. /\ x \in Entries(d.batch) /\ x.epoch = e /\ x \in Everywhere
      BY <1>0, <1>3, <1>4, <2>3, Somewhere DEF NetOK, Entries
    <3>2. VerdictOne(k, mark[p], x) = "known"
      BY <1>5, <2>3 DEF Verdict
    <3>3. l = k
      BY <1>6, <2>3 DEF Stored
    <3> HIDE DEF x
    <3>4. PICK y \in Entries(k) : y.id = x.id
      BY <3>2 DEF VerdictOne
    <3>5. y \in Everywhere
      BY <1>2, Somewhere
    <3>6. y = x
      BY <3>1, <3>4, <3>5 DEF HistOK, PairOK
    <3>7. y.epoch <= LastEpoch(k)
      BY <1>2, ChainCapped
    <3> QED BY <3>1, <3>3, <3>6, <3>7
  <2> QED BY <1>7, <2>1, <2>2, <2>3
<1> QED BY <1>3, <1>4, <1>7, <1>8, <1>9 DEF AtLeast, Past

LEMMA DeliverStep ==
    ASSUME SInv, IInv', NEW d \in net, Deliver(d)
    PROVE  SInv'
<1>0. IInv /\ Takes /\ Records /\ HistOK /\ TopOK /\ ReadsOK
  BY Parts DEF SInv
<1>1. /\ writer' = writer /\ sealed' = sealed /\ lease' = lease /\ net' = net \ {d}
      /\ lost' = lost /\ committed' = committed /\ job' = job /\ prepared' = prepared
  BY DEF Deliver, runtime, history
<1>2. CalmWriters /\ MayCommit /\ CalmReads
  BY <1>0, <1>1, NothingMoves DEF SameWriters
<1>3. CASE log' = log /\ call' = call
  BY <1>1, <1>2, <1>3, Still
<1>4. CASE ~(log' = log /\ call' = call)
  <2>1. PICK p \in Node : p = d.to
    BY <1>0 DEF IInv, Placed, TypeOK
  <2> DEFINE v == Verdict(log[p], mark[p], d)
             l == Stored(log[p], v, d)
             m == IF v = "stored" THEN Larger(mark[p], LastEpoch(d.batch)) ELSE mark[p]
             r == ReplyTo(v, l, m, d.w, call[d.id].seq, d.replace)
  <2>2. /\ d.batch # <<>> /\ log' = [log EXCEPT ![p] = l]
        /\ call' = IF call[d.id].open THEN [call EXCEPT ![d.id].reply[p] = r] ELSE call
    BY <1>4, <2>1 DEF Deliver
  <2>3. l \in Seq(Entry) /\ Entries(l) \subseteq Everywhere
        /\ AtLeast(l, LastEpoch(log[p]), LastSeq(log[p]))
    BY <1>0, <2>1, <2>2, StoredAhead
  <2>4. r = "ok" /\ call[d.id].open /\ call[d.id].kind = "change" /\ Top(call[d.id].w) =>
            AtLeast(l, writer[call[d.id].w].epoch, call[d.id].seq)
    BY <1>0, <2>1, <2>2, AckedAhead
  <2>5. log'[p] = l /\ \A q \in Node : q # p => log'[q] = log[q]
    BY <1>0, <2>2 DEF IInv, Placed, TypeOK
  <2> HIDE DEF l, r
  <2>6. Everywhere' \subseteq Everywhere
    <3>1. \A q \in Node : Entries(log'[q]) \subseteq Everywhere
      BY <2>3, <2>5, Somewhere
    <3> QED BY <1>1, <1>2, <3>1, NoNewEntries
  <2>7. CalmLogs
    <3> SUFFICES ASSUME NEW q \in Node PROVE AtLeast(log'[q], LastEpoch(log[q]), LastSeq(log[q]))
      BY DEF CalmLogs
    <3>1. AtLeast(log[q], LastEpoch(log[q]), LastSeq(log[q]))
      BY <1>0, Kinds, AtOwnEnd
    <3> QED BY <2>3, <2>5, <3>1
  <2>8. CalmCalls
    <3> SUFFICES ASSUME NEW i \in Id, call'[i].open
                 PROVE  /\ SameCall(i)
                        /\ Top(call[i].w) /\ call[i].kind = "change" =>
                              \A q \in Node : call'[i].reply[q] = "ok" =>
                                  \/ call[i].reply[q] = "ok"
                                  \/ AtLeast(log'[q], writer[call[i].w].epoch, call[i].seq)
      BY DEF CalmCalls
    <3>1. CASE call'[i] = call[i]
      BY <3>1 DEF SameCall
    <3>2. CASE call'[i] # call[i]
      <4>1. i = d.id /\ call[i].open /\ call'[i] = [call[i] EXCEPT !.reply = [call[i].reply EXCEPT ![p] = r]]
        BY <1>0, <2>2, <3>2 DEF Records
      <4>2. call[i] \in CallRec
        BY <1>0 DEF Records
      <4>3. /\ SameCall(i) /\ call'[i].reply[p] = r
            /\ \A q \in Node : q # p => call'[i].reply[q] = call[i].reply[q]
        BY <4>1, <4>2 DEF SameCall, CallRec
      <4> QED BY <2>4, <2>5, <4>1, <4>3
    <3> QED BY <3>1, <3>2
  <2>9. CalmNet
    BY <1>1 DEF CalmNet
  <2>10. ReadsOK' /\ KeepsReads
    BY <1>0, <1>2, CalmReadsOK DEF KeepsReads, Safe
  <2> QED BY <1>1, <1>2, <2>6, <2>7, <2>8, <2>9, <2>10, Calm
<1> QED BY <1>3, <1>4
-----------------------------------------------------------------------------
(* Steps that seal an entry *)

\* Writer w of node n seals x on log l, which is its own or the one it adopts.
Writing(n, l, x, w) ==
    /\ l \in Seq(Entry) /\ Chain(l) /\ Entries(l) \subseteq Everywhere
    /\ x \in Entry /\ x.id = sealed + 1 /\ x.seq = LastSeq(l) + 1 /\ x.prev = LastHash(l)
    /\ LastEpoch(l) <= x.epoch /\ mark[n] <= x.epoch
    /\ x.epoch > LastEpoch(l) => x.kind = "term"
    /\ x.kind = "term" => w = x.id
    /\ x.kind = "change" => x.has = {x.id} /\ w \in 1..sealed /\ x.id \in writer'[w].has
    /\ log'[n] = Append(l, x) /\ \A p \in Node \ {n} : log'[p] = log[p]
    /\ sealed' = x.id /\ Grows
    /\ Writes(w, n)' /\ writer'[w].epoch = x.epoch
    /\ \A v \in Id \ {w} : /\ writer'[v].by = writer[v].by /\ writer'[v].epoch = writer[v].epoch
                           /\ writer'[v].has = writer[v].has
    /\ \A v \in 1..sealed : writer[v].has \subseteq writer'[v].has
    /\ call'[x.id] = Started(x, w)
    /\ \A i \in Id \ {x.id} : call'[i] = call[i] \/ call'[i] = NoCall
    /\ net' \subseteq net \cup Sent(n, w, x)
    /\ CalmReads /\ MayCommit

\* The log of the writer ends in the new entry, and nothing else is new.
LEMMA WritingNew ==
    ASSUME IInv, NEW n \in Eligible, NEW l, NEW x, NEW w \in Id, Writing(n, l, x, w)
    PROVE  /\ Everywhere' \subseteq Everywhere \cup {x}
           /\ LastEpoch(log'[n]) = x.epoch /\ LastSeq(log'[n]) = x.seq
           /\ x.epoch \in Nat \ {0} /\ x.seq \in Nat \ {0} /\ x.id \in Id /\ n \in Node
           /\ LastEpoch(l) \in Nat /\ LastSeq(l) \in Nat
<1>1. /\ l \in Seq(Entry) /\ Chain(l) /\ x \in Entry /\ n \in Node /\ log'[n] = Append(l, x)
      /\ x.seq = LastSeq(l) + 1
      /\ Entries(l) \subseteq Everywhere
      /\ \A p \in Node \ {n} : log'[p] = log[p]
  BY JournalAssumption DEF Writing
<1>2. x.epoch \in Nat \ {0} /\ x.seq \in Nat \ {0} /\ x.id \in Id
  BY <1>1 DEF Entry
<1>3. LastEpoch(l) \in Nat /\ LastSeq(l) \in Nat
  BY <1>1, LastTypes
<1>4. LastEpoch(log'[n]) = x.epoch /\ LastSeq(log'[n]) = x.seq
  <2>1. Append(l, x) # <<>> /\ Len(Append(l, x)) = Len(l) + 1 /\ Append(l, x)[Len(l) + 1] = x
    BY <1>1, AppendProperties
  <2> QED BY <1>1, <2>1 DEF LastEpoch, LastSeq, Last
<1> DEFINE E == Everywhere \cup {x}
<1>5. ASSUME NEW p \in Node PROVE Entries(log'[p]) \subseteq E
  <2>1. CASE p = n
    BY <1>1, <2>1, EntriesAppend
  <2>2. CASE p # n
    BY <1>1, <2>2, Somewhere
  <2> QED BY <2>1, <2>2
<1>6. ASSUME NEW m \in Eligible PROVE Entries(prepared'[m].log) \subseteq E
  <2>1. CASE prepared'[m] = prepared[m]
    BY <2>1, Somewhere
  <2>2. CASE prepared'[m] = NoBase
    BY <2>2, EntriesFew DEF NoBase
  <2> QED BY <2>1, <2>2 DEF Writing, CalmReads
<1>7. ASSUME NEW m \in Eligible, NEW k \in Job PROVE Entries(job'[m][k].base.log) \subseteq E
  <2>1. CASE job'[m][k].base = job[m][k].base
    BY <2>1, Somewhere
  <2>2. CASE job'[m][k].base = NoBase
    BY <2>2, EntriesFew DEF NoBase
  <2> QED BY <2>1, <2>2 DEF Writing, CalmReads
<1>8. ASSUME NEW d \in net' PROVE Entries(d.batch) \subseteq E
  <2>1. CASE d \in net
    BY <2>1, Somewhere
  <2>2. CASE d \in Sent(n, w, x)
    <3>1. d.batch = <<x>>
      BY <2>2 DEF Sent, Delivery
    <3> QED BY <1>1, <3>1, EntriesFew
  <2> QED BY <2>1, <2>2 DEF Writing
<1>9. Everywhere' \subseteq E
  <2> HIDE DEF E
  <2> QED BY <1>5, <1>6, <1>7, <1>8, Nowhere
<1> QED BY <1>1, <1>2, <1>3, <1>4, <1>9

\* The predecessor of the new entry, and what is known of the old ones.
LEMMA WritingLinks ==
    ASSUME IInv, HistOK, NEW n \in Eligible, NEW l, NEW x, NEW w \in Id, Writing(n, l, x, w)
    PROVE  /\ x.prev <= sealed /\ (x.prev = 0 => l = <<>>)
           /\ \A z \in Everywhere : x.prev = z.id => l # <<>> /\ z = Last(l)
           /\ \A y \in Everywhere : y.id < x.id /\ y.id # x.id /\ y.prev # x.id
           /\ x.prev # x.id
           /\ \A i \in Id : call[i].open => i < x.id /\ i # x.id
           /\ \A d \in net : d.id # x.id
           /\ \A v \in Id : writer[v].epoch > 0 => v \in 1..sealed
<1>1. /\ x.id = sealed + 1 /\ x.prev = LastHash(l) /\ l \in Seq(Entry)
      /\ Entries(l) \subseteq Everywhere
  BY DEF Writing
<1>2. sealed \in Nat /\ Id \subseteq Nat /\ 0 \notin Id
  BY Kinds
<1>3. \A y \in Everywhere : y.id \in Id /\ y.prev \in Nat /\ y.id <= sealed /\ y.prev <= sealed
  BY Kinds DEF HistOK, EntryOK
<1>4. \A y \in Everywhere : y.id < x.id /\ y.id # x.id /\ y.prev # x.id
  <2> SUFFICES ASSUME NEW y \in Everywhere PROVE y.id < x.id /\ y.id # x.id /\ y.prev # x.id
    OBVIOUS
  <2>1. y.id \in Nat /\ y.prev \in Nat /\ y.id <= sealed /\ y.prev <= sealed
    BY <1>2, <1>3
  <2> QED BY <1>1, <1>2, <2>1
<1>5. \A i \in Id : call[i].open => i < x.id /\ i # x.id
  <2> SUFFICES ASSUME NEW i \in Id, call[i].open PROVE i < x.id /\ i # x.id
    OBVIOUS
  <2>1. i <= sealed /\ i \in Nat
    BY <1>2, Caller DEF Open
  <2> QED BY <1>1, <1>2, <2>1
<1>6. \A d \in net : d.id # x.id
  <2> SUFFICES ASSUME NEW d \in net PROVE d.id # x.id
    OBVIOUS
  <2>1. d.id <= sealed /\ d.id \in Nat
    BY <1>2 DEF IInv, Placed, WorkOK, NetOK, TypeOK
  <2> QED BY <1>1, <1>2, <2>1
<1>7. \A v \in Id : writer[v].epoch > 0 => v \in 1..sealed
  BY DEF HistOK, Writes
<1>8. /\ x.prev <= sealed /\ x.prev \in Nat /\ (x.prev = 0 => l = <<>>)
      /\ \A z \in Everywhere : x.prev = z.id => l # <<>> /\ z = Last(l)
  <2>1. CASE l = <<>>
    <3>1. x.prev = 0
      BY <1>1, <2>1 DEF LastHash
    <3> QED BY <1>2, <1>3, <2>1, <3>1
  <2>2. CASE l # <<>>
    <3>1. Last(l) \in Everywhere /\ x.prev = Last(l).id
      <4>1. Len(l) \in 1..Len(l)
        BY <1>1, <2>2, LenProperties, EmptySeq
      <4> QED BY <1>1, <2>2, <4>1 DEF Entries, Last, LastHash
    <3>2. x.prev \in Id /\ x.prev <= sealed /\ x.prev # 0 /\ x.prev \in Nat
      BY <1>2, <1>3, <3>1
    <3>3. \A z \in Everywhere : x.prev = z.id => z = Last(l)
      BY <3>1 DEF HistOK, PairOK
    <3> QED BY <2>2, <3>2, <3>3
  <2> QED BY <2>1, <2>2
<1>9. x.prev # x.id
  BY <1>1, <1>2, <1>8
<1> QED BY <1>4, <1>5, <1>6, <1>7, <1>8, <1>9

LEMMA WritingHist ==
    ASSUME IInv, HistOK, NEW n \in Eligible, NEW l, NEW x, NEW w \in Id, Writing(n, l, x, w)
    PROVE  HistOK'
<1>1. /\ Everywhere' \subseteq Everywhere \cup {x}
      /\ x.epoch \in Nat \ {0} /\ x.seq \in Nat \ {0} /\ x.id \in Id
      /\ LastEpoch(l) \in Nat /\ LastSeq(l) \in Nat
  BY WritingNew
<1>2. /\ x.prev <= sealed /\ (x.prev = 0 => l = <<>>)
      /\ \A z \in Everywhere : x.prev = z.id => l # <<>> /\ z = Last(l)
      /\ \A y \in Everywhere : y.id < x.id /\ y.id # x.id /\ y.prev # x.id
      /\ x.prev # x.id
      /\ \A i \in Id : call[i].open => i < x.id /\ i # x.id
      /\ \A d \in net : d.id # x.id
      /\ \A v \in Id : writer[v].epoch > 0 => v \in 1..sealed
  BY WritingLinks
<1>3. /\ x.id = sealed + 1 /\ x.seq = LastSeq(l) + 1 /\ sealed' = x.id /\ x.prev = LastHash(l)
      /\ LastEpoch(l) <= x.epoch /\ (x.epoch > LastEpoch(l) => x.kind = "term")
      /\ writer'[w].epoch = x.epoch /\ Writes(w, n)'
      /\ x.kind = "term" => w = x.id
      /\ x.kind = "change" => x.has = {x.id} /\ w \in 1..sealed /\ x.id \in writer'[w].has
  BY DEF Writing
<1>4. sealed \in Nat /\ Id \subseteq Nat /\ 0 \notin Id /\ 1..sealed \subseteq Id
  BY Kinds, Basics DEF IInv, Placed
<1>5. \A v \in 1..sealed : /\ writer'[v].epoch = writer[v].epoch /\ writer'[v].by = writer[v].by
                           /\ writer[v].has \subseteq writer'[v].has
  BY DEF Writing, Grows
<1>6. \A i \in Id : call'[i].open => i = x.id \/ (i # x.id /\ call'[i] = call[i] /\ call[i].open)
  <2>1. ~NoCall.open
    BY Empties
  <2> QED BY <2>1 DEF Writing
<1>7. call'[x.id] = Started(x, w)
  BY DEF Writing
<1>8. call'[x.id].w = w /\ call'[x.id].seq = x.seq /\ call'[x.id].kind = x.kind
  BY <1>7 DEF Started, NoCall
<1>9. EntryOK(x)'
  <2>1. x.id <= sealed' /\ x.prev <= sealed'
    <3>1. x.prev \in Nat
      BY DEF Writing, Entry
    <3> QED BY <1>2, <1>3, <1>4, <3>1
  <2>2. x.prev = 0 => x.seq = 1
    BY <1>2, <1>3 DEF LastSeq
  <2>3. writer'[w].epoch = x.epoch /\ (x.kind = "term" => writer'[x.id].epoch = x.epoch)
    BY <1>3
  <2> QED BY <1>3, <2>1, <2>2, <2>3 DEF EntryOK
<1>10. ASSUME NEW y \in Everywhere PROVE EntryOK(y)'
  <2>1. EntryOK(y) /\ y.id \in Id /\ y.id \in 1..sealed /\ y.epoch > 0 /\ y.prev \in Nat
    <3>1. EntryOK(y) /\ y.id \in Id /\ y.epoch > 0 /\ y.prev \in Nat
      BY Kinds DEF HistOK
    <3>2. y.id <= sealed
      BY <3>1 DEF EntryOK
    <3> QED BY <1>4, <3>1, <3>2 DEF Id
  <2>2. y.id <= sealed' /\ y.prev <= sealed'
    BY <1>3, <1>4, <2>1 DEF EntryOK
  <2>3. y.kind = "term" => writer'[y.id].epoch = y.epoch
    BY <1>5, <2>1 DEF EntryOK
  <2>4. \E v \in Id : writer'[v].epoch = y.epoch
    <3>1. PICK v \in Id : writer[v].epoch = y.epoch
      BY <2>1 DEF EntryOK
    <3> QED BY <1>2, <1>5, <2>1, <3>1
  <2> QED BY <2>1, <2>2, <2>3, <2>4 DEF EntryOK
<1>11. \A y \in Everywhere' : EntryOK(y)'
  BY <1>1, <1>9, <1>10
<1>12. \A y, z \in Everywhere' : PairOK(y, z)'
  <2> SUFFICES ASSUME NEW y \in Everywhere', NEW z \in Everywhere' PROVE PairOK(y, z)
    BY DEF PairOK
  <2>1. CASE y \in Everywhere /\ z \in Everywhere
    BY <2>1 DEF HistOK
  <2>2. CASE y = x /\ z = x
    BY <1>2, <2>2 DEF PairOK
  <2>3. CASE y \in Everywhere /\ z = x
    BY <1>2, <2>3 DEF PairOK
  <2>4. CASE y = x /\ z \in Everywhere
    <3>1. x.id # z.id
      BY <1>2, <2>4
    <3>2. ASSUME x.prev = z.id
          PROVE  /\ x.seq = z.seq + 1 /\ z.epoch <= x.epoch
                 /\ z.epoch < x.epoch => x.kind = "term"
      <4>1. l # <<>> /\ z = Last(l)
        BY <1>2, <2>4, <3>2
      <4>2. LastSeq(l) = z.seq /\ LastEpoch(l) = z.epoch
        BY <4>1 DEF LastSeq, LastEpoch
      <4> QED BY <1>3, <4>2
    <3> QED BY <2>4, <3>1, <3>2 DEF PairOK
  <2> QED BY <1>1, <2>1, <2>2, <2>3, <2>4
<1>13. \A i \in Id : CallOK(i)'
  <2> SUFFICES ASSUME NEW i \in Id, call'[i].open PROVE CallOK(i)'
    BY DEF CallOK
  <2>1. CASE i = x.id
    <3>1. \A y \in Everywhere' : y.id = x.id => y = x
      BY <1>1, <1>2
    <3>2. x.kind = "change" => w < x.id
      BY <1>3, <1>4
    <3>3. x.seq > 0
      BY <1>1
    <3>4. x.kind = "change" => w < x.id /\ x.id \in writer'[w].has
      BY <1>3, <3>2
    <3>5. \A y \in Everywhere' : y.id = x.id => y.kind = x.kind /\ y.seq = x.seq
                                                /\ y.epoch = writer'[w].epoch
      BY <1>3, <3>1
    <3> QED BY <1>8, <2>1, <3>3, <3>4, <3>5 DEF CallOK
  <2>2. CASE i # x.id
    <3>1. call'[i] = call[i] /\ call[i].open /\ CallOK(i)
      BY <1>6, <2>2 DEF HistOK
    <3>2. call[i].w \in 1..sealed
      BY <3>1, Caller DEF Open, Writes
    <3>3. /\ writer'[call[i].w].epoch = writer[call[i].w].epoch
          /\ writer[call[i].w].has \subseteq writer'[call[i].w].has
      BY <1>5, <3>2
    <3>4. \A y \in Everywhere' : y.id = i => y \in Everywhere
      BY <1>1, <2>2
    <3> QED BY <3>1, <3>3, <3>4 DEF CallOK
  <2> QED BY <2>1, <2>2
<1>14. \A d \in net' : call'[d.id].open => d.w = call'[d.id].w
  <2> SUFFICES ASSUME NEW d \in net', call'[d.id].open PROVE d.w = call'[d.id].w
    OBVIOUS
  <2>1. CASE d \in net
    <3>1. d.id # x.id /\ d.id \in Id
      BY <1>2, <2>1 DEF IInv, Placed, TypeOK
    <3> QED BY <1>6, <2>1, <3>1 DEF HistOK
  <2>2. CASE d \in Sent(n, w, x)
    BY <1>8, <2>2 DEF Sent, Delivery
  <2> QED BY <2>1, <2>2 DEF Writing
<1>15. \A v \in Id : writer'[v].epoch > 0 => \E m \in Eligible : Writes(v, m)'
  <2> SUFFICES ASSUME NEW v \in Id, writer'[v].epoch > 0 PROVE \E m \in Eligible : Writes(v, m)'
    OBVIOUS
  <2>1. CASE v = w
    BY <1>3, <2>1
  <2>2. CASE v # w
    <3>1. writer[v].epoch > 0
      BY <2>2 DEF Writing
    <3>2. PICK m \in Eligible : Writes(v, m)
      BY <3>1 DEF HistOK
    <3>3. Writes(v, m)'
      BY <3>2, WritesKept DEF Writing, IInv, Placed
    <3> QED BY <3>3
  <2> QED BY <2>1, <2>2
<1> QED BY <1>11, <1>12, <1>13, <1>14, <1>15 DEF HistOK

\* A log that a node adopts or extends stays where it was, or goes further.
LEMMA WritingAhead ==
    ASSUME IInv, NEW n \in Eligible, NEW l, NEW x, NEW w \in Id, Writing(n, l, x, w),
           NEW e \in Nat, NEW s \in Nat, AtLeast(log[n], e, s) => AtLeast(l, e, s)
    PROVE  \A p \in Node : AtLeast(log[p], e, s) => AtLeast(log'[p], e, s)
<1>1. /\ LastEpoch(log'[n]) = x.epoch /\ LastSeq(log'[n]) = x.seq
      /\ x.epoch \in Nat /\ x.seq \in Nat
      /\ LastEpoch(l) \in Nat /\ LastSeq(l) \in Nat
  BY WritingNew
<1>2. LastEpoch(l) <= x.epoch /\ x.seq = LastSeq(l) + 1
  BY DEF Writing
<1>3. AtLeast(l, e, s) => AtLeast(log'[n], e, s)
  BY <1>1, <1>2 DEF AtLeast, Past
<1>4. \A p \in Node \ {n} : log'[p] = log[p]
  BY DEF Writing
<1> QED BY <1>3, <1>4

\* What was safe stays safe if the new entry is sealed past it on a log that has it.
LEMMA WritingSafe ==
    ASSUME IInv, HistOK, ReadsOK, NEW n \in Eligible, NEW l, NEW x, NEW w \in Id,
           Writing(n, l, x, w),
           NEW c \in 1..sealed, NEW e \in Nat \ {0}, NEW s \in Nat \ {0}, NEW Q \in SUBSET Node,
           Safe(c, e, s, Q),
           AtLeast(log[n], e, s) => AtLeast(l, e, s),
           x.epoch >= e => AtLeast(l, e, s) /\ c \in writer'[w].has,
           x.epoch >= e /\ x.kind = "snapshot" => c \in x.has
    PROVE  Safe(c, e, s, Q)'
<1>1. /\ Everywhere' \subseteq Everywhere \cup {x}
      /\ LastEpoch(log'[n]) = x.epoch /\ LastSeq(log'[n]) = x.seq
      /\ x.epoch \in Nat \ {0} /\ x.seq \in Nat \ {0} /\ x.id \in Id /\ n \in Node
      /\ LastEpoch(l) \in Nat /\ LastSeq(l) \in Nat
  BY WritingNew
<1>2. /\ x.prev <= sealed /\ (x.prev = 0 => l = <<>>)
      /\ \A z \in Everywhere : x.prev = z.id => l # <<>> /\ z = Last(l)
      /\ \A y \in Everywhere : y.id < x.id /\ y.id # x.id /\ y.prev # x.id
      /\ x.prev # x.id
      /\ \A v \in Id : writer[v].epoch > 0 => v \in 1..sealed
  BY WritingLinks
<1>3. x.id = sealed + 1 /\ LastEpoch(l) <= x.epoch /\ x.seq = LastSeq(l) + 1 /\ sealed \in Nat
  BY Kinds DEF Writing
<1>4. \A p \in Node : AtLeast(log[p], e, s) => AtLeast(log'[p], e, s)
  BY WritingAhead
<1>5. \A q \in Q : AtLeast(log'[q], e, s)
  BY <1>4 DEF Safe
<1>6. SafeEntries(c, e, s)'
  <2> SUFFICES ASSUME NEW y \in Everywhere'
               PROVE  /\ y.id = c => y.kind = "change" /\ y.has = {c} /\ y.epoch = e /\ y.seq = s
                      /\ y.id # c /\ Past(y.epoch, y.seq, e, s) =>
                            /\ y.prev # 0
                            /\ y.kind = "snapshot" => c \in y.has
                            /\ \A z \in Everywhere' : y.prev = z.id => Past(z.epoch, z.seq, e, s)
    BY DEF SafeEntries
  <2>1. CASE y \in Everywhere
    <3>1. \A z \in Everywhere' : y.prev = z.id => z \in Everywhere
      BY <1>1, <1>2, <2>1
    <3> QED BY <2>1, <3>1 DEF Safe, SafeEntries
  <2>2. CASE y = x
    <3>1. x.id # c
      BY <1>3
    <3>2. ASSUME Past(x.epoch, x.seq, e, s)
          PROVE  /\ x.prev # 0
                 /\ x.kind = "snapshot" => c \in x.has
                 /\ \A z \in Everywhere' : x.prev = z.id => Past(z.epoch, z.seq, e, s)
      <4>1. x.epoch >= e
        BY <1>1, <3>2 DEF Past
      <4>2. AtLeast(l, e, s)
        BY <4>1
      <4>3. l # <<>>
        BY <4>2 DEF AtLeast, Past, LastEpoch
      <4>4. ASSUME NEW z \in Everywhere', x.prev = z.id PROVE Past(z.epoch, z.seq, e, s)
        <5>1. z \in Everywhere
          BY <1>1, <1>2, <4>4
        <5>2. z = Last(l)
          BY <1>2, <4>4, <5>1
        <5> QED BY <4>2, <4>3, <5>2 DEF AtLeast, LastEpoch, LastSeq
      <4> QED BY <1>2, <4>1, <4>3, <4>4
    <3> QED BY <2>2, <3>1, <3>2
  <2> QED BY <1>1, <2>1, <2>2
<1>7. SafeWriters(c, e, s)'
  <2> SUFFICES ASSUME NEW v \in Id, writer'[v].epoch >= e
               PROVE  c \in writer'[v].has /\ AtLeast(log'[writer'[v].by], e, s)
    BY DEF SafeWriters
  <2>1. CASE v = w
    <3>1. writer'[w].by = n /\ writer'[w].epoch = x.epoch
      BY DEF Writing, Writes
    <3>2. AtLeast(l, e, s) /\ c \in writer'[w].has
      BY <2>1, <3>1
    <3>3. AtLeast(log'[n], e, s)
      BY <1>1, <1>3, <3>2 DEF AtLeast, Past
    <3> QED BY <2>1, <3>1, <3>2, <3>3
  <2>2. CASE v # w
    <3>1. /\ writer'[v].by = writer[v].by /\ writer'[v].epoch = writer[v].epoch
          /\ writer'[v].has = writer[v].has
      BY <2>2 DEF Writing
    <3>2. c \in writer[v].has /\ AtLeast(log[writer[v].by], e, s)
      BY <3>1 DEF Safe, SafeWriters
    <3>3. writer[v].by \in Node
      <4>1. writer[v].epoch > 0
        BY <3>1, Kinds
      <4> QED BY <4>1, TopNode
    <3> QED BY <1>4, <3>1, <3>2, <3>3
  <2> QED BY <2>1, <2>2
<1>8. SafeReads(e, s, Q)'
  BY CalmReadsOK DEF Writing, Safe
<1> QED BY <1>5, <1>6, <1>7, <1>8 DEF Safe

\* The writer on top is another one, of a newer epoch and on another node.
LEMMA WritingUnder ==
    ASSUME IInv, HistOK, TopOK, IInv', NEW n \in Eligible, NEW l, NEW x, NEW w \in Id,
           Writing(n, l, x, w), NEW u \in Id \ {w}, Top(u)'
    PROVE  OnTop(u)'
<1>1. /\ Everywhere' \subseteq Everywhere \cup {x}
      /\ x.epoch \in Nat \ {0} /\ x.seq \in Nat \ {0} /\ x.id \in Id /\ n \in Node
      /\ LastEpoch(l) \in Nat /\ LastSeq(l) \in Nat
  BY WritingNew
<1>2. /\ \A i \in Id : call[i].open => i < x.id /\ i # x.id
      /\ \A d \in net : d.id # x.id
      /\ \A v \in Id : writer[v].epoch > 0 => v \in 1..sealed
  BY WritingLinks
<1>3. /\ writer'[w].epoch = x.epoch /\ mark[n] <= x.epoch
      /\ \A p \in Node \ {n} : log'[p] = log[p]
      /\ \A v \in Id \ {w} : writer'[v].by = writer[v].by /\ writer'[v].epoch = writer[v].epoch
      /\ call'[x.id] = Started(x, w)
      /\ \A v \in 1..sealed : writer'[v].epoch = writer[v].epoch
  BY DEF Writing, Grows
<1>4. PICK e \in Nat \ {0} : e = writer[u].epoch /\ e = writer'[u].epoch /\ x.epoch < e
  BY <1>3, Kinds DEF Top
<1>5. PICK m \in Node : m = writer[u].by /\ m = writer'[u].by
  BY <1>3, <1>4, TopNode
<1>6. Top(u)
  <2> SUFFICES ASSUME NEW v \in Id \ {u} PROVE writer[v].epoch < e
    BY <1>4 DEF Top
  <2>1. writer'[v].epoch < e /\ writer[v].epoch \in Nat
    BY <1>4, Kinds DEF Top
  <2>2. CASE writer[v].epoch > 0
    BY <1>2, <1>3, <2>1, <2>2
  <2>3. CASE ~(writer[v].epoch > 0)
    BY <1>4, <2>1, <2>3
  <2> QED BY <2>2, <2>3
<1>7. /\ LastEpoch(log[m]) = e
      /\ \A y \in Everywhere : y.epoch = e => y.seq <= LastSeq(log[m])
      /\ \A i \in Id : call[i].open /\ call[i].w = u =>
            /\ call[i].seq <= LastSeq(log[m])
            /\ call[i].kind = "change" => Followed(i)
  BY <1>4, <1>5, <1>6 DEF TopOK, OnTop
<1>8. LastEpoch(log[n]) < e /\ LastEpoch(log[n]) \in Nat
  <2>1. LastEpoch(log[n]) <= mark[n] /\ LastEpoch(log[n]) \in Nat /\ mark[n] \in Nat
    BY <1>1, Kinds
  <2> QED BY <1>1, <1>3, <1>4, <2>1
<1>9. log'[m] = log[m]
  BY <1>3, <1>4, <1>7, <1>8
<1>10. ~NoCall.open
  BY Empties
<1>11. \A y \in Everywhere' : y.epoch = e => y \in Everywhere
  BY <1>1, <1>4
<1>12. ASSUME NEW i \in Id, call'[i].open, call'[i].w = u
       PROVE  /\ call'[i].seq <= LastSeq(log'[m])
              /\ call'[i].kind = "change" => Followed(i)'
  <2>1. i # x.id
    BY <1>3, <1>12 DEF Started, NoCall
  <2>2. call'[i] = call[i]
    BY <1>10, <1>12, <2>1 DEF Writing
  <2>3. call[i].seq <= LastSeq(log[m]) /\ (call[i].kind = "change" => Followed(i))
    BY <1>7, <1>12, <2>2
  <2>4. ASSUME call[i].kind = "change" PROVE Followed(i)'
    <3>1. Followed(i) /\ writer[call[i].w].epoch = e /\ writer'[call'[i].w].epoch = e
      BY <1>4, <1>12, <2>2, <2>3, <2>4
    <3>2. \A y \in Everywhere' :
              y.epoch = e =>
                  /\ y.id < i => y.seq < call[i].seq
                  /\ y.id > i => y.seq > call[i].seq /\ (y.kind = "snapshot" => i \in y.has)
      BY <1>11, <3>1 DEF Followed
    <3>3. ASSUME NEW p \in Node, call'[i].reply[p] = "ok" PROVE AtLeast(log'[p], e, call[i].seq)
      <4>1. AtLeast(log[p], e, call[i].seq)
        BY <2>2, <3>1, <3>3 DEF Followed
      <4>2. p # n
        BY <1>8, <4>1 DEF AtLeast, Past
      <4> QED BY <1>3, <4>1, <4>2
    <3>4. ASSUME NEW d \in net', d.id = i, d.replace PROVE LastEpoch(d.batch) = e
      <4>1. d \in net
        BY <2>1, <3>4 DEF Writing, Sent, Delivery
      <4> QED BY <3>1, <3>4, <4>1 DEF Followed
    <3> QED BY <2>2, <3>1, <3>2, <3>3, <3>4 DEF Followed
  <2> QED BY <1>9, <2>2, <2>3, <2>4
<1>13. \A y \in Everywhere' : y.epoch = e => y.seq <= LastSeq(log'[m])
  BY <1>7, <1>9, <1>11
<1> QED BY <1>4, <1>5, <1>7, <1>9, <1>12, <1>13 DEF OnTop

\* The writer on top goes on with its own log.
LEMMA WritingOn ==
    ASSUME IInv, HistOK, TopOK, IInv', NEW n \in Eligible, NEW l, NEW x, NEW w \in Id,
           Writing(n, l, x, w), w \in 1..sealed, l = log[n], Top(w)',
           x.kind = "snapshot" => x.has = writer[w].has
    PROVE  OnTop(w)'
<1>1. /\ Everywhere' \subseteq Everywhere \cup {x}
      /\ LastEpoch(log'[n]) = x.epoch /\ LastSeq(log'[n]) = x.seq
      /\ x.epoch \in Nat \ {0} /\ x.seq \in Nat \ {0} /\ x.id \in Id /\ n \in Node
      /\ LastEpoch(l) \in Nat /\ LastSeq(l) \in Nat
  BY WritingNew
<1>2. /\ \A i \in Id : call[i].open => i < x.id /\ i # x.id
      /\ \A d \in net : d.id # x.id
      /\ \A v \in Id : writer[v].epoch > 0 => v \in 1..sealed
      /\ \A y \in Everywhere : y.id < x.id /\ y.id # x.id
  BY WritingLinks
<1>3. /\ writer'[w].epoch = x.epoch /\ writer'[w].by = n /\ x.seq = LastSeq(l) + 1
      /\ call'[x.id] = Started(x, w)
      /\ \A v \in 1..sealed : writer'[v].epoch = writer[v].epoch /\ writer'[v].by = writer[v].by
  BY DEF Writing, Grows, Writes
<1>4. PICK e \in Nat \ {0} : e = x.epoch /\ writer[w].epoch = e /\ writer[w].by = n
  BY <1>1, <1>3
<1>5. Top(w)
  <2> SUFFICES ASSUME NEW v \in Id \ {w} PROVE writer[v].epoch < e
    BY <1>4 DEF Top
  <2>1. writer'[v].epoch < e
    BY <1>3, <1>4 DEF Top
  <2>2. writer'[v].epoch = writer[v].epoch
    BY DEF Writing
  <2> QED BY <2>1, <2>2
<1>6. /\ LastEpoch(l) = e
      /\ \A y \in Everywhere : y.epoch = e => y.seq <= LastSeq(l)
      /\ \A i \in Id : call[i].open /\ call[i].w = w =>
            /\ call[i].seq <= LastSeq(l)
            /\ call[i].kind = "change" => Followed(i)
  BY <1>4, <1>5 DEF TopOK, OnTop
<1>7. \A y \in Everywhere : y.epoch = e => y.seq < x.seq /\ y.seq \in Nat
  <2> SUFFICES ASSUME NEW y \in Everywhere, y.epoch = e PROVE y.seq < x.seq /\ y.seq \in Nat
    OBVIOUS
  <2>1. y.seq <= LastSeq(l) /\ y.seq \in Nat
    BY <1>6, Kinds
  <2> QED BY <1>1, <1>3, <2>1
<1>8. \A y \in Everywhere' : y.epoch = e => y.seq <= LastSeq(log'[n])
  BY <1>1, <1>7
<1>9. ~NoCall.open
  BY Empties
<1>10. ASSUME NEW i \in Id, call'[i].open, call'[i].w = w, i # x.id
       PROVE  /\ call'[i].seq <= LastSeq(log'[n])
              /\ call'[i].kind = "change" => Followed(i)'
  <2>1. call'[i] = call[i]
    BY <1>9, <1>10 DEF Writing
  <2>2. call[i].seq <= LastSeq(l) /\ (call[i].kind = "change" => Followed(i)) /\ call[i].seq \in Nat
    BY <1>6, <1>10, <2>1, Kinds
  <2>3. call[i].seq < x.seq
    BY <1>1, <1>3, <2>2
  <2>4. ASSUME call[i].kind = "change" PROVE Followed(i)'
    <3>1. Followed(i) /\ writer[call[i].w].epoch = e /\ writer'[call'[i].w].epoch = e
      BY <1>3, <1>4, <1>10, <2>1, <2>2, <2>4
    <3>2. \A y \in Everywhere' :
              y.epoch = e =>
                  /\ y.id < i => y.seq < call[i].seq
                  /\ y.id > i => y.seq > call[i].seq /\ (y.kind = "snapshot" => i \in y.has)
      <4> SUFFICES ASSUME NEW y \in Everywhere', y.epoch = e
                   PROVE  /\ y.id < i => y.seq < call[i].seq
                          /\ y.id > i => y.seq > call[i].seq /\ (y.kind = "snapshot" => i \in y.has)
        OBVIOUS
      <4>1. CASE y \in Everywhere
        BY <3>1, <4>1 DEF Followed
      <4>2. CASE y = x
        <5>1. ~(x.id < i)
          <6>1. i < x.id /\ i \in Nat /\ x.id \in Nat
            BY <1>1, <1>2, <1>10, <2>1, Kinds
          <6> QED BY <6>1
        <5>2. i \in writer[w].has
          <6>1. CallOK(i)
            BY DEF HistOK
          <6> QED BY <1>10, <2>1, <2>4, <6>1 DEF CallOK
        <5> QED BY <2>3, <4>2, <5>1, <5>2
      <4> QED BY <1>1, <4>1, <4>2
    <3>3. ASSUME NEW p \in Node, call'[i].reply[p] = "ok" PROVE AtLeast(log'[p], e, call[i].seq)
      <4>1. AtLeast(log[p], e, call[i].seq)
        BY <2>1, <3>1, <3>3 DEF Followed
      <4> QED BY <2>2, <4>1, WritingAhead
    <3>4. ASSUME NEW d \in net', d.id = i, d.replace PROVE LastEpoch(d.batch) = e
      <4>1. d \in net
        BY <1>10, <3>4 DEF Writing, Sent, Delivery
      <4> QED BY <3>1, <3>4, <4>1 DEF Followed
    <3> QED BY <2>1, <3>1, <3>2, <3>3, <3>4 DEF Followed
  <2> QED BY <1>1, <2>1, <2>2, <2>3, <2>4
<1>11. /\ call'[x.id].seq <= LastSeq(log'[n])
       /\ call'[x.id].kind = "change" => Followed(x.id)'
  <2>1. /\ call'[x.id].seq = x.seq /\ call'[x.id].w = w /\ call'[x.id].kind = x.kind
        /\ \A p \in Node : call'[x.id].reply[p] = "none"
    BY <1>3 DEF Started, NoCall
  <2>2. writer'[call'[x.id].w].epoch = e
    BY <1>3, <1>4, <2>1
  <2>3. \A y \in Everywhere' :
            y.epoch = e =>
                /\ y.id < x.id => y.seq < x.seq
                /\ y.id > x.id => y.seq > x.seq /\ (y.kind = "snapshot" => x.id \in y.has)
    <3> SUFFICES ASSUME NEW y \in Everywhere', y.epoch = e
                 PROVE  /\ y.id < x.id => y.seq < x.seq
                        /\ ~(y.id > x.id)
      OBVIOUS
    <3>1. x.id \in Nat
      BY <1>1, Kinds
    <3>2. CASE y = x
      BY <3>1, <3>2
    <3>3. CASE y \in Everywhere
      <4>1. y.seq < x.seq /\ y.id < x.id /\ y.id \in Nat
        BY <1>2, <1>7, <3>3, Kinds
      <4> QED BY <3>1, <4>1
    <3> QED BY <1>1, <3>2, <3>3
  <2>4. ASSUME NEW d \in net', d.id = x.id, d.replace PROVE LastEpoch(d.batch) = e
    <3>1. d \notin net
      BY <1>2, <2>4
    <3> QED BY <2>4, <3>1 DEF Writing, Sent, Delivery
  <2>5. Followed(x.id)'
    <3>1. \A p \in Node : call'[x.id].reply[p] # "ok"
      BY <2>1
    <3> QED BY <2>1, <2>2, <2>3, <2>4, <3>1 DEF Followed
  <2> QED BY <1>1, <2>1, <2>5
<1> QED BY <1>1, <1>3, <1>4, <1>8, <1>10, <1>11 DEF OnTop

\* A new writer of the newest epoch is the first of it.
LEMMA WritingFirst ==
    ASSUME IInv, HistOK, TopOK, IInv', NEW n \in Eligible, NEW l, NEW x, NEW w \in Id,
           Writing(n, l, x, w), x.kind = "term", Top(w)'
    PROVE  OnTop(w)'
<1>1. /\ Everywhere' \subseteq Everywhere \cup {x}
      /\ LastEpoch(log'[n]) = x.epoch /\ LastSeq(log'[n]) = x.seq
      /\ x.epoch \in Nat \ {0} /\ x.seq \in Nat \ {0} /\ x.id \in Id /\ n \in Node
  BY WritingNew
<1>2. /\ \A i \in Id : call[i].open => i < x.id /\ i # x.id
      /\ \A v \in Id : writer[v].epoch > 0 => v \in 1..sealed
  BY WritingLinks
<1>3. /\ writer'[w].epoch = x.epoch /\ writer'[w].by = n /\ w = x.id /\ x.id = sealed + 1
      /\ call'[x.id] = Started(x, w)
      /\ sealed \in Nat
  BY Kinds DEF Writing, Writes
<1>4. \A y \in Everywhere : y.epoch # x.epoch
  <2> SUFFICES ASSUME NEW y \in Everywhere, y.epoch = x.epoch PROVE FALSE
    OBVIOUS
  <2>1. PICK v \in Id : writer[v].epoch = x.epoch
    BY DEF HistOK, EntryOK
  <2>2. v \in 1..sealed
    BY <1>1, <1>2, <2>1
  <2>3. v # w
    BY <1>3, <2>2
  <2>4. writer'[v].epoch < x.epoch /\ writer'[v].epoch = writer[v].epoch
    BY <1>3, <2>3 DEF Top, Writing
  <2> QED BY <1>1, <2>1, <2>4
<1>5. \A y \in Everywhere' : y.epoch = x.epoch => y.seq <= LastSeq(log'[n])
  BY <1>1, <1>4
<1>6. ASSUME NEW i \in Id, call'[i].open, call'[i].w = w
      PROVE  call'[i].seq <= LastSeq(log'[n]) /\ call'[i].kind # "change"
  <2>1. i = x.id
    <3> SUFFICES ASSUME i # x.id PROVE FALSE
      OBVIOUS
    <3>1. call'[i] = call[i] /\ call[i].open
      BY <1>6, Empties DEF Writing
    <3>2. call[i].w \in 1..sealed
      BY <3>1, Caller DEF Open, Writes
    <3> QED BY <1>3, <1>6, <3>1, <3>2
  <2>2. call'[x.id].seq = x.seq /\ call'[x.id].kind = "term"
    BY <1>3 DEF Started, NoCall
  <2> QED BY <1>1, <2>1, <2>2
<1> QED BY <1>1, <1>3, <1>5, <1>6 DEF OnTop

\* Nothing but the histories is left to show of a step that seals an entry.
LEMMA WritingKeeps ==
    ASSUME SInv, IInv', NEW n \in Eligible, NEW l, NEW x, NEW w \in Id, Writing(n, l, x, w),
           HistOK', TopOK', Keeps,
           \A c \in lost' : \/ c \in lost
                            \/ /\ c \in Changes
                               /\ \A e \in Nat \ {0}, s \in Nat \ {0}, Q \in SUBSET Node :
                                      ~Safe(c, e, s, Q)
    PROVE  SInv'
<1>0. IInv /\ HistOK /\ TopOK /\ ReadsOK /\ OnceOK /\ SafeOK
  BY DEF SInv
<1>1. ReadsOK'
  BY <1>0, CalmReadsOK DEF Writing
<1>2. sealed' \in Nat /\ sealed' >= sealed /\ MayCommit
  BY DEF Writing, Grows
<1>3. \A i \in Id : i <= sealed /\ call'[i].open => call[i].open
  <2> SUFFICES ASSUME NEW i \in Id, i <= sealed, call'[i].open PROVE call[i].open
    OBVIOUS
  <2>1. sealed \in Nat /\ i \in Nat /\ x.id = sealed + 1
    BY <1>0, Kinds DEF Writing
  <2>2. i # x.id
    BY <2>1
  <2> QED BY <2>2, Empties DEF Writing
<1>4. OnceOK' /\ SafeOK'
  BY <1>0, <1>2, <1>3, Committing
<1> QED BY <1>1, <1>4 DEF SInv

\* The writer goes on with its own log.
LEMMA ExtendStep ==
    ASSUME SInv, IInv', NEW n \in Eligible, NEW l, NEW x, NEW w \in Id, Writing(n, l, x, w),
           w \in 1..sealed, l = log[n], x.kind = "snapshot" => x.has = writer[w].has,
           lost' = lost
    PROVE  SInv'
<1>0. IInv /\ HistOK /\ TopOK /\ ReadsOK
  BY DEF SInv
<1>1. HistOK'
  BY <1>0, WritingHist
<1>2. TopOK'
  <2> SUFFICES ASSUME NEW u \in Id, Top(u)'
               PROVE  OnTop(u)'
    BY DEF TopOK
  <2>1. CASE u = w
    BY <1>0, <2>1, WritingOn
  <2>2. CASE u # w
    BY <1>0, <2>2, WritingUnder
  <2> QED BY <2>1, <2>2
<1>3. Keeps
  <2> SUFFICES ASSUME NEW c \in 1..sealed, NEW e \in Nat \ {0}, NEW s \in Nat \ {0},
                      NEW Q \in SUBSET Node, Safe(c, e, s, Q)
               PROVE  Safe(c, e, s, Q)'
    BY DEF Keeps
  <2>1. ASSUME x.epoch >= e
        PROVE  AtLeast(l, e, s) /\ c \in writer'[w].has /\ (x.kind = "snapshot" => c \in x.has)
    <3>1. writer[w].epoch = x.epoch /\ writer[w].by = n /\ writer[w].has \subseteq writer'[w].has
      BY DEF Writing, Grows, Writes
    <3>2. c \in writer[w].has /\ AtLeast(log[n], e, s)
      BY <2>1, <3>1 DEF Safe, SafeWriters
    <3> QED BY <3>1, <3>2
  <2> QED BY <1>0, <2>1, WritingSafe
<1> QED BY <1>1, <1>2, <1>3, WritingKeeps

\* A new term starts on a log that is past everything that is safe.
LEMMA TermStep ==
    ASSUME SInv, IInv', NEW n \in Eligible, NEW l, NEW x, NEW w \in Id, Writing(n, l, x, w),
           x.kind = "term", writer'[w].has = Replay(l),
           lost' = lost \cup (Changes \ Replay(l)),
           \A c \in 1..sealed, e \in Nat \ {0}, s \in Nat \ {0}, Q \in SUBSET Node :
               Safe(c, e, s, Q) => AtLeast(l, e, s)
    PROVE  SInv'
<1>0. IInv /\ HistOK /\ TopOK /\ ReadsOK /\ OnceOK
  BY DEF SInv
<1>1. HistOK'
  BY <1>0, WritingHist
<1>2. TopOK'
  <2> SUFFICES ASSUME NEW u \in Id, Top(u)'
               PROVE  OnTop(u)'
    BY DEF TopOK
  <2>1. CASE u = w
    BY <1>0, <2>1, WritingFirst
  <2>2. CASE u # w
    BY <1>0, <2>2, WritingUnder
  <2> QED BY <2>1, <2>2
<1>3. ASSUME NEW c \in 1..sealed, NEW e \in Nat \ {0}, NEW s \in Nat \ {0},
             NEW Q \in SUBSET Node, Safe(c, e, s, Q)
      PROVE  AtLeast(l, e, s) /\ c \in Replay(l)
  <2>1. AtLeast(l, e, s) /\ SafeEntries(c, e, s)
    BY <1>3 DEF Safe
  <2>2. l \in Seq(Entry) /\ Chain(l) /\ Entries(l) \subseteq Everywhere
    BY DEF Writing
  <2> QED BY <2>1, <2>2, Walk
<1>4. Keeps
  <2> SUFFICES ASSUME NEW c \in 1..sealed, NEW e \in Nat \ {0}, NEW s \in Nat \ {0},
                      NEW Q \in SUBSET Node, Safe(c, e, s, Q)
               PROVE  Safe(c, e, s, Q)'
    BY DEF Keeps
  <2>1. AtLeast(l, e, s) /\ c \in writer'[w].has
    BY <1>3
  <2> QED BY <1>0, <2>1, WritingSafe
<1>5. \A c \in lost' : \/ c \in lost
                       \/ /\ c \in Changes
                          /\ \A e \in Nat \ {0}, s \in Nat \ {0}, Q \in SUBSET Node :
                                 ~Safe(c, e, s, Q)
  <2> SUFFICES ASSUME NEW c \in Changes, c \notin Replay(l), NEW e \in Nat \ {0},
                      NEW s \in Nat \ {0}, NEW Q \in SUBSET Node
               PROVE  ~Safe(c, e, s, Q)
    OBVIOUS
  <2>1. c \in 1..sealed
    <3>1. PICK d \in committed : d.id = c
      BY DEF Changes
    <3>2. d.id \in Id /\ d.id <= sealed
      BY <1>0 DEF IInv, Placed, TypeOK, OnceOK
    <3>3. c \in 1..MaxEntry /\ c <= sealed
      BY <3>1, <3>2 DEF Id
    <3> QED BY <3>3
  <2> QED BY <1>3, <2>1
<1> QED BY <1>1, <1>2, <1>4, <1>5, WritingKeeps
-----------------------------------------------------------------------------
(* The steps that seal an entry, one by one *)

LEMMA RecordStep ==
    ASSUME SInv, IInv', NEW n \in Eligible, Record(n)
    PROVE  SInv'
<1>0. /\ IInv /\ World /\ Records /\ Takes /\ Placed /\ TypeOK /\ sealed \in Nat
      /\ lease.epoch \in Nat /\ \A q \in Node : mark[q] \in Nat
  BY Parts, Basics DEF SInv, IInv, Placed
<1>1. /\ job' = job /\ prepared' = prepared /\ lease' = lease /\ committed' = committed
      /\ lost' = lost /\ acting[n] # 0
  BY DEF Record
<1>2. PICK w \in Id : w = acting[n]
  <2>1. acting[n] \in Id \cup {0}
    BY <1>0 DEF Takes
  <2> QED BY <1>1, <2>1
<1>3. Writes(w, n)
  BY <1>0, <1>1, <1>2 DEF Takes
<1>4. PICK e \in Nat \ {0} : e = writer[w].epoch
  BY <1>0, <1>3 DEF Writes
<1>5. /\ log[n] \in Seq(Entry) /\ n \in Node /\ Chain(log[n])
      /\ LastEpoch(log[n]) \in Nat /\ LastEpoch(log[n]) <= mark[n]
  BY <1>0, Basics, LastTypes DEF World, LogsRestart
<1>6. PICK l \in Seq(Entry) : l = log[n]
  BY <1>5
<1>7. PICK x : x = Seal(n, e, "change", l, {})
  OBVIOUS
<1>8. \/ /\ writer' = [writer EXCEPT ![w].fenced = TRUE]
         /\ UNCHANGED <<log, call, net, sealed>>
      \/ /\ mark[n] <= e /\ VerdictOne(l, mark[n], x) = "stored" /\ Room
         /\ Write(n, x, l)
         /\ writer' = [writer EXCEPT ![w].has = @ \cup {x.id}]
         /\ call' = [call EXCEPT ![x.id] = Started(x, w)]
         /\ net' = net \cup Sent(n, w, x)
  BY <1>2, <1>4, <1>6, <1>7 DEF Record
<1>9. CASE /\ writer' = [writer EXCEPT ![w].fenced = TRUE]
           /\ UNCHANGED <<log, call, net, sealed>>
  BY <1>1, <1>9, FenceStep
<1>10. CASE /\ mark[n] <= e /\ VerdictOne(l, mark[n], x) = "stored" /\ Room
            /\ Write(n, x, l)
            /\ writer' = [writer EXCEPT ![w].has = @ \cup {x.id}]
            /\ call' = [call EXCEPT ![x.id] = Started(x, w)]
            /\ net' = net \cup Sent(n, w, x)
  <2>1. /\ x \in Entry /\ x.id = sealed + 1 /\ x.epoch = e /\ x.kind = "change"
        /\ x.seq = LastSeq(l) + 1 /\ x.prev = LastHash(l)
    BY <1>0, <1>7, <1>10, SealType DEF Room
  <2>2. x.has = {x.id}
    BY <1>7 DEF Seal
  <2>3. x.id \in Id /\ LastEpoch(l) <= x.epoch /\ ~(x.epoch > LastEpoch(l))
    <3>1. ~(x.epoch > LastEpoch(l) /\ x.kind # "term")
      BY <1>10 DEF VerdictOne
    <3> QED BY <1>0, <1>5, <1>6, <1>10, <2>1, <3>1 DEF Entry
  <2>4. /\ \A v \in Id : writer'[v].by = writer[v].by /\ writer'[v].epoch = writer[v].epoch
        /\ writer'[w].has = writer[w].has \cup {x.id}
        /\ \A v \in Id \ {w} : writer'[v] = writer[v]
    <3>1. writer \in [Id -> WriterRec] /\ writer[w] \in WriterRec
      BY <1>0 DEF Records
    <3> DEFINE r == [writer[w] EXCEPT !.has = writer[w].has \cup {x.id}]
    <3>2. r.by = writer[w].by /\ r.epoch = writer[w].epoch /\ r.has = writer[w].has \cup {x.id}
      BY <3>1 DEF WriterRec
    <3>3. writer'[w] = r /\ \A v \in Id \ {w} : writer'[v] = writer[v]
      BY <1>10, <3>1
    <3> HIDE DEF r
    <3> QED BY <3>2, <3>3
  <2>5. /\ sealed' = x.id /\ log'[n] = Append(l, x) /\ \A p \in Node \ {n} : log'[p] = log[p]
    BY <1>0, <1>5, <1>10 DEF Write, World
  <2>6. w \in 1..sealed /\ 1..sealed \subseteq Id
    BY <1>0, <1>3, Basics DEF Writes
  <2>7. Grows
    BY <1>0, <1>1, <2>1, <2>4, <2>5, <2>6 DEF Grows
  <2>8. Writes(w, n)' /\ writer'[w].epoch = x.epoch
    BY <1>0, <1>3, <1>4, <2>1, <2>4, <2>7, WritesKept
  <2>9. call'[x.id] = Started(x, w) /\ \A i \in Id \ {x.id} : call'[i] = call[i]
    BY <1>0, <1>10, <2>3 DEF Records
  <2>10. \A v \in 1..sealed : writer[v].has \subseteq writer'[v].has
    BY <2>4, <2>6
  <2>11. CalmReads /\ MayCommit
    BY <1>0, <1>1, NothingMoves
  <2>12. Entries(l) \subseteq Everywhere
    BY <1>5, <1>6, Somewhere
  <2>13. Writing(n, l, x, w)
    <3>1. mark[n] <= x.epoch /\ Chain(l)
      BY <1>5, <1>6, <1>10, <2>1
    <3>2. net' \subseteq net \cup Sent(n, w, x)
      BY <1>10
    <3>3. x.id \in writer'[w].has
      BY <2>4
    <3>4. x.kind # "term"
      BY <2>1
    <3>5. \A v \in Id \ {w} : /\ writer'[v].by = writer[v].by /\ writer'[v].epoch = writer[v].epoch
                              /\ writer'[v].has = writer[v].has
      BY <2>4
    <3> QED BY <2>1, <2>2, <2>3, <2>5, <2>6, <2>7, <2>8, <2>9, <2>10, <2>11, <2>12, <3>1, <3>2,
               <3>3, <3>4, <3>5 DEF Writing
  <2> QED BY <1>1, <1>6, <2>1, <2>6, <2>13, ExtendStep
<1> QED BY <1>8, <1>9, <1>10

LEMMA RecordReturnsStep ==
    ASSUME SInv, IInv', NEW i \in Open, NEW seen \in SUBSET Node, RecordReturns(i, seen)
    PROVE  SInv'
<1>0. /\ IInv /\ World /\ Records /\ Takes /\ Placed /\ TypeOK /\ sealed \in Nat
      /\ lease.epoch \in Nat /\ \A q \in Node : mark[q] \in Nat
  BY Parts, Basics DEF SInv, IInv, Placed
<1>1. job' = job /\ prepared' = prepared /\ lease' = lease /\ lost' = lost
  BY DEF RecordReturns
<1>2. /\ i \in Id /\ i <= sealed /\ call[i].w \in Id
      /\ writer[call[i].w].by \in Eligible /\ Writes(call[i].w, writer[call[i].w].by)
  BY <1>0, Caller
<1>3. PICK w \in Id : w = call[i].w
  BY <1>2
<1>4. PICK n \in Eligible : n = writer[w].by
  BY <1>2, <1>3
<1>5. writer[w] \in WriterRec /\ Writes(w, n)
  BY <1>0, <1>2, <1>3, <1>4 DEF Records
<1>6. PICK e \in Nat \ {0} : e = writer[w].epoch
  BY <1>0, <1>5 DEF Writes
<1>7. PICK h \in SUBSET Id : h = writer[w].has
  BY <1>5 DEF WriterRec
<1>8. /\ log[n] \in Seq(Entry) /\ n \in Node /\ Chain(log[n])
      /\ LastEpoch(log[n]) \in Nat /\ LastEpoch(log[n]) <= mark[n]
  BY <1>0, Basics, LastTypes DEF World, LogsRestart
<1>9. PICK l \in Seq(Entry) : l = log[n]
  BY <1>8
<1>10. PICK x : x = Seal(n, e, "snapshot", l, h)
  OBVIOUS
<1> DEFINE counted == [writer EXCEPT ![w].since = @ + 1]
<1>11. \/ /\ \/ writer' = [writer EXCEPT ![w].fenced = TRUE] \/ writer' = counted
             \/ writer' = [counted EXCEPT ![w].fenced = TRUE]
          /\ Close(call, i) /\ UNCHANGED <<log, sealed>>
       \/ /\ mark[n] <= e /\ VerdictOne(l, mark[n], x) = "stored" /\ sealed < MaxEntry
          /\ Write(n, x, l)
          /\ writer' = counted
          /\ call' = [call EXCEPT ![i] = NoCall, ![x.id] = Started(x, w)]
          /\ net' = Sent(n, w, x) \cup
                       (IF "late" \in Extra THEN net ELSE {d \in net : d.id # i})
  BY <1>3, <1>4, <1>6, <1>7, <1>9, <1>10 DEF RecordReturns
<1>12. SameWriters
  BY <1>0, <1>11, WriterMarks
<1>13. committed' = committed \/ (Commits(i, seen) /\ Commit(i))
  BY DEF RecordReturns
<1>14. ~call'[i].open => MayCommit
  BY <1>13 DEF MayCommit
<1>15. CalmReads
  BY <1>0, <1>1, NothingMoves
<1> HIDE DEF counted
<1>16. CASE Close(call, i) /\ UNCHANGED <<log, sealed>>
  <2>1. /\ net' \subseteq net /\ \A j \in Id : call'[j] = call[j] \/ call'[j] = NoCall
        /\ ~call'[i].open
    <3>1. ~call'[i].open
      BY <1>0, <1>2, <1>16 DEF Close, NoCall, Records
    <3> QED BY <1>0, <1>2, <1>16, <3>1, CloseOK
  <2>2. CalmWriters
    BY <1>0, <1>1, <1>12, <1>16, NothingMoves
  <2> QED BY <1>1, <1>14, <1>15, <1>16, <2>1, <2>2, Still
<1>17. CASE /\ mark[n] <= e /\ VerdictOne(l, mark[n], x) = "stored" /\ sealed < MaxEntry
            /\ Write(n, x, l)
            /\ call' = [call EXCEPT ![i] = NoCall, ![x.id] = Started(x, w)]
            /\ net' = Sent(n, w, x) \cup
                         (IF "late" \in Extra THEN net ELSE {d \in net : d.id # i})
  <2>1. /\ x \in Entry /\ x.id = sealed + 1 /\ x.epoch = e /\ x.kind = "snapshot"
        /\ x.seq = LastSeq(l) + 1 /\ x.prev = LastHash(l)
    BY <1>0, <1>10, <1>17, SealType
  <2>2. x.has = writer[w].has
    BY <1>7, <1>10 DEF Seal
  <2>3. x.id \in Id /\ LastEpoch(l) <= x.epoch /\ ~(x.epoch > LastEpoch(l)) /\ x.id # i
    <3>1. ~(x.epoch > LastEpoch(l) /\ x.kind # "term")
      BY <1>17 DEF VerdictOne
    <3>2. x.id # i
      BY <1>0, <1>2, <2>1, Basics
    <3> QED BY <1>0, <1>8, <1>9, <1>17, <2>1, <3>1, <3>2 DEF Entry
  <2>4. \A v \in Id : /\ writer'[v].by = writer[v].by /\ writer'[v].epoch = writer[v].epoch
                      /\ writer'[v].has = writer[v].has
    BY <1>12 DEF SameWriters
  <2>5. /\ sealed' = x.id /\ log'[n] = Append(l, x) /\ \A p \in Node \ {n} : log'[p] = log[p]
    BY <1>0, <1>8, <1>17 DEF Write, World
  <2>6. w \in 1..sealed /\ 1..sealed \subseteq Id
    BY <1>0, <1>5, Basics DEF Writes
  <2>7. Grows
    <3>1. \A v \in 1..sealed : writer'[v].by = writer[v].by /\ writer'[v].epoch = writer[v].epoch
      BY <2>4, <2>6
    <3>2. sealed' = sealed + 1
      BY <2>1, <2>5
    <3> QED BY <1>0, <1>1, <3>1, <3>2 DEF Grows
  <2>8. Writes(w, n)' /\ writer'[w].epoch = x.epoch
    BY <1>0, <1>5, <1>6, <2>1, <2>4, <2>7, WritesKept
  <2>9. /\ call'[x.id] = Started(x, w) /\ call'[i] = NoCall
        /\ \A j \in Id \ {x.id} : call'[j] = call[j] \/ call'[j] = NoCall
    BY <1>0, <1>2, <1>17, <2>3 DEF Records
  <2>10. \A v \in 1..sealed : writer[v].has \subseteq writer'[v].has
    BY <2>4, <2>6
  <2>11. MayCommit
    BY <1>14, <2>9, Empties
  <2>12. Entries(l) \subseteq Everywhere
    BY <1>8, <1>9, Somewhere
  <2>13. Writing(n, l, x, w)
    <3>1. mark[n] <= x.epoch /\ Chain(l)
      BY <1>8, <1>9, <1>17, <2>1
    <3>2. net' \subseteq net \cup Sent(n, w, x)
      BY <1>17
    <3>3. x.kind # "term" /\ x.kind # "change"
      BY <2>1
    <3> QED BY <1>15, <2>1, <2>3, <2>4, <2>5, <2>6, <2>7, <2>8, <2>9, <2>10, <2>11, <2>12,
               <3>1, <3>2, <3>3 DEF Writing
  <2> QED BY <1>1, <1>9, <2>2, <2>6, <2>13, ExtendStep
<1> QED BY <1>11, <1>16, <1>17

\* adoptTerm seals the term entry on the log that was restored, or gives up.
LEMMA AdoptTermStep ==
    ASSUME SInv, IInv', NEW n \in Eligible, NEW k \in Job, NEW b \in Base, BaseOK(b),
           Entries(b.log) \subseteq Everywhere,
           NEW e \in Nat \ {0}, NEW f,
           lease'.epoch \in Nat, lease'.epoch >= lease.epoch, e <= lease'.epoch,
           ~Refuses(n, b, e) => mark[n] <= e,
           \A m \in Eligible : prepared'[m] = prepared[m] \/ prepared'[m] = NoBase,
           AdoptTerm(n, k, b, e, f), committed' = committed,
           \A c \in 1..sealed, t \in Nat \ {0}, s \in Nat \ {0}, Q \in SUBSET Node :
               Safe(c, t, s, Q) => AtLeast(b.log, t, s)
    PROVE  SInv'
<1>0. /\ IInv /\ World /\ Records /\ Takes /\ Placed /\ TypeOK /\ sealed \in Nat
      /\ lease.epoch \in Nat /\ \A q \in Node : mark[q] \in Nat /\ n \in Node
  BY Parts, Basics DEF SInv, IInv, Placed
<1>1. CASE /\ GiveUp(n, k, f)
           /\ UNCHANGED <<replicas, writer, call, net, sealed, lost, late>>
  <2>1. job' = [job EXCEPT ![n][k] = NoJob] /\ UNCHANGED <<log, writer, call, net, sealed, lost>>
    BY <1>1 DEF GiveUp, Idle, replicas
  <2>2. NoJob \in JobRec /\ NoJob.asked = {} /\ NoJob.base = NoBase
    BY Empties DEF NoJob
  <2> QED BY <2>1, <2>2, SetJob
<1>2. PICK x : x = Seal(n, e, "term", b.log, {})
  OBVIOUS
<1>3. CASE /\ ~Refuses(n, b, e) /\ Room
           /\ Write(n, x, b.log)
           /\ writer' = [writer EXCEPT ![x.id] =
                           [NoWriter EXCEPT !.by = n, !.epoch = e, !.has = Replay(b.log)]]
           /\ call' = [call EXCEPT ![x.id] = Started(x, x.id)]
           /\ net' = net \cup Sent(n, x.id, x)
           /\ job' = [job EXCEPT ![n][k] = [NoJob EXCEPT !.st = "start", !.id = x.id]]
           /\ lost' = lost \cup (Changes \ Replay(b.log))
  <2>1. sealed < MaxEntry /\ mark[n] <= e
    BY <1>3 DEF Room
  <2>2. PICK l \in Seq(Entry) : /\ l = b.log /\ Chain(l) /\ LastEpoch(l) \in Nat
                                /\ LastEpoch(l) <= e
    <3>1. b.log \in Seq(Entry) /\ b.max \in Nat /\ Chain(b.log) /\ LastEpoch(b.log) <= b.max
      BY DEF Base, BaseOK
    <3>2. b.max <= e
      BY <1>3, <3>1 DEF Refuses
    <3>3. LastEpoch(b.log) \in Nat
      BY <3>1, LastTypes
    <3> QED BY <3>1, <3>2, <3>3
  <2>3. /\ x \in Entry /\ x.id = sealed + 1 /\ x.epoch = e /\ x.kind = "term"
        /\ x.seq = LastSeq(l) + 1 /\ x.prev = LastHash(l)
    BY <1>0, <1>2, <2>1, <2>2, SealType
  <2>4. PICK w \in Id : w = x.id
    BY <2>3 DEF Entry
  <2>5. PICK r : r = [NoWriter EXCEPT !.by = n, !.epoch = e, !.has = Replay(b.log)]
    OBVIOUS
  <2>6. r.by = n /\ r.epoch = e /\ r.has = Replay(l)
    BY <2>2, <2>5 DEF NoWriter
  <2>7. writer'[w] = r /\ \A v \in Id \ {w} : writer'[v] = writer[v]
    BY <1>0, <1>3, <2>4, <2>5 DEF Records
  <2>8. /\ sealed' = x.id /\ log'[n] = Append(l, x) /\ \A p \in Node \ {n} : log'[p] = log[p]
    <3>1. log' = [log EXCEPT ![n] = Append(l, x)] /\ sealed' = x.id
      BY <1>3, <2>2 DEF Write
    <3>2. World /\ n \in Node
      BY Parts, JournalAssumption DEF SInv
    <3>3. log'[n] = Append(l, x) /\ \A p \in Node \ {n} : log'[p] = log[p]
      <4>1. log \in [Node -> Seq(Entry)]
        BY <3>2 DEF World
      <4> QED BY <3>1, <3>2, <4>1
    <3> QED BY <3>1, <3>3
  <2>9. \A v \in 1..sealed : writer'[v] = writer[v]
    <3> SUFFICES ASSUME NEW v \in 1..sealed PROVE writer'[v] = writer[v]
      OBVIOUS
    <3>1. v \in Id
      BY <1>0, Basics
    <3>2. v # w
      BY <1>0, <2>3, <2>4
    <3> QED BY <2>7, <3>1, <3>2
  <2>10. Grows
    BY <1>0, <2>3, <2>8, <2>9 DEF Grows
  <2>11. Writes(w, n)' /\ writer'[w].epoch = x.epoch
    <3>1. w \in 1..sealed'
      BY <1>0, <2>3, <2>4, <2>8
    <3> QED BY <1>0, <2>3, <2>6, <2>7, <3>1 DEF Writes
  <2>12. call'[x.id] = Started(x, w) /\ \A j \in Id \ {x.id} : call'[j] = call[j]
    BY <1>0, <1>3, <2>4 DEF Records
  <2>13. CalmReads
    <3>1. PICK q : q = [NoJob EXCEPT !.st = "start", !.id = x.id]
      OBVIOUS
    <3>2. q \in JobRec /\ q.asked = {} /\ q.base = NoBase
      <4>1. NoJob \in JobRec /\ NoJob.base = NoBase /\ NoJob.asked = {}
        BY Empties DEF NoJob
      <4> QED BY <2>4, <3>1, <4>1 DEF JobRec
    <3>3. job' = [job EXCEPT ![n][k] = q]
      BY <1>3, <3>1
    <3> QED BY <1>0, <3>2, <3>3, JobsEmptied
  <2>14. MayCommit
    BY DEF MayCommit
  <2>15. Writing(n, l, x, w)
    <3>1. LastEpoch(l) <= x.epoch /\ mark[n] <= x.epoch /\ Entries(l) \subseteq Everywhere
      BY <2>1, <2>2, <2>3
    <3>2. net' \subseteq net \cup Sent(n, w, x)
      BY <1>3, <2>4
    <3>3. x.kind # "change"
      BY <2>3
    <3>4. /\ \A v \in Id \ {w} : /\ writer'[v].by = writer[v].by /\ writer'[v].epoch = writer[v].epoch
                                 /\ writer'[v].has = writer[v].has
          /\ \A v \in 1..sealed : writer[v].has \subseteq writer'[v].has
      BY <2>7, <2>9
    <3> QED BY <2>2, <2>3, <2>4, <2>8, <2>10, <2>11, <2>12, <2>13, <2>14, <3>1, <3>2, <3>3, <3>4
            DEF Writing
  <2>16. writer'[w].has = Replay(l) /\ lost' = lost \cup (Changes \ Replay(l))
    BY <1>3, <2>2, <2>6, <2>7
  <2> QED BY <2>2, <2>3, <2>15, <2>16, TermStep
<1> QED BY <1>1, <1>2, <1>3 DEF AdoptTerm

\* A restore ends: it is kept for the lease, adopted, or given up.
LEMMA RestoreStep ==
    ASSUME SInv, IInv', NEW n \in Eligible, NEW k \in Job, Restore(n, k)
    PROVE  SInv'
<1>0. IInv /\ World /\ Takes /\ Placed /\ ReadsOK /\ n \in Node /\ lease.epoch \in Nat
  <2>1. IInv /\ Placed /\ ReadsOK /\ TypeOK
    BY DEF SInv, IInv, Placed
  <2> QED BY <2>1, Parts, Basics, JournalAssumption
<1>1. lease' = lease /\ committed' = committed
  BY DEF Restore
<1>2. job[n][k] \in JobRec /\ BaseOK(job[n][k].base)
  BY <1>0 DEF Takes
<1>3. job[n][k].base \in Base /\ log[n] \in Seq(Entry) /\ mark[n] \in Nat
  BY <1>0, <1>2 DEF JobRec, World
<1>4. PICK b \in Merges(job[n][k].base, n) :
        \/ /\ StepDown(n) /\ Idle(n, k)
           /\ UNCHANGED <<replicas, writer, prepared, call, net, fence, sealed, lost, late>>
        \/ /\ GiveUp(n, k, fence)
           /\ UNCHANGED <<replicas, writer, prepared, call, net, sealed, lost, late>>
        \/ /\ b.count >= Quorum
           /\ prepared' = [prepared EXCEPT ![n] = b]
           /\ Idle(n, k)
           /\ UNCHANGED <<replicas, writer, acting, call, net, fence, sealed, lost, late>>
        \/ /\ b.count >= Quorum /\ job[n][k].st = "reread"
           /\ AdoptTerm(n, k, b, job[n][k].epoch, fence)
           /\ UNCHANGED prepared
  BY DEF Restore
<1>5. CASE /\ Idle(n, k)
           /\ UNCHANGED <<replicas, writer, prepared, call, net, sealed, lost, late>>
  <2>1. NoJob \in JobRec /\ NoJob.asked = {} /\ NoJob.base = NoBase
    BY Empties DEF NoJob
  <2>2. /\ job' = [job EXCEPT ![n][k] = NoJob]
        /\ UNCHANGED <<log, writer, call, net, sealed, lost, committed>> /\ prepared' = prepared
    BY <1>1, <1>5 DEF Idle, replicas
  <2>3. lease'.epoch >= lease.epoch
    BY <1>0, <1>1
  <2> QED BY <2>1, <2>2, <2>3, SetJob
<1>6. CASE /\ b.count >= Quorum
           /\ prepared' = [prepared EXCEPT ![n] = b]
           /\ Idle(n, k)
           /\ UNCHANGED <<replicas, writer, acting, call, net, fence, sealed, lost, late>>
  <2>1. UNCHANGED <<log, writer, call, net, sealed, lost, committed, lease>>
    BY <1>1, <1>6 DEF replicas
  <2> QED BY <1>6, <2>1, PrepareStep
<1>7. CASE /\ b.count >= Quorum /\ job[n][k].st = "reread"
           /\ AdoptTerm(n, k, b, job[n][k].epoch, fence)
           /\ UNCHANGED prepared
  <2>1. PICK e \in Nat \ {0} : e = job[n][k].epoch /\ e <= lease.epoch
    <3>1. job[n][k].epoch \in 1..lease.epoch
      BY <1>0, <1>7 DEF Takes
    <3> QED BY <1>0, <3>1
  <2>2. PICK c \in Base : c = b /\ BaseOK(c) /\ c.max \in Nat /\ c.max >= mark[n]
    <3>1. b \in Base /\ BaseOK(b) /\ b.max >= mark[n]
      BY <1>0, <1>2, <1>3, MergesOK
    <3> QED BY <3>1 DEF Base
  <2>3. PICK f : f = fence
    OBVIOUS
  <2>4. AdoptTerm(n, k, c, e, f)
    BY <1>7, <2>1, <2>2, <2>3 DEF AdoptTerm, GiveUp
  <2>5. Entries(c.log) \subseteq Everywhere
    <3>1. b.log \in {log[n], job[n][k].base.log}
      BY <1>0, <1>3, Merged
    <3> QED BY <1>0, <2>2, <3>1, Somewhere
  <2>6. ~Refuses(n, c, e) => mark[n] <= e
    BY <1>3, <2>2 DEF Refuses
  <2>7. ASSUME NEW i \in 1..sealed, NEW t \in Nat \ {0}, NEW s \in Nat \ {0},
               NEW Q \in SUBSET Node, Safe(i, t, s, Q)
        PROVE  AtLeast(c.log, t, s)
    <3>1. AtLeast(b.log, t, s)
      BY <1>0, <1>7, <2>7, RestoreMeets
    <3> QED BY <2>2, <3>1
  <2>8. /\ lease'.epoch \in Nat /\ lease'.epoch >= lease.epoch /\ e <= lease'.epoch
        /\ \A m \in Eligible : prepared'[m] = prepared[m] \/ prepared'[m] = NoBase
    BY <1>0, <1>1, <1>7, <2>1
  <2> QED BY <1>1, <2>2, <2>4, <2>5, <2>6, <2>7, <2>8, AdoptTermStep
<1> QED BY <1>4, <1>5, <1>6, <1>7 DEF GiveUp

\* The lease layer hands a fence over: the restore kept for it is adopted, or
\* another one begins.
LEMMA AdoptStep ==
    ASSUME SInv, IInv', NEW n \in Eligible, NEW k \in Job, NEW e \in Nat \ {0}, NEW f,
           lease'.epoch = e, e >= lease.epoch, Adopt(n, k, e, f)
    PROVE  SInv'
<1>0. IInv /\ World /\ Takes /\ Records /\ n \in Node /\ lease.epoch \in Nat
  <2>1. IInv /\ TypeOK
    BY DEF SInv, IInv, Placed
  <2> QED BY <2>1, Parts, Basics, JournalAssumption
<1>1. /\ prepared' = [prepared EXCEPT ![n] = NoBase] /\ committed' = committed
      /\ \A m \in Eligible : prepared'[m] = prepared[m] \/ prepared'[m] = NoBase
  <2>1. prepared' = [prepared EXCEPT ![n] = NoBase] /\ committed' = committed
    BY DEF Adopt
  <2>2. prepared \in [Eligible -> Base]
    BY <1>0 DEF Takes
  <2> QED BY <2>1, <2>2
<1>2. ASSUME NEW r \in JobRec, r.asked = {}, r.base = NoBase,
             job' = [job EXCEPT ![n][k] = r],
             UNCHANGED <<replicas, writer, acting, call, net, sealed, lost, late>>
      PROVE  SInv'
  <2>1. UNCHANGED <<log, writer, call, net, sealed, lost, committed>>
    BY <1>1, <1>2 DEF replicas
  <2>2. lease'.epoch >= lease.epoch
    OBVIOUS
  <2> QED BY <1>1, <1>2, <2>1, <2>2, SetJob
<1>3. NoJob \in JobRec /\ NoJob.asked = {} /\ NoJob.base = NoBase
  BY Empties DEF NoJob
<1>4. CASE /\ Idle(n, k)
           /\ UNCHANGED <<replicas, writer, acting, call, net, sealed, lost, late>>
  BY <1>2, <1>3, <1>4 DEF Idle
<1>5. CASE prepared[n] # NoBase /\ AdoptTerm(n, k, prepared[n], e, f)
  <2>1. PICK b \in Base : b = prepared[n] /\ BaseOK(b)
    BY <1>0 DEF Takes
  <2>2. AdoptTerm(n, k, b, e, f)
    BY <1>5, <2>1 DEF AdoptTerm
  <2>3. mark[n] <= e
    <3>1. mark[n] \in Nat /\ mark[n] <= lease.epoch
      BY <1>0 DEF World
    <3> QED BY <1>0, <3>1
  <2>4. Entries(b.log) \subseteq Everywhere
    BY <2>1, Somewhere
  <2>5. ASSUME NEW c \in 1..sealed, NEW t \in Nat \ {0}, NEW s \in Nat \ {0},
               NEW Q \in SUBSET Node, Safe(c, t, s, Q)
        PROVE  AtLeast(b.log, t, s)
    BY <1>5, <2>1, <2>5 DEF Safe, SafeReads
  <2> QED BY <1>1, <2>1, <2>2, <2>3, <2>4, <2>5, AdoptTermStep
<1>6. CASE /\ job' = [job EXCEPT ![n][k] = [NoJob EXCEPT !.st = "reread", !.epoch = e]]
           /\ UNCHANGED <<replicas, writer, acting, call, net, sealed, lost, late>>
  <2>1. PICK r : r = [NoJob EXCEPT !.st = "reread", !.epoch = e]
    OBVIOUS
  <2>2. r \in JobRec /\ r.base = NoBase /\ r.asked = {}
    BY <1>3, <2>1 DEF JobRec
  <2> QED BY <1>2, <1>6, <2>1, <2>2
<1> QED BY <1>4, <1>5, <1>6 DEF Adopt

LEMMA AcquireStep ==
    ASSUME SInv, IInv', NEW n \in Eligible, Acquire(n)
    PROVE  SInv'
<1>0. Takes /\ lease.epoch \in Nat /\ n # NoNode /\ "take" \in Job
  <2>1. IInv /\ TypeOK
    BY DEF SInv, IInv, Placed
  <2> QED BY <2>1, Parts, Basics, JournalAssumption
<1>1. PICK e : /\ e = lease.epoch + 1 \/ (lease.holder = n /\ e = lease.epoch)
               /\ lease' = [holder |-> n, epoch |-> e]
               /\ Adopt(n, "take", e, [fence EXCEPT ![n] = e])
  BY DEF Acquire
<1>2. e \in Nat \ {0} /\ e >= lease.epoch /\ lease'.epoch = e
  <2>1. CASE e = lease.epoch + 1
    BY <1>0, <1>1, <2>1
  <2>2. CASE lease.holder = n /\ e = lease.epoch
    BY <1>0, <1>1, <2>2 DEF Takes
  <2> QED BY <1>1, <2>1, <2>2
<1>3. PICK f : f = [fence EXCEPT ![n] = e]
  OBVIOUS
<1>4. Adopt(n, "take", e, f)
  BY <1>1, <1>3
<1> QED BY <1>0, <1>2, <1>4, AdoptStep

LEMMA RefreshStep ==
    ASSUME SInv, IInv', NEW n \in Eligible, NEW k \in Job, Refresh(n, k)
    PROVE  SInv'
<1>0. Takes /\ lease.epoch \in Nat
  <2>1. IInv /\ TypeOK
    BY DEF SInv, IInv, Placed
  <2> QED BY <2>1, Parts, Basics
<1>1. fence[n] # 0 /\ Adopt(n, k, fence[n], fence) /\ lease' = lease
  BY DEF Refresh
<1>2. PICK e \in Nat \ {0} : e = fence[n] /\ e = lease.epoch
  BY <1>0, <1>1 DEF Takes
<1>3. PICK f : f = fence
  OBVIOUS
<1>4. Adopt(n, k, e, f)
  BY <1>1, <1>2, <1>3 DEF Adopt, AdoptTerm, GiveUp
<1> QED BY <1>0, <1>1, <1>2, <1>4, AdoptStep
-----------------------------------------------------------------------------
(* Theorems *)

LEMMA SurvivalStep ==
    ASSUME SInv, Next
    PROVE  SInv'
<1>0. IInv'
  BY StepInv DEF SInv
<1>1. CASE \E n \in Eligible : Record(n) \/ Acquire(n) \/ NoteLost(n)
                               \/ Observe(n) \/ DropFence(n) \/ Crash(n)
  BY <1>0, <1>1, RecordStep, AcquireStep, LeaseSteps, CrashStep
<1>2. CASE \E n \in Eligible, k \in Job : Restore(n, k) \/ Refresh(n, k)
  BY <1>0, <1>2, RestoreStep, RefreshStep
<1>3. CASE \E n \in Eligible, p \in Node, k \in Job : Export(n, k, p)
  BY <1>0, <1>3, ExportStep
<1>4. CASE \E d \in net : Deliver(d)
  BY <1>0, <1>4, DeliverStep
<1>5. CASE \E i \in Open, p \in Node : Resend(i, p)
  BY <1>0, <1>5, ResendStep
<1>6. CASE \E i \in Open :
              \E seen \in IF "lost" \in Extra THEN SUBSET Answered(i) ELSE {Answered(i)} :
                  StartReturns(i, seen) \/ RecordReturns(i, seen) \/ SnapshotReturns(i, seen)
  <2>1. PICK i \in Open :
           \E seen \in SUBSET Node :
               StartReturns(i, seen) \/ RecordReturns(i, seen) \/ SnapshotReturns(i, seen)
    BY <1>6 DEF Answered
  <2>2. PICK seen \in SUBSET Node :
           StartReturns(i, seen) \/ RecordReturns(i, seen) \/ SnapshotReturns(i, seen)
    BY <2>1
  <2> QED BY <1>0, <2>2, StartReturnsStep, RecordReturnsStep, SnapshotReturnsStep
<1> QED BY <1>1, <1>2, <1>3, <1>4, <1>5, <1>6 DEF Next

LEMMA SurvivalInit ==
    ASSUME Init
    PROVE  SInv
<1>1. IInv
  BY InitInv
<1>2. /\ \A n \in Node : log[n] = <<>>
      /\ \A n \in Eligible : prepared[n] = NoBase
      /\ \A n \in Eligible, k \in Job : job[n][k] = NoJob
      /\ \A v \in Id : writer[v] = NoWriter
      /\ \A i \in Id : call[i] = NoCall
      /\ net = {} /\ committed = {} /\ lost = {}
  BY DEF Init
<1>3. /\ NoBase.log = <<>> /\ NoBase.count = 0 /\ NoJob.base = NoBase /\ NoJob.asked = {}
      /\ NoWriter.epoch = 0 /\ ~NoCall.open
  BY DEF NoBase, NoJob, NoWriter, NoCall
<1>4. Everywhere = {}
  <2>1. OnDisk = {}
    BY <1>2, EntriesFew DEF OnDisk
  <2>2. Restored = {}
    BY <1>2, <1>3, EntriesFew DEF Restored
  <2>3. \A n \in Eligible : ReadBy(n) = {}
    BY <1>2, <1>3, EntriesFew DEF ReadBy
  <2>4. BeingRead = {}
    BY <2>3 DEF BeingRead
  <2>5. InNetwork = {}
    BY <1>2 DEF InNetwork
  <2> QED BY <2>1, <2>2, <2>4, <2>5 DEF Everywhere
<1>5. HistOK
  <2>1. \A i \in Id : CallOK(i)
    BY <1>2, <1>3 DEF CallOK
  <2>2. \A v \in Id : ~(writer[v].epoch > 0)
    BY <1>2, <1>3
  <2> QED BY <1>2, <1>4, <2>1, <2>2 DEF HistOK
<1>6. TopOK
  BY <1>2, <1>3 DEF TopOK, Top
<1>7. ReadsOK
  BY <1>2, <1>3, FS_EmptySet DEF ReadsOK
<1>8. OnceOK /\ SafeOK
  BY <1>2 DEF OnceOK, SafeOK
<1> QED BY <1>1, <1>5, <1>6, <1>7, <1>8 DEF SInv

\* SInv holds in every reachable state: besides IInv it says that the writer of
\* the newest epoch, while it is the only one of it, is followed by the replicas
\* that acknowledged its changes; that a restore has counted each replica once;
\* and that a majority, every writer of a newer term and every restore that has
\* met the majority are at or past each change committed in quiet times.
THEOREM SurvivalInvariant == Spec => []SInv
<1>1. Init => SInv
  BY SurvivalInit
<1>2. SInv /\ [Next]_vars => SInv'
  <2>1. ASSUME SInv, UNCHANGED vars PROVE SInv'
    <3>1. IInv'
      BY <2>1, StutterInv DEF SInv
    <3> QED BY <2>1, <3>1, StutterStep
  <2> QED BY <2>1, SurvivalStep
<1> QED BY <1>1, <1>2, PTL DEF Spec

\* A change that record() reported as committed, by the only term of the newest
\* epoch and with no takeover under way, is in the log that every later Main
\* adopts (restoreMainState over a majority, then MainJournal.beginTerm),
\* whatever crashes, lost answers, late deliveries and compactions come between.
THEOREM QuietCommitsNeverLost == Spec => []QuietCommitsSurvive
<1>1. SInv => QuietCommitsSurvive
  <2> SUFFICES ASSUME SInv, NEW c \in committed, c.clean, c.id \in lost PROVE FALSE
    BY DEF QuietCommitsSurvive
  <2>1. PICK d \in committed : d.kind = "change" /\ d.id = c.id
    BY DEF SInv, OnceOK, Changes
  <2>2. d = c
    BY <2>1 DEF SInv, OnceOK
  <2> QED BY <2>1, <2>2 DEF SInv, SafeOK
<1> QED BY <1>1, SurvivalInvariant, PTL

\* A change that record() reported as committed in quiet times can be replayed
\* from the files of a majority ever after: no compaction, no replacement of a
\* whole log and no restart takes it from them (JournalReplica.append, compact).
THEOREM QuietCommitsOnDisk == Spec => []QuietCommitsHeld
<1>1. SInv => QuietCommitsHeld
  <2> SUFFICES ASSUME SInv, NEW c \in committed, c.clean, c.kind = "change"
               PROVE  Cardinality({n \in Node : c.id \in Replay(log[n])}) >= Quorum
    BY DEF QuietCommitsHeld
  <2> DEFINE held == {n \in Node : c.id \in Replay(log[n])}
  <2>1. World /\ IsFiniteSet(Node) /\ Quorum \in Nat
    <3>1. World /\ IsFiniteSet(Node)
      BY Parts, JournalAssumption DEF SInv
    <3>2. Cardinality(Node) \in Nat
      BY <3>1, FS_CardinalityType
    <3> QED BY <3>1, <3>2 DEF Quorum
  <2>2. PICK e \in Nat \ {0}, s \in Nat \ {0}, Q \in SUBSET Node : Safe(c.id, e, s, Q)
    BY DEF SInv, SafeOK
  <2>3. ASSUME NEW q \in Q PROVE q \in held
    <3>1. log[q] \in Seq(Entry) /\ Chain(log[q]) /\ Entries(log[q]) \subseteq Everywhere
      BY <2>1, Somewhere DEF World, LogsRestart
    <3>2. AtLeast(log[q], e, s) /\ SafeEntries(c.id, e, s)
      BY <2>2 DEF Safe
    <3>3. c.id \in Replay(log[q])
      BY <3>1, <3>2, Walk
    <3> QED BY <3>3
  <2>4. IsFiniteSet(held) /\ Cardinality(Q) <= Cardinality(held)
    <3>1. held \subseteq Node /\ Q \subseteq held
      BY <2>3
    <3> HIDE DEF held
    <3>2. IsFiniteSet(held)
      BY <2>1, <3>1, FS_Subset
    <3> QED BY <3>1, <3>2, FS_Subset
  <2>5. Cardinality(Q) >= Quorum /\ Cardinality(Q) \in Nat /\ Cardinality(held) \in Nat
    <3>1. IsFiniteSet(Q)
      BY <2>1, FS_Subset
    <3> QED BY <2>2, <2>4, <3>1, FS_CardinalityType DEF Safe
  <2> HIDE DEF held
  <2>6. Cardinality(held) >= Quorum
    BY <2>1, <2>4, <2>5
  <2> QED BY <2>6 DEF held
<1> QED BY <1>1, SurvivalInvariant, PTL
=============================================================================
