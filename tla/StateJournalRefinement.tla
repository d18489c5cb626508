----------------------- MODULE StateJournalRefinement -----------------------
(***************************************************************************)
(* Proof that the journal implements DurableChanges: every term begins with *)
(* all that was committed in quiet times, every step of the journal is a    *)
(* step of DurableChanges or none.                                          *)
(***************************************************************************)
EXTENDS StateJournalSurvival

Begun == {v \in Id : writer[v].epoch > 0}

\* Steps that leave the writers' terms and states alone.
LEMMA KnownKept ==
    ASSUME SameWriters
    PROVE  Known' = Known
<1>1. Begun' = Begun
  BY DEF Begun, SameWriters
<1>2. Known = [w \in Begun |-> writer[w].has] /\ Known' = [w \in Begun' |-> writer'[w].has]
  BY DEF Known, Begun
<1>3. \A w \in Begun : writer'[w].has = writer[w].has
  BY DEF Begun, SameWriters
<1> QED BY <1>1, <1>2, <1>3

LEMMA StepRests ==
    ASSUME SameWriters, committed' = committed
    PROVE  UNCHANGED DC!vars
BY KnownKept DEF DC!vars, Promised

\* A commit in quiet times promises a change of the term that made it.
LEMMA CommitMaps ==
    ASSUME SInv, NEW i \in Open, SameWriters, Commit(i)
    PROVE  [DC!Next]_(DC!vars)
<1>1. /\ i \in Id /\ call[i].open /\ call[i].w \in Id /\ writer[call[i].w].epoch > 0
  <2>1. IInv /\ lease.epoch \in Nat
    BY Kinds DEF SInv
  <2>2. Writes(call[i].w, writer[call[i].w].by) /\ call[i].w \in Id
    BY <2>1, Caller
  <2> QED BY <2>1, <2>2, Caller DEF Writes
<1>2. Known' = Known
  BY KnownKept
<1> DEFINE c == [id |-> i, kind |-> call[i].kind, clean |-> Undisturbed(call[i].w)]
<1>3. committed' = committed \cup {c} /\ c.id = i /\ c.kind = call[i].kind
  BY DEF Commit
<1> HIDE DEF c
<1>4. CASE c.clean /\ c.kind = "change"
  <2>1. Promised' = Promised \cup {i}
    BY <1>3, <1>4 DEF Promised
  <2>2. call[i].w \in DOMAIN Known /\ i \in Known[call[i].w]
    <3>1. i \in writer[call[i].w].has
      BY <1>1, <1>3, <1>4 DEF SInv, HistOK, CallOK
    <3>2. call[i].w \in Begun
      BY <1>1 DEF Begun
    <3> QED BY <3>1, <3>2 DEF Known, Begun
  <2>3. DC!Promise(i)
    BY <1>2, <2>1, <2>2 DEF DC!Promise
  <2> QED BY <1>1, <2>3 DEF DC!Next
<1>5. CASE ~(c.clean /\ c.kind = "change")
  <2>1. Promised' = Promised
    BY <1>3, <1>5 DEF Promised
  <2> QED BY <1>2, <2>1 DEF DC!vars
<1> QED BY <1>4, <1>5
-----------------------------------------------------------------------------
(* The steps that end a replication *)

LEMMA ReturnsMap ==
    ASSUME SInv, NEW i \in Open, NEW seen \in SUBSET Node,
           StartReturns(i, seen) \/ RecordReturns(i, seen) \/ SnapshotReturns(i, seen)
    PROVE  [DC!Next]_(DC!vars)
<1>0. IInv /\ i \in Id
  BY DEF SInv, Open
<1>1. PICK w \in Id : w = call[i].w
  BY <1>0, Caller
<1>2. committed' = committed \/ Commit(i)
  BY DEF StartReturns, RecordReturns, SnapshotReturns
<1>3. CASE StartReturns(i, seen)
  <2>1. writer' = writer \/ writer' = [writer EXCEPT ![i].fenced = @ \/ Stale(i, seen)]
    BY <1>3 DEF StartReturns
  <2>2. SameWriters
    BY <1>0, <2>1, WriterMarks
  <2> QED BY <1>2, <2>2, StepRests, CommitMaps
<1>4. CASE RecordReturns(i, seen)
  <2> DEFINE counted == [writer EXCEPT ![w].since = @ + 1]
  <2>1. \/ writer' = [writer EXCEPT ![w].fenced = TRUE] \/ writer' = counted
        \/ writer' = [counted EXCEPT ![w].fenced = TRUE]
    BY <1>1, <1>4 DEF RecordReturns
  <2>2. SameWriters
    BY <1>0, <2>1, WriterMarks
  <2> HIDE DEF counted
  <2> QED BY <1>2, <2>2, StepRests, CommitMaps
<1>5. CASE SnapshotReturns(i, seen)
  <2>1. \/ writer' = [writer EXCEPT ![w].since = 0]
        \/ writer' = [writer EXCEPT ![w].fenced = @ \/ Stale(i, seen)]
    BY <1>1, <1>5 DEF SnapshotReturns
  <2>2. SameWriters
    BY <1>0, <2>1, WriterMarks
  <2> QED BY <1>2, <2>2, StepRests, CommitMaps
<1> QED BY <1>3, <1>4, <1>5
-----------------------------------------------------------------------------
(* A change is made *)

LEMMA RecordMaps ==
    ASSUME SInv, NEW n \in Eligible, Record(n)
    PROVE  [DC!Next]_(DC!vars)
<1>0. IInv /\ World /\ Records /\ Takes /\ sealed \in Nat /\ committed' = committed
  <2>1. IInv /\ TypeOK
    BY DEF SInv, IInv, Placed
  <2> QED BY <2>1, Parts, Basics DEF Record
<1>1. PICK w \in Id : w = acting[n] /\ Writes(w, n)
  <2>1. acting[n] \in Id \cup {0} /\ acting[n] # 0
    BY <1>0 DEF Takes, Record
  <2> QED BY <1>0, <2>1 DEF Takes
<1>2. PICK x : x = Seal(n, writer[w].epoch, "change", log[n], {})
  OBVIOUS
<1>3. \/ writer' = [writer EXCEPT ![w].fenced = TRUE]
      \/ Room /\ writer' = [writer EXCEPT ![w].has = @ \cup {x.id}]
  BY <1>1, <1>2 DEF Record
<1>4. CASE writer' = [writer EXCEPT ![w].fenced = TRUE]
  <2>1. SameWriters
    BY <1>0, <1>4, WriterMarks
  <2> QED BY <1>0, <2>1, StepRests
<1>5. CASE Room /\ writer' = [writer EXCEPT ![w].has = @ \cup {x.id}]
  <2>1. x.id = sealed + 1
    BY <1>2 DEF Seal
  <2>2. x.id \in Id
    <3>1. sealed < MaxEntry
      BY <1>5 DEF Room
    <3> QED BY <1>0, <2>1, <3>1, JournalAssumption DEF Id
  <2>3. Promised' = Promised /\ x.id \notin Promised
    <3>1. \A c \in committed : c.id <= sealed
      BY DEF SInv, OnceOK
    <3>2. ~(sealed + 1 <= sealed)
      BY <1>0
    <3> QED BY <1>0, <2>1, <3>1, <3>2 DEF Promised
  <2>4. writer \in [Id -> WriterRec] /\ writer[w] \in WriterRec
    BY <1>0 DEF Records
  <2>5. /\ \A v \in Id : writer'[v].epoch = writer[v].epoch
        /\ \A v \in Id \ {w} : writer'[v] = writer[v]
        /\ writer'[w].has = writer[w].has \cup {x.id}
    BY <1>5, <2>4 DEF WriterRec
  <2>6. w \in Begun /\ Begun' = Begun
    <3>1. writer[w].epoch > 0
      <4>1. lease.epoch \in Nat
        BY <1>0, Kinds
      <4> QED BY <1>1, <4>1 DEF Writes
    <3> QED BY <2>5, <3>1 DEF Begun
  <2>7. Known = [v \in Begun |-> writer[v].has] /\ Known' = [v \in Begun' |-> writer'[v].has]
    BY DEF Known, Begun
  <2>8. Known' = [Known EXCEPT ![w] = @ \cup {x.id}]
    <3>1. Begun \subseteq Id
      BY DEF Begun
    <3> QED BY <2>5, <2>6, <2>7, <3>1
  <2>9. DC!Make(w, x.id)
    BY <2>3, <2>6, <2>7, <2>8 DEF DC!Make
  <2> QED BY <2>2, <2>9 DEF DC!Next
<1> QED BY <1>3, <1>4, <1>5
-----------------------------------------------------------------------------
(* A term begins *)

\* A log that is past every safe entry has all that was promised.
LEMMA PromisesKnown ==
    ASSUME SInv, NEW b \in Base, BaseOK(b), Entries(b.log) \subseteq Everywhere,
           \A c \in 1..sealed, t \in Nat \ {0}, s \in Nat \ {0}, Q \in SUBSET Node :
               Safe(c, t, s, Q) => AtLeast(b.log, t, s)
    PROVE  Promised \subseteq Replay(b.log)
<1> SUFFICES ASSUME NEW c \in committed, c.clean, c.kind = "change"
             PROVE  c.id \in Replay(b.log)
  BY DEF Promised
<1>1. PICK e \in Nat \ {0}, s \in Nat \ {0}, Q \in SUBSET Node : Safe(c.id, e, s, Q)
  BY DEF SInv, SafeOK
<1>2. c.id \in 1..sealed
  <2>1. World /\ sealed \in Nat /\ c.id <= sealed /\ Id \subseteq Nat /\ 0 \notin Id
    <3>1. IInv /\ TypeOK
      BY DEF SInv, IInv, Placed
    <3> QED BY <3>1, Parts, Basics DEF SInv, OnceOK
  <2>2. c.id \in Id
    BY <2>1 DEF World, CommitRec
  <2>3. c.id \in Nat /\ c.id # 0 /\ c.id <= sealed /\ sealed \in Nat
    BY <2>1, <2>2
  <2> QED BY <2>3
<1>3. AtLeast(b.log, e, s) /\ SafeEntries(c.id, e, s)
  BY <1>1, <1>2 DEF Safe
<1>4. b.log \in Seq(Entry) /\ Chain(b.log)
  BY DEF Base, BaseOK
<1> QED BY <1>3, <1>4, Walk

LEMMA AdoptTermMaps ==
    ASSUME SInv, NEW n \in Eligible, NEW k \in Job, NEW b \in Base, BaseOK(b),
           Entries(b.log) \subseteq Everywhere,
           NEW e \in Nat \ {0}, NEW f,
           AdoptTerm(n, k, b, e, f), committed' = committed,
           \A c \in 1..sealed, t \in Nat \ {0}, s \in Nat \ {0}, Q \in SUBSET Node :
               Safe(c, t, s, Q) => AtLeast(b.log, t, s)
    PROVE  [DC!Next]_(DC!vars)
<1>0. IInv /\ Records /\ sealed \in Nat
  <2>1. IInv /\ TypeOK
    BY DEF SInv, IInv, Placed
  <2> QED BY <2>1, Parts, Basics
<1>1. CASE writer' = writer
  BY <1>1, StepRests DEF SameWriters
<1>2. PICK x : x = Seal(n, e, "term", b.log, {})
  OBVIOUS
<1>3. CASE /\ Room
           /\ writer' = [writer EXCEPT ![x.id] =
                           [NoWriter EXCEPT !.by = n, !.epoch = e, !.has = Replay(b.log)]]
  <2>1. x.id = sealed + 1
    BY <1>2 DEF Seal
  <2>2. PICK w \in Id : w = x.id
    <3>1. sealed < MaxEntry
      BY <1>3 DEF Room
    <3> QED BY <1>0, <2>1, <3>1, JournalAssumption DEF Id
  <2>3. PICK r : r = [NoWriter EXCEPT !.by = n, !.epoch = e, !.has = Replay(b.log)]
    OBVIOUS
  <2>4. r.epoch = e /\ r.has = Replay(b.log)
    BY <2>3 DEF NoWriter
  <2>5. writer'[w] = r /\ \A v \in Id \ {w} : writer'[v] = writer[v]
    BY <1>0, <1>3, <2>2, <2>3 DEF Records
  <2>6. w \notin Begun
    <3>1. ASSUME w \in Begun PROVE FALSE
      <4>1. \E m \in Eligible : Writes(w, m)
        BY <3>1 DEF Begun, SInv, HistOK
      <4>2. w <= sealed
        BY <1>0, <4>1 DEF Writes
      <4> QED BY <1>0, <2>1, <2>2, <4>2
    <3> QED BY <3>1
  <2>7. Begun' = Begun \cup {w}
    <3>1. writer'[w].epoch > 0
      BY <2>4, <2>5
    <3> QED BY <2>5, <3>1 DEF Begun
  <2>8. Known = [v \in Begun |-> writer[v].has] /\ Known' = [v \in Begun' |-> writer'[v].has]
    BY DEF Known, Begun
  <2>9. Known' = [u \in DOMAIN Known \cup {w} |-> IF u = w THEN Replay(b.log) ELSE Known[u]]
    <3>1. \A v \in Begun : writer'[v].has = Known[v]
      BY <2>5, <2>6, <2>8 DEF Begun
    <3> QED BY <2>4, <2>5, <2>7, <2>8, <3>1
  <2>10. Promised \subseteq Replay(b.log) /\ Promised' = Promised
    BY PromisesKnown DEF Promised
  <2>11. DC!Begin(w, Replay(b.log))
    BY <2>6, <2>8, <2>9, <2>10 DEF DC!Begin
  <2>12. Replay(b.log) \in SUBSET Id
    BY ReplayType DEF Base
  <2> QED BY <2>11, <2>12 DEF DC!Next
<1> QED BY <1>1, <1>2, <1>3 DEF AdoptTerm

\* The log that adoptTerm is given has everything promised: a restore has met a
\* majority, and what was kept for the lease had.
LEMMA RestoreMaps ==
    ASSUME SInv, NEW n \in Eligible, NEW k \in Job, Restore(n, k)
    PROVE  [DC!Next]_(DC!vars)
<1>0. IInv /\ World /\ Takes /\ Placed /\ ReadsOK /\ n \in Node /\ lease.epoch \in Nat
  <2>1. IInv /\ Placed /\ ReadsOK /\ TypeOK
    BY DEF SInv, IInv, Placed
  <2> QED BY <2>1, Parts, Basics, JournalAssumption
<1>1. committed' = committed
  BY DEF Restore
<1>2. job[n][k] \in JobRec /\ BaseOK(job[n][k].base)
  BY <1>0 DEF Takes
<1>3. job[n][k].base \in Base /\ log[n] \in Seq(Entry)
  BY <1>0, <1>2 DEF JobRec, World
<1>4. PICK b \in Merges(job[n][k].base, n) :
        \/ writer' = writer
        \/ /\ b.count >= Quorum /\ job[n][k].st = "reread"
           /\ AdoptTerm(n, k, b, job[n][k].epoch, fence)
  BY DEF Restore
<1>5. CASE writer' = writer
  BY <1>1, <1>5, StepRests DEF SameWriters
<1>6. CASE /\ b.count >= Quorum /\ job[n][k].st = "reread"
           /\ AdoptTerm(n, k, b, job[n][k].epoch, fence)
  <2>1. PICK e \in Nat \ {0} : e = job[n][k].epoch
    <3>1. job[n][k].epoch \in 1..lease.epoch
      BY <1>0, <1>6 DEF Takes
    <3> QED BY <1>0, <3>1
  <2>2. PICK c \in Base : c = b /\ BaseOK(c)
    BY <1>0, <1>2, <1>3, MergesOK
  <2>3. PICK f : f = fence
    OBVIOUS
  <2>4. AdoptTerm(n, k, c, e, f)
    BY <1>6, <2>1, <2>2, <2>3 DEF AdoptTerm, GiveUp
  <2>5. Entries(c.log) \subseteq Everywhere
    <3>1. b.log \in {log[n], job[n][k].base.log}
      BY <1>0, <1>3, Merged
    <3> QED BY <1>0, <2>2, <3>1, Somewhere
  <2>6. ASSUME NEW i \in 1..sealed, NEW t \in Nat \ {0}, NEW s \in Nat \ {0},
               NEW Q \in SUBSET Node, Safe(i, t, s, Q)
        PROVE  AtLeast(c.log, t, s)
    <3>1. AtLeast(b.log, t, s)
      BY <1>0, <1>6, <2>6, RestoreMeets
    <3> QED BY <2>2, <3>1
  <2> QED BY <1>1, <2>2, <2>4, <2>5, <2>6, AdoptTermMaps
<1> QED BY <1>4, <1>5, <1>6

LEMMA AdoptMaps ==
    ASSUME SInv, NEW n \in Eligible, NEW k \in Job, NEW e \in Nat \ {0}, NEW f,
           Adopt(n, k, e, f)
    PROVE  [DC!Next]_(DC!vars)
<1>1. committed' = committed
  BY DEF Adopt
<1>2. CASE writer' = writer
  BY <1>1, <1>2, StepRests DEF SameWriters
<1>3. CASE prepared[n] # NoBase /\ AdoptTerm(n, k, prepared[n], e, f)
  <2>1. PICK b \in Base : b = prepared[n] /\ BaseOK(b)
    BY Parts DEF SInv, Takes
  <2>2. AdoptTerm(n, k, b, e, f)
    BY <1>3, <2>1 DEF AdoptTerm
  <2>3. Entries(b.log) \subseteq Everywhere
    BY <2>1, Somewhere
  <2>4. ASSUME NEW c \in 1..sealed, NEW t \in Nat \ {0}, NEW s \in Nat \ {0},
               NEW Q \in SUBSET Node, Safe(c, t, s, Q)
        PROVE  AtLeast(b.log, t, s)
    BY <1>3, <2>1, <2>4 DEF Safe, SafeReads
  <2> QED BY <1>1, <2>1, <2>2, <2>3, <2>4, AdoptTermMaps
<1> QED BY <1>2, <1>3 DEF Adopt

LEMMA AcquireMaps ==
    ASSUME SInv, NEW n \in Eligible, Acquire(n)
    PROVE  [DC!Next]_(DC!vars)
<1>0. Takes /\ lease.epoch \in Nat /\ n # NoNode /\ "take" \in Job
  <2>1. IInv /\ TypeOK
    BY DEF SInv, IInv, Placed
  <2> QED BY <2>1, Parts, Basics, JournalAssumption
<1>1. PICK e : /\ e = lease.epoch + 1 \/ (lease.holder = n /\ e = lease.epoch)
               /\ Adopt(n, "take", e, [fence EXCEPT ![n] = e])
  BY DEF Acquire
<1>2. e \in Nat \ {0}
  <2>1. CASE e = lease.epoch + 1
    BY <1>0, <2>1
  <2>2. CASE lease.holder = n /\ e = lease.epoch
    BY <1>0, <2>2 DEF Takes
  <2> QED BY <1>1, <2>1, <2>2
<1>3. PICK f : f = [fence EXCEPT ![n] = e]
  OBVIOUS
<1>4. Adopt(n, "take", e, f)
  BY <1>1, <1>3
<1> QED BY <1>0, <1>2, <1>4, AdoptMaps

LEMMA RefreshMaps ==
    ASSUME SInv, NEW n \in Eligible, NEW k \in Job, Refresh(n, k)
    PROVE  [DC!Next]_(DC!vars)
<1>1. fence[n] # 0 /\ Adopt(n, k, fence[n], fence)
  BY DEF Refresh
<1>2. PICK e \in Nat \ {0} : e = fence[n]
  BY <1>1, Parts DEF SInv, Takes
<1>3. PICK f : f = fence
  OBVIOUS
<1>4. Adopt(n, k, e, f)
  BY <1>1, <1>2, <1>3 DEF Adopt, AdoptTerm, GiveUp
<1> QED BY <1>4, AdoptMaps
-----------------------------------------------------------------------------
(* The refinement *)

LEMMA StepMaps ==
    ASSUME SInv, [Next]_vars
    PROVE  [DC!Next]_(DC!vars)
<1>1. CASE writer' = writer /\ committed' = committed
  BY <1>1, StepRests DEF SameWriters
<1>2. CASE \E n \in Eligible : Record(n) \/ Acquire(n) \/ NoteLost(n)
                               \/ Observe(n) \/ DropFence(n) \/ Crash(n)
  <2>1. PICK n \in Eligible : Record(n) \/ Acquire(n) \/ NoteLost(n)
                              \/ Observe(n) \/ DropFence(n) \/ Crash(n)
    BY <1>2
  <2>2. CASE NoteLost(n) \/ Observe(n) \/ DropFence(n) \/ Crash(n)
    BY <1>1, <2>2 DEF NoteLost, Observe, DropFence, Crash, history
  <2> QED BY <2>1, <2>2, RecordMaps, AcquireMaps
<1>3. CASE \E n \in Eligible, k \in Job : Restore(n, k) \/ Refresh(n, k)
  BY <1>3, RestoreMaps, RefreshMaps
<1>4. CASE \/ \E n \in Eligible, p \in Node, k \in Job : Export(n, k, p)
           \/ \E d \in net : Deliver(d)
           \/ \E i \in Open, p \in Node : Resend(i, p)
           \/ UNCHANGED vars
  BY <1>1, <1>4 DEF Export, Deliver, Resend, vars, history
<1>5. CASE \E i \in Open :
              \E seen \in IF "lost" \in Extra THEN SUBSET Answered(i) ELSE {Answered(i)} :
                  StartReturns(i, seen) \/ RecordReturns(i, seen) \/ SnapshotReturns(i, seen)
  <2>1. PICK i \in Open :
           \E seen \in SUBSET Node :
               StartReturns(i, seen) \/ RecordReturns(i, seen) \/ SnapshotReturns(i, seen)
    BY <1>5 DEF Answered
  <2> QED BY <2>1, ReturnsMap
<1> QED BY <1>2, <1>3, <1>4, <1>5 DEF Next

\* However replicas, writers and takeovers interleave, crash and lose messages,
\* the journal is a series of terms, each of which begins with every change that
\* record() reported as committed in quiet times (state-journal.ts, succession.ts).
THEOREM ImplementsDurable == Spec => ImplementsDurableChanges
<1>1. Init => DC!Init
  <2> SUFFICES ASSUME Init PROVE DC!Init
    OBVIOUS
  <2>1. Begun = {}
    BY DEF Init, Begun, NoWriter
  <2>2. DOMAIN Known = {}
    BY <2>1 DEF Known, Begun
  <2>3. Promised = {}
    BY DEF Init, Promised
  <2> QED BY <2>2, <2>3 DEF DC!Init
<1>2. SInv /\ [Next]_vars => [DC!Next]_(DC!vars)
  BY StepMaps
<1> QED BY <1>1, <1>2, SurvivalInvariant, PTL DEF Spec, ImplementsDurableChanges, DC!Spec
=============================================================================
