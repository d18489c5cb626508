---------------------------- MODULE StateJournal ----------------------------
(***************************************************************************)
(* The replicated Main journal (src/mesh/state-journal.ts) and the takeover *)
(* of a Main around it (src/mesh/succession.ts, succession-runtime.ts):     *)
(* replicas with a chained log and a high-water mark, the writer that       *)
(* appends locally, replicates and counts copies, the restore of a new Main *)
(* from the exports of a majority, and the lease that hands out epochs.     *)
(*                                                                         *)
(* An entry is its header; `id` stands for the MAC of the sealed entry, so  *)
(* two entries are never equal by chance, and `prev` for the hash of the    *)
(* predecessor.  Every entry is authentic (the key is shared by the main    *)
(* nodes only).  The lease is what WitnessQuorum and MeshLease promise: one *)
(* fence at a time, epochs that rise; a node that keeps its lease over a    *)
(* restart may get its epoch again.                                         *)
(***************************************************************************)
EXTENDS Integers, FiniteSets, Sequences

CONSTANTS Node,           \* mesh.succession.mainNodes: every node with a replica
          Eligible,       \* those whose owner lets them become Main
          NoNode,         \* not a node
          Job,            \* adoptions a node may have under way at once
          SnapshotEvery,  \* committed changes until the writer takes a snapshot
          MaxEpoch,       \* bound: epochs the lease hands out
          MaxEntry,       \* bound: entries sealed in a run
          MaxOpen,        \* bound: replications awaiting their result
          MaxReads,       \* bound: restores begun and not adopted
          Extra           \* bound: the side stories a run follows

ASSUME JournalAssumption ==
    /\ IsFiniteSet(Node) /\ Eligible \subseteq Node /\ NoNode \notin Node
    /\ "take" \in Job /\ Job \subseteq {"take", "bound", "refresh"}
    /\ SnapshotEvery \in Nat \ {0}
    /\ MaxEpoch \in Nat /\ MaxEntry \in Nat /\ MaxOpen \in Nat /\ MaxReads \in Nat
    /\ Extra \subseteq {"crash", "late", "lost", "observe"}

VARIABLES
    log,       \* JournalReplica.entries, on disk
    mark,      \* JournalReplica.highWaterValue, on disk
    writer,    \* StateJournalWriter objects, named by their term entry
    acting,    \* the writer a SuccessionController acts with, 0 = none
    job,       \* takeovers and adoptions under way on a node
    prepared,  \* succession-runtime.ts prepared: a restore not yet adopted
    call,      \* replicate calls awaiting their results
    net,       \* deliveries that may still arrive
    lease,     \* the coordinator's lease of nova-main: holder and last epoch
    fence,     \* epoch of the nova-main fence a node holds, 0 = none
    sealed,    \* number of entries sealed
    committed, \* history: entries with a majority, and if nothing overlapped
    lost,      \* history: committed changes missing from the log of a later term
    late       \* history: entries sealed after a newer term had a majority

vars == <<log, mark, writer, acting, job, prepared, call, net, lease, fence,
          sealed, committed, lost, late>>
replicas == <<log, mark>>
runtime == <<acting, job, prepared>>
history == <<committed, lost, late>>

Id == 1..MaxEntry
Quorum == Cardinality(Node) \div 2 + 1

Entry == [id : Id, seq : Nat \ {0}, epoch : Nat \ {0}, by : Node,
          kind : {"term", "change", "snapshot"}, prev : Nat, has : SUBSET Id]
Reply == {"none", "ok", "short", "retry", "stale", "refused"}

NoBase == [log |-> <<>>, max |-> 0, count |-> 0]
NoJob == [st |-> "idle", base |-> NoBase, asked |-> {}, epoch |-> 0, id |-> 0]
NoWriter == [by |-> NoNode, epoch |-> 0, has |-> {}, since |-> 0, fenced |-> FALSE]
NoCall == [open |-> FALSE, w |-> 0, seq |-> 0, kind |-> "term", reply |-> [n \in Node |-> "none"]]

-----------------------------------------------------------------------------
(* Logs *)

Last(l) == l[Len(l)]
LastSeq(l) == IF l = <<>> THEN 0 ELSE Last(l).seq
LastEpoch(l) == IF l = <<>> THEN 0 ELSE Last(l).epoch
LastHash(l) == IF l = <<>> THEN 0 ELSE Last(l).id
Entries(l) == {l[i] : i \in 1..Len(l)}
Larger(a, b) == IF a > b THEN a ELSE b

\* The link between an entry and its predecessor.
Follows(e, p) ==
    /\ e.seq = p.seq + 1 /\ e.prev = p.id
    /\ e.epoch >= p.epoch
    /\ e.epoch > p.epoch => e.kind = "term"

Chain(l) ==
    /\ l # <<>> => (l[1].seq = 1 /\ l[1].prev = 0) \/ (l[1].seq # 1 /\ l[1].kind = "snapshot")
    /\ \A i \in 1..Len(l) - 1 : Follows(l[i + 1], l[i])

\* Fault: the state in the snapshot is not restored.
ReplayAfter(l) ==
    LET from == {i \in 1..Len(l) : l[i].kind = "snapshot"}
        start == IF from = {} THEN 1 ELSE 1 + (CHOOSE i \in from : \A j \in from : j <= i)
    IN UNION {l[i].has : i \in start..Len(l)}

\* The changes a replayed log holds: the newest snapshot and what follows it.
Replay(l) ==
    LET from == {i \in 1..Len(l) : l[i].kind = "snapshot"}
        start == IF from = {} THEN 1 ELSE CHOOSE i \in from : \A j \in from : j <= i
    IN UNION {l[i].has : i \in start..Len(l)}

LastTermHolder(l) ==
    LET terms == {i \in 1..Len(l) : l[i].kind = "term"}
    IN IF terms = {} THEN NoNode ELSE l[CHOOSE i \in terms : \A j \in terms : j <= i].by

\* Fault: the snapshot is dropped with what it replaces.
CompactPast(l, seq) ==
    LET at == {i \in 1..Len(l) : l[i].kind = "snapshot" /\ l[i].seq <= seq}
    IN IF at = {} THEN l
       ELSE SubSeq(l, 1 + (CHOOSE i \in at : \A j \in at : j <= i), Len(l))

\* Drop everything before the newest snapshot at or below the committed seq.
Compact(l, seq) ==
    LET at == {i \in 1..Len(l) : l[i].kind = "snapshot" /\ l[i].seq <= seq}
    IN IF at = {} THEN l
       ELSE SubSeq(l, CHOOSE i \in at : \A j \in at : j <= i, Len(l))

-----------------------------------------------------------------------------
(* The replica's append: its verdict and what it stores *)

\* Fault: the hash of the predecessor is not compared.
VerdictOneUnchained(l, m, e) ==
    IF e.epoch < m THEN "stale-epoch"
    ELSE IF \E x \in Entries(l) : x.seq = e.seq /\ x.id = e.id THEN "known"
    ELSE IF \E x \in Entries(l) : x.seq = e.seq /\ x.id # e.id THEN "conflict"
    ELSE IF e.seq # LastSeq(l) + 1 THEN "gap"
    ELSE IF e.epoch > LastEpoch(l) /\ e.kind # "term" THEN "no-term"
    ELSE "stored"

VerdictOne(l, m, e) ==
    IF e.epoch < m THEN "stale-epoch"
    ELSE IF \E x \in Entries(l) : x.seq = e.seq /\ x.id = e.id THEN "known"
    ELSE IF \E x \in Entries(l) : x.seq = e.seq /\ x.id # e.id THEN "conflict"
    ELSE IF e.seq # LastSeq(l) + 1 \/ e.prev # LastHash(l) THEN "gap"
    ELSE IF e.epoch > LastEpoch(l) /\ e.kind # "term" THEN "no-term"
    ELSE "stored"

\* A replacement may extend what the replica holds of the term, never rewrite it.
Rewrites(l, m, batch) ==
    /\ LastEpoch(batch) = m
    /\ \E x \in Entries(l) : /\ x.epoch = m /\ x.seq >= batch[1].seq
                             /\ \A y \in Entries(batch) : y.seq = x.seq => y.id # x.id

VerdictAll(l, m, batch) ==
    IF LastEpoch(batch) < m THEN "stale-epoch"
    ELSE IF ~Chain(batch) THEN "invalid"
    ELSE IF \A y \in Entries(batch) : ~(y.kind = "term" /\ y.epoch = LastEpoch(batch)) THEN "no-term"
    ELSE IF Rewrites(l, m, batch) THEN "conflict"
    ELSE "stored"

\* Fault: the mark is not compared.
VerdictUnfenced(l, m, d) ==
    IF d.replace THEN VerdictAll(l, LastEpoch(d.batch), d.batch) ELSE VerdictOne(l, 0, d.batch[1])

Verdict(l, m, d) ==
    IF d.replace THEN VerdictAll(l, m, d.batch) ELSE VerdictOne(l, m, d.batch[1])

\* The log after a delivery with that verdict.
Stored(l, v, d) ==
    IF v # "stored" THEN l ELSE IF d.replace THEN d.batch ELSE Append(l, d.batch[1])

\* How the caller of replicate reads the answer.
ReplyTo(v, l, m, w, seq, replace) ==
    CASE v \in {"stored", "known"} -> IF LastSeq(l) >= seq THEN "ok" ELSE "short"
      [] v = "stale-epoch" -> IF m > writer[w].epoch THEN "stale" ELSE "refused"
      [] v = "invalid" -> "refused"
      [] OTHER -> IF replace THEN "refused" ELSE "retry"

-----------------------------------------------------------------------------
Init ==
    /\ log = [n \in Node |-> <<>>] /\ mark = [n \in Node |-> 0]
    /\ writer = [w \in Id |-> NoWriter]
    /\ acting = [n \in Eligible |-> 0]
    /\ job = [n \in Eligible |-> [k \in Job |-> NoJob]]
    /\ prepared = [n \in Eligible |-> NoBase]
    /\ call = [i \in Id |-> NoCall]
    /\ net = {}
    /\ lease = [holder |-> NoNode, epoch |-> 0]
    /\ fence = [n \in Eligible |-> 0]
    /\ sealed = 0
    /\ committed = {} /\ lost = {} /\ late = {}

-----------------------------------------------------------------------------
(* The writer: seal, append locally, send *)

Open == {i \in Id : call[i].open}
Room == sealed < MaxEntry /\ Cardinality(Open) < MaxOpen

\* Fault: the number of the last entry is used again.
SealAgain(n, e, kind, l, has) ==
    [id |-> sealed + 1, seq |-> LastSeq(l), epoch |-> e, by |-> n, kind |-> kind,
     prev |-> LastHash(l), has |-> IF kind = "change" THEN {sealed + 1} ELSE has]

Seal(n, e, kind, l, has) ==
    [id |-> sealed + 1, seq |-> LastSeq(l) + 1, epoch |-> e, by |-> n, kind |-> kind,
     prev |-> LastHash(l), has |-> IF kind = "change" THEN {sealed + 1} ELSE has]

Outdated(e) == Cardinality({n \in Node : mark[n] > e}) >= Quorum

Delivery(p, w, i, batch, replace) ==
    [to |-> p, w |-> w, id |-> i, batch |-> batch, replace |-> replace]

\* Append entry x to the local log l and open its replication.
Write(n, x, l) ==
    /\ log' = [log EXCEPT ![n] = Append(l, x)]
    /\ mark' = [mark EXCEPT ![n] = Larger(@, x.epoch)]
    /\ sealed' = x.id
    /\ late' = IF Outdated(x.epoch) THEN late \cup {x.id} ELSE late

Started(x, w) == [NoCall EXCEPT !.open = TRUE, !.w = w, !.seq = x.seq, !.kind = x.kind]
Sent(n, w, x) == {Delivery(p, w, x.id, <<x>>, FALSE) : p \in Node \ {n}}

\* SuccessionController.record
Record(n) ==
    LET w == acting[n]
        e == writer[w].epoch
        x == Seal(n, e, "change", log[n], {})
    IN  /\ w # 0 /\ ~writer[w].fenced
        /\ \/ /\ mark[n] > e
              /\ writer' = [writer EXCEPT ![w].fenced = TRUE]
              /\ acting' = [acting EXCEPT ![n] = 0]
              /\ UNCHANGED <<log, mark, call, net, sealed, late>>
           \/ /\ mark[n] <= e /\ VerdictOne(log[n], mark[n], x) = "stored"
              /\ Room
              /\ Write(n, x, log[n])
              /\ writer' = [writer EXCEPT ![w].has = @ \cup {x.id}]
              /\ call' = [call EXCEPT ![x.id] = Started(x, w)]
              /\ net' = net \cup Sent(n, w, x)
              /\ UNCHANGED acting
        /\ UNCHANGED <<job, prepared, lease, fence, committed, lost>>

\* A replica handles a delivery; deliver binds the newest entry to its sender.
Deliver(d) ==
    LET p == d.to
        v == Verdict(log[p], mark[p], d)
        l == Stored(log[p], v, d)
        m == IF v = "stored" THEN Larger(mark[p], LastEpoch(d.batch)) ELSE mark[p]
        bound == d.batch # <<>> /\ Last(d.batch).by = writer[d.w].by
    IN  /\ net' = net \ {d}
        /\ IF bound
           THEN /\ log' = [log EXCEPT ![p] = l]
                /\ mark' = [mark EXCEPT ![p] = m]
                /\ call' = IF call[d.id].open
                           THEN [call EXCEPT ![d.id].reply[p] =
                                    ReplyTo(v, l, m, d.w, call[d.id].seq, d.replace)]
                           ELSE call
           ELSE UNCHANGED <<log, mark, call>>
        /\ UNCHANGED <<writer, runtime, lease, fence, sealed, history>>

\* After a gap the writer sends the whole local log, as it is by then.
Resend(i, p) ==
    LET n == writer[call[i].w].by
    IN  /\ call[i].open /\ call[i].reply[p] = "retry"
        /\ call' = [call EXCEPT ![i].reply[p] = "none"]
        /\ net' = net \cup {Delivery(p, call[i].w, i, log[n], TRUE)}
        /\ UNCHANGED <<replicas, writer, runtime, lease, fence, sealed, history>>

-----------------------------------------------------------------------------
(* replicate returns *)

\* No takeover is under way, and every other term is an older one.  A node that gets
\* its own epoch again starts a second term of it, from logs that may branch off the
\* first: the journal compares epochs and cannot tell the two apart.
Undisturbed(w) ==
    /\ \A n \in Eligible : prepared[n] = NoBase /\ job[n] = [k \in Job |-> NoJob]
    /\ \A v \in Id \ {w} : writer[v].epoch < writer[w].epoch

\* Any answer may be lost, and a replica may be too late for the time-out.
Answered(i) == {p \in Node : call[i].reply[p] \in {"ok", "stale"}}

Acks(i, seen) == {writer[call[i].w].by} \cup {p \in seen : call[i].reply[p] = "ok"}
Stale(i, seen) == \E p \in seen : call[i].reply[p] = "stale"
Commits(i, seen) == ~Stale(i, seen) /\ Cardinality(Acks(i, seen)) >= Quorum

Commit(i) ==
    LET c == call[i]
    IN committed' = committed \cup
          {[id |-> i, kind |-> c.kind, clean |-> Undisturbed(c.w)]}

\* What is left of the call: late deliveries only where the run follows them.
Close(calls, i) ==
    /\ call' = [calls EXCEPT ![i] = NoCall]
    /\ net' = IF "late" \in Extra THEN net ELSE {d \in net : d.id # i}

StepDown(n) == acting' = [acting EXCEPT ![n] = 0]
Idle(n, k) == job' = [job EXCEPT ![n][k] = NoJob]

\* A term whose entry reached a majority is acted on, whatever happened since.
StartReturns(i, seen) ==
    LET n == writer[call[i].w].by
    IN  /\ call[i].open /\ call[i].kind = "term"
        /\ \E k \in Job :
              /\ job[n][k].st = "start" /\ job[n][k].id = i
              /\ \/ /\ Commits(i, seen)
                    /\ Commit(i)
                    /\ acting' = [acting EXCEPT ![n] = i]
                    /\ Idle(n, k)
                    /\ UNCHANGED <<writer, fence>>
                 \/ /\ ~Commits(i, seen)
                    /\ writer' = [writer EXCEPT ![i].fenced = @ \/ Stale(i, seen)]
                    /\ StepDown(n) /\ Idle(n, k)
                    /\ fence' = [fence EXCEPT ![n] = 0]
                    /\ UNCHANGED committed
        /\ Close(call, i)
        /\ UNCHANGED <<replicas, prepared, lease, sealed, lost, late>>

\* record returns; after enough committed changes the writer takes a snapshot.
RecordReturns(i, seen) ==
    LET w == call[i].w
        n == writer[w].by
        e == writer[w].epoch
        due == writer[w].since + 1 >= SnapshotEvery
        x == Seal(n, e, "snapshot", log[n], writer[w].has)
        counted == [writer EXCEPT ![w].since = @ + 1]
    IN  /\ call[i].open /\ call[i].kind = "change"
        /\ IF Commits(i, seen) THEN Commit(i) ELSE UNCHANGED committed
        /\ \/ /\ Stale(i, seen)
              /\ writer' = [writer EXCEPT ![w].fenced = TRUE]
              /\ StepDown(n) /\ Close(call, i)
              /\ UNCHANGED <<log, mark, sealed, late>>
           \/ /\ ~Stale(i, seen)
              /\ ~Commits(i, seen) \/ ~due \/ writer[w].fenced
                    \/ (mark[n] <= e /\ VerdictOne(log[n], mark[n], x) # "stored")
              /\ writer' = counted
              /\ Close(call, i)
              /\ UNCHANGED <<log, mark, sealed, late, acting>>
           \/ /\ Commits(i, seen) /\ due /\ ~writer[w].fenced
              /\ mark[n] > e
              /\ writer' = [counted EXCEPT ![w].fenced = TRUE]
              /\ StepDown(n) /\ Close(call, i)
              /\ UNCHANGED <<log, mark, sealed, late>>
           \/ /\ Commits(i, seen) /\ due /\ ~writer[w].fenced
              /\ mark[n] <= e /\ VerdictOne(log[n], mark[n], x) = "stored"
              /\ sealed < MaxEntry
              /\ Write(n, x, log[n])
              /\ writer' = counted
              /\ call' = [call EXCEPT ![i] = NoCall, ![x.id] = Started(x, w)]
              /\ net' = Sent(n, w, x) \cup
                           (IF "late" \in Extra THEN net ELSE {d \in net : d.id # i})
              /\ UNCHANGED acting
        /\ UNCHANGED <<job, prepared, lease, fence, lost>>

SnapshotReturns(i, seen) ==
    LET w == call[i].w
        n == writer[w].by
    IN  /\ call[i].open /\ call[i].kind = "snapshot"
        /\ \/ /\ Commits(i, seen)
              /\ Commit(i)
              /\ writer' = [writer EXCEPT ![w].since = 0]
              /\ log' = [log EXCEPT ![n] = Compact(@, call[i].seq)]
              /\ UNCHANGED acting
           \/ /\ ~Commits(i, seen)
              /\ writer' = [writer EXCEPT ![w].fenced = @ \/ Stale(i, seen)]
              /\ IF Stale(i, seen) /\ ~writer[w].fenced THEN StepDown(n) ELSE UNCHANGED acting
              /\ UNCHANGED <<log, committed>>
        /\ Close(call, i)
        /\ UNCHANGED <<mark, job, prepared, lease, fence, sealed, lost, late>>

-----------------------------------------------------------------------------
(* A takeover: read a majority of logs, acquire the lease, adopt the term *)

\* Fault: the length does not count.
NewerByEpoch(l, k) == LastEpoch(l) > LastEpoch(k)

\* restoreMainState keeps the log with the highest last epoch, then the longest;
\* among equals the name of the node decides.
Newer(l, k) ==
    \/ LastEpoch(l) > LastEpoch(k)
    \/ LastEpoch(l) = LastEpoch(k) /\ LastSeq(l) > LastSeq(k)

Merges(b, p) ==
    {[log |-> l,
      max |-> Larger(b.max, Larger(mark[p], LastEpoch(log[p]))),
      count |-> b.count + 1] :
        l \in IF b.count = 0 THEN {log[p]}
              ELSE {k \in {log[p], b.log} : ~Newer(log[p], k) /\ ~Newer(b.log, k)}}

\* beforeMainAcquire and adoptTerm collect the exports one peer at a time; before
\* the lease is asked for, only while the view shows no live holder elsewhere.
\* A holder without a fence may still have its lease or not.  A service bound to
\* Main ("bound") reads as nova-main does and leaves its restore for whoever adopts.
Free(n) == \A m \in Eligible \ {n} : fence[m] = 0

Restores ==
    {<<n, "held">> : n \in {x \in Eligible : prepared[x] # NoBase}} \cup
    {t \in Eligible \X Job : job[t[1]][t[2]].st \in {"read", "reread"}}
RoomToRead == Cardinality(Restores) < MaxReads

Reads(n, k) ==
    \/ job[n][k].st \in {"read", "reread"}
    \/ /\ job[n][k].st = "idle" /\ k \in {"take", "bound"} /\ fence[n] = 0 /\ Free(n)
       /\ RoomToRead

Export(n, k, p) ==
    LET j == job[n][k]
    IN  /\ Reads(n, k) /\ p \notin j.asked \cup {n}
        /\ \E b \in Merges(j.base, p) :
              job' = [job EXCEPT ![n][k] =
                         [j EXCEPT !.st = IF j.st = "idle" THEN "read" ELSE j.st,
                                   !.base = b, !.asked = j.asked \cup {p}]]
        /\ UNCHANGED <<replicas, writer, acting, prepared, call, net, lease, fence, sealed, history>>

Changes == {c.id : c \in {d \in committed : d.kind = "change"}}

\* The journal knows the epoch already, and not as this node's own term.
Refuses(n, b, e) == e < b.max \/ (e = b.max /\ LastTermHolder(b.log) # n)

GiveUp(n, k, f) == StepDown(n) /\ Idle(n, k) /\ fence' = [f EXCEPT ![n] = 0]

\* adoptTerm and beginTerm up to the await: adopt the log, write the term entry.
\* f are the fences with the one just taken.  No mark is above an epoch the lease
\* hands out, so the writer's own check of the mark never fails here.
AdoptTerm(n, k, b, e, f) ==
    LET x == Seal(n, e, "term", b.log, {})
    IN  \/ /\ Refuses(n, b, e)
           /\ GiveUp(n, k, f)
           /\ UNCHANGED <<replicas, writer, call, net, sealed, lost, late>>
        \/ /\ ~Refuses(n, b, e)
           /\ Room
           /\ Write(n, x, b.log)
           /\ writer' = [writer EXCEPT ![x.id] =
                           [NoWriter EXCEPT !.by = n, !.epoch = e, !.has = Replay(b.log)]]
           /\ call' = [call EXCEPT ![x.id] = Started(x, x.id)]
           /\ net' = net \cup Sent(n, x.id, x)
           /\ job' = [job EXCEPT ![n][k] = [NoJob EXCEPT !.st = "start", !.id = x.id]]
           /\ StepDown(n)
           /\ fence' = f
           /\ lost' = lost \cup (Changes \ Replay(b.log))

\* prepareTakeover returns: before the lease is asked for, or in adoptTerm.
Restore(n, k) ==
    \E b \in Merges(job[n][k].base, n) :
        /\ Reads(n, k)
        /\ \/ /\ b.count < Quorum /\ job[n][k].st # "reread"
              /\ StepDown(n) /\ Idle(n, k)
              /\ UNCHANGED <<replicas, writer, prepared, call, net, fence, sealed, lost, late>>
           \/ /\ b.count < Quorum /\ job[n][k].st = "reread"
              /\ GiveUp(n, k, fence)
              /\ UNCHANGED <<replicas, writer, prepared, call, net, sealed, lost, late>>
           \/ /\ b.count >= Quorum /\ job[n][k].st # "reread"
              /\ prepared' = [prepared EXCEPT ![n] = b]
              /\ Idle(n, k)
              /\ UNCHANGED <<replicas, writer, acting, call, net, fence, sealed, lost, late>>
           \/ /\ b.count >= Quorum /\ job[n][k].st = "reread"
              /\ AdoptTerm(n, k, b, job[n][k].epoch, fence)
              /\ UNCHANGED prepared
        /\ UNCHANGED <<lease, committed>>

ActsIn(n, e) == acting[n] # 0 /\ writer[acting[n]].epoch = e /\ ~writer[acting[n]].fenced

\* onMainAcquired, with the fences f that the lease layer adopted before.
Adopt(n, k, e, f) ==
    /\ prepared' = [prepared EXCEPT ![n] = NoBase]
    /\ \/ /\ ActsIn(n, e)
          /\ Idle(n, k)
          /\ fence' = f
          /\ UNCHANGED <<replicas, writer, acting, call, net, sealed, lost, late>>
       \/ /\ ~ActsIn(n, e) /\ prepared[n] # NoBase
          /\ AdoptTerm(n, k, prepared[n], e, f)
       \/ /\ ~ActsIn(n, e) /\ prepared[n] = NoBase
          /\ RoomToRead
          /\ job' = [job EXCEPT ![n][k] = [NoJob EXCEPT !.st = "reread", !.epoch = e]]
          /\ fence' = f
          /\ UNCHANGED <<replicas, writer, acting, call, net, sealed, lost, late>>
    /\ UNCHANGED committed

\* The coordinator hands out the next epoch, or the holder's own again; a node
\* that saw a live holder elsewhere asks with whatever restore it has left.
Acquire(n) ==
    /\ fence[n] = 0 /\ job[n]["take"].st = "idle" /\ Free(n)
    /\ prepared[n] = NoBase => lease.holder \notin {NoNode, n}
    /\ \E e \in {lease.epoch + 1} \cup (IF lease.holder = n THEN {lease.epoch} ELSE {}) :
          /\ e <= MaxEpoch
          /\ lease' = [holder |-> n, epoch |-> e]
          /\ Adopt(n, "take", e, [fence EXCEPT ![n] = e])

-----------------------------------------------------------------------------
(* Timers, the lease layer and the process *)

\* refresh finds a fence without an acting Main of that epoch.
Refresh(n, k) ==
    /\ fence[n] # 0 /\ job[n][k].st = "idle"
    /\ acting[n] # 0 => writer[acting[n]].epoch # fence[n]
    /\ Adopt(n, k, fence[n], fence)
    /\ UNCHANGED lease

\* refresh, or the handler of the lost lease.
NoteLost(n) ==
    /\ fence[n] = 0 /\ acting[n] # 0
    /\ StepDown(n)
    /\ UNCHANGED <<replicas, writer, job, prepared, call, net, lease, fence, sealed, history>>

\* refreshView sees a Main elsewhere.
Observe(n) ==
    /\ "observe" \in Extra
    /\ fence[n] = 0 /\ acting[n] = 0
    /\ lease.holder \notin {NoNode, n} /\ lease.epoch > mark[n]
    /\ mark' = [mark EXCEPT ![n] = lease.epoch]
    /\ UNCHANGED <<log, writer, runtime, call, net, lease, fence, sealed, history>>

DropFence(n) ==
    /\ fence[n] # 0
    /\ fence' = [fence EXCEPT ![n] = 0]
    /\ UNCHANGED <<replicas, writer, runtime, call, net, lease, sealed, history>>

\* Fault: the mark is recomputed from the entries on disk.
CrashForgetsMark(n) ==
    /\ "crash" \in Extra
    /\ mark' = [mark EXCEPT ![n] = LastEpoch(log[n])]
    /\ acting' = [acting EXCEPT ![n] = 0]
    /\ job' = [job EXCEPT ![n] = [k \in Job |-> NoJob]]
    /\ prepared' = [prepared EXCEPT ![n] = NoBase]
    /\ fence' = [fence EXCEPT ![n] = 0]
    /\ UNCHANGED <<log, writer, call, net, lease, sealed, history>>

\* The process dies; the replica file and what is in the network stay.
Crash(n) ==
    /\ "crash" \in Extra
    /\ acting' = [acting EXCEPT ![n] = 0]
    /\ job' = [job EXCEPT ![n] = [k \in Job |-> NoJob]]
    /\ prepared' = [prepared EXCEPT ![n] = NoBase]
    /\ fence' = [fence EXCEPT ![n] = 0]
    /\ call' = [i \in Id |-> IF call[i].open /\ writer[call[i].w].by = n THEN NoCall ELSE call[i]]
    /\ UNCHANGED <<replicas, writer, net, lease, sealed, history>>

Next ==
    \/ \E n \in Eligible : Record(n) \/ Acquire(n) \/ NoteLost(n)
                           \/ Observe(n) \/ DropFence(n) \/ Crash(n)
    \/ \E n \in Eligible, k \in Job : Restore(n, k) \/ Refresh(n, k)
    \/ \E n \in Eligible, p \in Node, k \in Job : Export(n, k, p)
    \/ \E d \in net : Deliver(d)
    \/ \E i \in Open, p \in Node : Resend(i, p)
    \/ \E i \in Open : \E seen \in IF "lost" \in Extra THEN SUBSET Answered(i) ELSE {Answered(i)} :
          StartReturns(i, seen) \/ RecordReturns(i, seen) \/ SnapshotReturns(i, seen)

Spec == Init /\ [][Next]_vars

-----------------------------------------------------------------------------
(* Properties *)

TypeOK ==
    /\ log \in [Node -> Seq(Entry)] /\ mark \in [Node -> Nat]
    /\ writer \in [Id -> [by : Node \cup {NoNode}, epoch : Nat, has : SUBSET Id,
                          since : Nat, fenced : BOOLEAN]]
    /\ acting \in [Eligible -> Id \cup {0}]
    /\ \A n \in Eligible, k \in Job :
          /\ job[n][k].st \in {"idle", "read", "reread", "start"}
          /\ job[n][k].epoch \in Nat /\ job[n][k].id \in Id \cup {0}
          /\ job[n][k].base.log \in Seq(Entry) /\ job[n][k].asked \subseteq Node
    /\ \A n \in Eligible : prepared[n].log \in Seq(Entry) /\ prepared[n].max \in Nat
    /\ call \in [Id -> [open : BOOLEAN, w : Id \cup {0}, seq : Nat,
                        kind : {"term", "change", "snapshot"}, reply : [Node -> Reply]]]
    /\ \A d \in net : d.to \in Node /\ d.w \in Id /\ d.id \in Id /\ d.batch \in Seq(Entry)
    /\ lease \in [holder : Node \cup {NoNode}, epoch : Nat] /\ fence \in [Eligible -> Nat]
    /\ sealed \in 0..MaxEntry
    /\ committed \subseteq [id : Id, kind : {"term", "change", "snapshot"}, clean : BOOLEAN]
    /\ lost \subseteq Id /\ late \subseteq Id

\* A replica restarts from what it wrote: the constructor refuses a log that is
\* not one chain.  The mark on disk covers the log as well, so that the constructor
\* need not raise it and no replica restarts with a mark it did not have.
LogsRestart ==
    \A n \in Node : Chain(log[n]) /\ LastEpoch(log[n]) <= mark[n]

\* The fence of a replica never falls, whatever it stores, adopts or loses.
MarksNeverFall == [][\A n \in Node : mark'[n] >= mark[n]]_vars

\* Once a majority has seen a newer term, what an old Main seals never commits.
LateNeverCommits == \A c \in committed : c.id \notin late

\* What was committed by the only term of the newest epoch while no takeover was
\* under way is in the log of every later term.
QuietCommitsSurvive == \A c \in committed : c.clean => c.id \notin lost

\* A change committed in quiet times can be replayed from a majority of the disks,
\* after every compaction, replacement of a whole log, and restart (append, compact).
QuietCommitsHeld ==
    \A c \in committed : c.clean /\ c.kind = "change" =>
        Cardinality({n \in Node : c.id \in Replay(log[n])}) >= Quorum

Promised == {c.id : c \in {d \in committed : d.clean /\ d.kind = "change"}}
Known == [w \in {v \in Id : writer[v].epoch > 0} |-> writer[w].has]

DC == INSTANCE DurableChanges
        WITH Term <- Id, Change <- Id, known <- Known, promised <- Promised

\* To those who record changes in quiet times, writers and restores are a series of
\* terms each of which begins with everything that was promised before.
ImplementsDurableChanges == DC!Spec

\* The restored log contains every committed entry.
RestoreIsComplete == lost = {}
=============================================================================
