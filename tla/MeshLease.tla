------------------------------ MODULE MeshLease ------------------------------
(***************************************************************************)
(* Leadership of one exclusive service (nova-main) under the transactional *)
(* coordinator: the lease row and its RPCs (sql/mesh-coordination-v4.sql,  *)
(* -v5.sql) and the processes that acquire, renew, adopt, drop and hand    *)
(* back the lease (src/mesh/leader-election.ts, src/mesh/fence.ts in       *)
(* enforce mode).                                                          *)
(*                                                                         *)
(* Time is relative: `left` is the time until a deadline and `age` the     *)
(* time since a request was started; Tick moves all of them together, so   *)
(* clocks run at one rate but need not agree.  A process instance runs at  *)
(* most once: a restart is another element of Proc on the same node, which *)
(* is what LOCAL_INSTANCE_ID makes of it.  Every request may be lost, may  *)
(* be given up by its caller and still reach the coordinator later, and    *)
(* every reply may be lost.                                                *)
(***************************************************************************)
EXTENDS Integers, FiniteSets

CONSTANTS Proc,         \* process instances
          NoProc,       \* not a process: the holder of an absent row
          Node,         \* mesh nodes
          NodeOf,       \* the node a process instance runs on
          Strongest,    \* the node nodeStrength ranks first
          TTL,          \* lease time (90 s in the code)
          Margin,       \* safety margin (10 s in the code)
          MaxEpoch,     \* bound: epochs a run may issue
          MaxOpen,      \* bound: calls and requests under way at once
          Extra         \* bound: the side stories a run follows

ASSUME LeaseAssumption ==
    /\ NoProc \notin Proc
    /\ NodeOf \in [Proc -> Node]
    /\ Strongest \in Node
    /\ TTL \in Nat \ {0}
    /\ Margin \in Nat
    /\ MaxEpoch \in Nat /\ MaxOpen \in Nat
    /\ Extra \subseteq {"start", "delete", "work", "write", "shutdown"}

VARIABLES
    lease,        \* the row of nova_mesh_leases: holder, epoch, time left
    epochSeq,     \* nova_mesh_epoch_seq
    writerEpoch,  \* writer_epoch of one fenced shared-memory row, 0 = NULL
    up,           \* process instances: "off", "up", "gone"
    held,         \* fence.ts held: the adopted fence and the armed deadline
    renewing,     \* leader-election.ts renewTimers
    watching,     \* leader-election.ts takeoverTimers
    misses,       \* leader-election.ts renewalMisses
    work,         \* epoch an in-flight fenced operation is bound to, 0 = none
    call,         \* acquireServiceLease calls awaiting their result
    release,      \* yieldServiceLeadership call awaiting its result
    strays,       \* requests that may still arrive after their caller gave up
    writes,       \* fenced upserts in the network
    grants,       \* history: every term the coordinator ever gave out
    ended         \* history: epochs ended before their time ran out

coordinator == <<lease, epochSeq, writerEpoch>>
local == <<held, renewing, watching, misses, work>>
history == <<grants, ended>>
vars == <<lease, epochSeq, writerEpoch, up, held, renewing, watching, misses,
          work, call, release, strays, writes, grants, ended>>

Kind == {"start", "watch", "renew"}
Time == 0..TTL
Call == [st : {"idle", "get", "rpc", "granted", "other"}, age : Time, epoch : Nat]
Release == [st : {"idle", "sent", "done", "refused"}, epoch : Nat]
Fence == [epoch : Nat, left : Time, alarm : Time]
Term == [epoch : Nat, to : Proc]

NoRow == [holder |-> NoProc, epoch |-> 0, left |-> 0]
NoFence == [epoch |-> 0, left |-> 0, alarm |-> 0]
NoCall == [st |-> "idle", age |-> 0, epoch |-> 0]
NoRelease == [st |-> "idle", epoch |-> 0]

\* The parameters of a process's own requests.
AcquireBy(p) == [op |-> "acquire", by |-> p, epoch |-> 0]
ReleaseBy(p, e) == [op |-> "release", by |-> p, epoch |-> e]

TypeOK ==
    /\ lease \in [holder : Proc \cup {NoProc}, epoch : Nat, left : Time]
    /\ epochSeq \in Nat
    /\ writerEpoch \in Nat
    /\ up \in [Proc -> {"off", "up", "gone"}]
    /\ held \in [Proc -> Fence]
    /\ renewing \in [Proc -> BOOLEAN]
    /\ watching \in [Proc -> BOOLEAN]
    /\ misses \in [Proc -> 0..2]
    /\ work \in [Proc -> Nat]
    /\ call \in [Proc -> [Kind -> Call]]
    /\ release \in [Proc -> Release]
    /\ strays \in SUBSET [op : {"acquire", "release"}, by : Proc, epoch : Nat]
    /\ writes \in SUBSET Term
    /\ grants \in SUBSET Term
    /\ ended \in SUBSET Nat

Init ==
    /\ lease = NoRow /\ epochSeq = 0 /\ writerEpoch = 0
    /\ up = [p \in Proc |-> "off"]
    /\ held = [p \in Proc |-> NoFence]
    /\ renewing = [p \in Proc |-> FALSE]
    /\ watching = [p \in Proc |-> FALSE]
    /\ misses = [p \in Proc |-> 0]
    /\ work = [p \in Proc |-> 0]
    /\ call = [p \in Proc |-> [k \in Kind |-> NoCall]]
    /\ release = [p \in Proc |-> NoRelease]
    /\ strays = {} /\ writes = {} /\ grants = {} /\ ended = {}

-----------------------------------------------------------------------------
(* Time                                                                    *)

Less(t) == IF t = 0 THEN 0 ELSE t - 1
Older(c) == IF c.st \in {"idle", "other"} \/ c.age = TTL THEN c ELSE [c EXCEPT !.age = c.age + 1]

Tick ==
    /\ lease' = [lease EXCEPT !.left = Less(lease.left)]
    /\ held' = [p \in Proc |-> [held[p] EXCEPT !.left = Less(held[p].left),
                                               !.alarm = Less(held[p].alarm)]]
    /\ call' = [p \in Proc |-> [k \in Kind |-> Older(call[p][k])]]
    /\ UNCHANGED <<epochSeq, writerEpoch, up, renewing, watching, misses, work,
                   release, strays, writes, grants, ended>>

-----------------------------------------------------------------------------
(* The coordinator: each RPC is one transaction on the lease row.          *)

\* A renewal needs the same node and instance and a live lease.
Renews(p) == lease.holder = p /\ lease.left > 0

\* Fault: a takeover already inside the safety margin.
MayTakeInMargin(p) == lease.holder = p \/ lease.left <= Margin

\* The upsert touches the row only for its own holder or once it expired.
MayTake(p) == lease.holder = p \/ lease.left = 0

\* Fault: the epoch is counted from the row, as before the sequence existed.
TermEpochFromRow(p) == IF Renews(p) THEN lease.epoch ELSE lease.epoch + 1

\* A new term draws the next value of the sequence.  The code draws one for
\* every attempt; only their order matters, so the gaps are left out.
TermEpoch(p) == IF Renews(p) THEN lease.epoch ELSE epochSeq + 1

AcquireRow(p) ==
    IF MayTake(p)
    THEN /\ TermEpoch(p) <= MaxEpoch
         /\ lease' = [holder |-> p, epoch |-> TermEpoch(p), left |-> TTL]
         /\ epochSeq' = IF Renews(p) THEN epochSeq ELSE epochSeq + 1
         /\ grants' = grants \cup {[epoch |-> TermEpoch(p), to |-> p]}
         /\ UNCHANGED <<writerEpoch, ended>>
    ELSE UNCHANGED <<lease, epochSeq, writerEpoch, grants, ended>>

\* Fault: the release does not compare the epoch.
ReleasesAnyTerm(p, e) ==
    /\ lease.holder # NoProc /\ NodeOf[lease.holder] = NodeOf[p]
    /\ lease.left > 0

\* nova_release_service_lease compares node and epoch, not the instance.
Releases(p, e) ==
    /\ lease.holder # NoProc /\ NodeOf[lease.holder] = NodeOf[p]
    /\ lease.epoch = e
    /\ lease.left > 0

ReleaseRow(p, e) ==
    IF Releases(p, e)
    THEN /\ lease' = [lease EXCEPT !.left = 0]
         /\ ended' = ended \cup {e}
         /\ UNCHANGED <<epochSeq, writerEpoch, grants>>
    ELSE UNCHANGED <<lease, epochSeq, writerEpoch, grants, ended>>

\* A database administrator deletes the row; the sequence stays.
AdminDelete ==
    /\ "delete" \in Extra /\ lease # NoRow
    /\ lease' = NoRow
    /\ ended' = IF lease.left > 0 THEN ended \cup {lease.epoch} ELSE ended
    /\ UNCHANGED <<epochSeq, writerEpoch, up, local, call, release, strays, writes, grants>>

-----------------------------------------------------------------------------
(* A process: fences and timers                                            *)

Usable(p) == held[p].epoch # 0 /\ held[p].left > 0        \* getHeldFence

\* Fault: the lease is counted from the reply.
RemainingFromReply(age) == TTL

\* acquireServiceLease counts the lease from before the request was sent.
Remaining(age) == TTL - age

\* Fault: a new term leaves in-flight work alone.
SurvivingWorkAll(p, e) == work[p]

\* adoptFence aborts the work of an earlier term before the new one shows.
SurvivingWork(p, e) == IF held[p].epoch \notin {0, e} THEN 0 ELSE work[p]

\* adoptLease, and armLeaseDeadline where the caller calls it.
Adopt(p, c, arm) ==
    /\ held' = [held EXCEPT ![p] =
           [epoch |-> c.epoch, left |-> Remaining(c.age),
            alarm |-> IF arm THEN Remaining(c.age) ELSE held[p].alarm]]
    /\ work' = [work EXCEPT ![p] = SurvivingWork(p, c.epoch)]

\* Fault: renewal stops but the cached fence stays.
DropTimersOnly(p) ==
    /\ renewing' = [renewing EXCEPT ![p] = FALSE]
    /\ misses' = [misses EXCEPT ![p] = 0]
    /\ UNCHANGED <<held, work>>

\* fenceLocally: timers, misses, fence and in-flight work go in one step.
DropFence(p) ==
    /\ held' = [held EXCEPT ![p] = NoFence]
    /\ work' = [work EXCEPT ![p] = 0]
    /\ renewing' = [renewing EXCEPT ![p] = FALSE]
    /\ misses' = [misses EXCEPT ![p] = 0]

\* What a caller that gives up leaves in the network: a request under way.
LeftBy(p, k) == IF call[p][k].st = "rpc" THEN {AcquireBy(p)} ELSE {}
LeftRelease(p) == IF release[p].st = "sent" THEN {ReleaseBy(p, release[p].epoch)} ELSE {}

\* A renewal tick whose timer is gone no longer counts, but its request does, even
\* one that is only sent when the row has been read.
VoidRenewal(p) ==
    /\ call' = [call EXCEPT ![p]["renew"] = NoCall]
    /\ strays' = strays \cup
           (IF call[p]["renew"].st \in {"get", "rpc"} THEN {AcquireBy(p)} ELSE {})

\* The end of a process: its memory is gone, its requests are not.
Exit(p) ==
    /\ up' = [up EXCEPT ![p] = "gone"]
    /\ DropFence(p)
    /\ watching' = [watching EXCEPT ![p] = FALSE]
    /\ release' = [release EXCEPT ![p] = NoRelease]
    /\ call' = [call EXCEPT ![p] = [k \in Kind |-> NoCall]]
    /\ strays' = strays \cup LeftRelease(p) \cup UNION {LeftBy(p, k) : k \in Kind}

\* Fault: a process that loses its lease does not go back on watch.
RelinquishForGood(p) == DropFence(p) /\ UNCHANGED watching

\* relinquishLeadership: the lost handlers put the process back on watch.
Relinquish(p) == DropFence(p) /\ watching' = [watching EXCEPT ![p] = TRUE]

-----------------------------------------------------------------------------
(* acquireServiceLease: read the row, then decide, then run the RPC        *)

Open == Cardinality({c \in Proc \X Kind : call[c[1]][c[2]].st # "idle"})
        + Cardinality({p \in Proc : release[p].st # "idle"})
        + Cardinality(strays) + Cardinality(writes)

Boot(p) ==
    /\ up[p] = "off" /\ Open < MaxOpen
    /\ up' = [up EXCEPT ![p] = "up"]
    /\ call' = [call EXCEPT ![p]["start"] = [NoCall EXCEPT !.st = "get"]]
    /\ UNCHANGED <<coordinator, local, release, strays, writes, history>>

\* A start call of one of the subsystems, a poll of the takeover watcher or a
\* tick of the renewal timer.
Asks(p, k) == CASE k = "start" -> "start" \in Extra
                [] k = "watch" -> watching[p]
                [] k = "renew" -> renewing[p]

Ask(p, k) ==
    /\ up[p] = "up" /\ call[p][k].st = "idle" /\ Asks(p, k)
    /\ Open < MaxOpen
    /\ call' = [call EXCEPT ![p][k] = [NoCall EXCEPT !.st = "get"]]
    /\ UNCHANGED <<coordinator, up, local, release, strays, writes, history>>

\* Fault: only the strongest node ever takes over, fresh or not.
GoesOnStrongest(p, expired, sees) ==
    \/ lease.holder = NoProc
    \/ NodeOf[lease.holder] = NodeOf[p]
    \/ expired /\ NodeOf[p] = Strongest

\* `expired` is the row's age by the reader's own wall clock, which may be
\* wrong; `sees` says whether the registry shows the strongest node as fresh.
GoesOn(p, expired, sees) ==
    \/ lease.holder = NoProc
    \/ NodeOf[lease.holder] = NodeOf[p]
    \/ expired /\ (sees => NodeOf[p] = Strongest)

Answer(st, c) == IF st = "other" THEN [NoCall EXCEPT !.st = "other"] ELSE [c EXCEPT !.st = st]

ReadRow(p, k, expired, sees) ==
    /\ call[p][k].st = "get"
    /\ call' = [call EXCEPT ![p][k] =
                   Answer(IF GoesOn(p, expired, sees) THEN "rpc" ELSE "other", @)]
    /\ UNCHANGED <<coordinator, up, local, release, strays, writes, history>>

AcquireRpc(p, k) ==
    /\ call[p][k].st = "rpc"
    /\ AcquireRow(p)
    /\ call' = [call EXCEPT ![p][k] =
                   IF MayTake(p) THEN [@ EXCEPT !.st = "granted", !.epoch = TermEpoch(p)]
                   ELSE Answer("other", @)]
    /\ UNCHANGED <<up, local, release, strays, writes>>

\* The caller gets the answer, or a timeout, an error or a lost reply: then a
\* request that was under way may still arrive.
Outcome == {"granted", "other", "failed"}

Finish(p, k, o) ==
    /\ call[p][k].st # "idle" /\ o \in {call[p][k].st, "failed"}
    /\ call' = [call EXCEPT ![p][k] = NoCall]
    /\ strays' = strays \cup LeftBy(p, k)

\* startLeaseRenewal does nothing, not even arm the deadline, when it runs.
BecomeLeader(p, k) ==
    /\ Adopt(p, call[p][k], ~renewing[p])
    /\ renewing' = [renewing EXCEPT ![p] = TRUE]

\* shouldStartExclusiveService; its callers watch when it says no.
StartReturns(p, o) ==
    /\ Finish(p, "start", o)
    /\ IF o = "granted"
       THEN BecomeLeader(p, "start") /\ UNCHANGED watching
       ELSE watching' = [watching EXCEPT ![p] = TRUE] /\ UNCHANGED <<held, renewing, work>>
    /\ UNCHANGED <<coordinator, up, misses, release, writes, history>>

\* One poll of watchForServiceLeadership.
WatchReturns(p, o) ==
    /\ Finish(p, "watch", o)
    /\ IF o = "granted"
       THEN BecomeLeader(p, "watch") /\ watching' = [watching EXCEPT ![p] = FALSE]
       ELSE UNCHANGED <<held, renewing, work, watching>>
    /\ UNCHANGED <<coordinator, up, misses, release, writes, history>>

\* Fault: misses are not counted, only the margin is watched.
ToleratesAll(p) == held[p].epoch = 0 \/ held[p].left > Margin

\* A miss is tolerated twice, and only while the margin is not reached.
Tolerates(p) == misses[p] < 2 /\ (held[p].epoch = 0 \/ held[p].left > Margin)

\* One tick of startLeaseRenewal.
RenewReturns(p, o) ==
    /\ Finish(p, "renew", o)
    /\ \/ /\ o = "granted"
          /\ Adopt(p, call[p]["renew"], TRUE)
          /\ misses' = [misses EXCEPT ![p] = 0]
          /\ UNCHANGED <<renewing, watching>>
       \/ /\ o = "failed" /\ Tolerates(p)
          /\ misses' = [misses EXCEPT ![p] = misses[p] + 1]
          /\ UNCHANGED <<held, renewing, watching, work>>
       \/ /\ o = "other" \/ (o = "failed" /\ ~Tolerates(p))
          /\ Relinquish(p)
    /\ UNCHANGED <<coordinator, up, release, writes, history>>

\* The deadline timer, which a busy event loop may run late.
DeadlineFires(p) ==
    /\ renewing[p] /\ held[p].alarm <= Margin
    /\ Relinquish(p)
    /\ VoidRenewal(p)
    /\ UNCHANGED <<coordinator, up, release, writes, history>>

-----------------------------------------------------------------------------
(* Handing the lease back                                                  *)

\* yieldServiceLeadership: a hand-back to a stronger node, or a shutdown.
Yield(p) ==
    /\ NodeOf[p] # Strongest \/ "shutdown" \in Extra
    /\ Usable(p) /\ release[p].st = "idle" /\ Open < MaxOpen
    /\ release' = [release EXCEPT ![p] = [st |-> "sent", epoch |-> held[p].epoch]]
    /\ UNCHANGED <<coordinator, up, local, call, strays, writes, history>>

ReleaseRpc(p) ==
    /\ release[p].st = "sent"
    /\ ReleaseRow(p, release[p].epoch)
    /\ release' = [release EXCEPT ![p].st =
                      IF Releases(p, release[p].epoch) THEN "done" ELSE "refused"]
    /\ UNCHANGED <<up, local, call, strays, writes>>

\* Confirmed: renewal stops and the fence goes, whatever its epoch is by now.
ReleaseReturns(p) ==
    /\ release[p].st = "done"
    /\ release' = [release EXCEPT ![p] = NoRelease]
    /\ Relinquish(p)
    /\ VoidRenewal(p)
    /\ UNCHANGED <<coordinator, up, writes, history>>

\* Refused, timed out or answered too late: the process keeps its lease.
ReleaseFails(p) ==
    /\ release[p].st # "idle"
    /\ release' = [release EXCEPT ![p] = NoRelease]
    /\ strays' = strays \cup LeftRelease(p)
    /\ UNCHANGED <<coordinator, up, local, call, writes, history>>

\* A process ends at any point: a crash, or a shutdown that is done waiting.
Crash(p) ==
    /\ up[p] = "up"
    /\ Exit(p)
    /\ UNCHANGED <<coordinator, writes, history>>

-----------------------------------------------------------------------------
(* Effects and the network                                                 *)

\* runFenced: bound to the controller of the term it started in.
BeginWork(p) ==
    /\ "work" \in Extra /\ Usable(p) /\ work[p] = 0
    /\ work' = [work EXCEPT ![p] = held[p].epoch]
    /\ UNCHANGED <<coordinator, up, held, renewing, watching, misses, call, release,
                   strays, writes, history>>

EndWork(p) ==
    /\ work[p] # 0
    /\ work' = [work EXCEPT ![p] = 0]
    /\ UNCHANGED <<coordinator, up, held, renewing, watching, misses, call, release,
                   strays, writes, history>>

\* pushSharedMemoryFenced sends the fence it holds when it starts.
SendWrite(p) ==
    /\ "write" \in Extra /\ Usable(p)
    /\ Open < MaxOpen
    /\ writes' = writes \cup {[epoch |-> held[p].epoch, to |-> p]}
    /\ UNCHANGED <<coordinator, up, local, call, release, strays, history>>

\* Fault: holder and time are compared, the epoch is not.
AcceptsHolder(w) == lease.holder = w.to /\ lease.left > 0 /\ writerEpoch <= w.epoch

\* Fault: only the row's own writer_epoch is compared.
AcceptsNotOlder(w) == writerEpoch <= w.epoch

\* nova_fenced_upsert_shared_memory, linearised by the lock on the lease row.
Accepts(w) ==
    /\ lease.holder = w.to /\ lease.epoch = w.epoch
    /\ lease.left > 0
    /\ writerEpoch <= w.epoch

WriteArrives(w) ==
    /\ w \in writes
    /\ writes' = writes \ {w}
    /\ writerEpoch' = IF Accepts(w) THEN w.epoch ELSE writerEpoch
    /\ UNCHANGED <<lease, epochSeq, up, local, call, release, strays, history>>

StrayArrives(s) ==
    /\ s \in strays
    /\ strays' = strays \ {s}
    /\ IF s.op = "acquire" THEN AcquireRow(s.by) ELSE ReleaseRow(s.by, s.epoch)
    /\ UNCHANGED <<up, local, call, release, writes>>

Lost == /\ \/ \E s \in strays : strays' = strays \ {s} /\ UNCHANGED writes
           \/ \E w \in writes : writes' = writes \ {w} /\ UNCHANGED strays
        /\ UNCHANGED <<coordinator, up, local, call, release, history>>

-----------------------------------------------------------------------------

Step(p) ==
    \/ Boot(p)
    \/ \E k \in Kind : Ask(p, k) \/ AcquireRpc(p, k)
    \/ \E k \in Kind, expired, sees \in BOOLEAN : ReadRow(p, k, expired, sees)
    \/ \E o \in Outcome : StartReturns(p, o) \/ WatchReturns(p, o) \/ RenewReturns(p, o)
    \/ DeadlineFires(p)
    \/ Yield(p) \/ ReleaseRpc(p) \/ ReleaseReturns(p) \/ ReleaseFails(p)
    \/ Crash(p) \/ BeginWork(p) \/ EndWork(p) \/ SendWrite(p)

Next ==
    \/ Tick
    \/ AdminDelete
    \/ \E p \in Proc : Step(p)
    \/ \E w \in writes : WriteArrives(w)
    \/ \E s \in strays : StrayArrives(s)
    \/ Lost

Spec == Init /\ [][Next]_vars

-----------------------------------------------------------------------------
(* Properties                                                              *)

\* Two processes never act as Main at once on their cached fences, unless the
\* term of one of them was ended early at the coordinator (a hand-back or
\* shutdown whose answer is still out or got lost, or a deleted row).
MutualExclusion ==
    \A p, q \in Proc :
        Usable(p) /\ Usable(q) /\ p # q => {held[p].epoch, held[q].epoch} \cap ended # {}

\* A cached fence is never better than the lease row behind it: as long as the
\* term was not ended early, the row still names this process and this epoch
\* and outlives the local deadline (acquireServiceLease, getHeldFence).
FenceBacked ==
    \A p \in Proc :
        Usable(p) /\ held[p].epoch \notin ended =>
            /\ lease.holder = p /\ lease.epoch = held[p].epoch
            /\ lease.left >= held[p].left

\* No epoch is ever given to two processes, across renewals, takeovers,
\* restarts, late requests and a deleted row (nova_mesh_epoch_seq).
EpochUnique ==
    \A g, h \in grants : g.epoch = h.epoch => g = h

\* Fenced work never outlives the term it started in: it is aborted before a
\* newer epoch becomes visible and together with the fence (adoptFence,
\* dropFence).
WorkBoundToTerm ==
    \A p \in Proc : work[p] # 0 => held[p].epoch = work[p]

\* A process that holds a fence renews it, and one that renews it holds one:
\* neither a fence nobody renews nor a timer without a fence stays behind.
RenewsWhatItHolds ==
    \A p \in Proc : renewing[p] <=> held[p].epoch # 0

\* A running process never goes deaf: it renews, watches for a vacancy or is
\* still waiting for its start call.
NeverDeaf ==
    \A p \in Proc :
        up[p] = "up" => renewing[p] \/ watching[p] \/ call[p]["start"].st # "idle"

\* Shared memory never takes a write from a term that is not the newest one
\* ever given out, however late the request arrives.
NewestTermWrites ==
    [][writerEpoch' # writerEpoch => \A g \in grants : g.epoch <= writerEpoch']_vars

\* A release, however late it arrives, ends no term but the sender's own, even
\* though the coordinator compares only the node and the epoch: a restarted
\* process on the same node does not lose its lease to its predecessor.
ReleaseHitsOwnTerm ==
    /\ \A p \in Proc : release[p].st = "sent" /\ Releases(p, release[p].epoch) => lease.holder = p
    /\ \A s \in strays : s.op = "release" /\ Releases(s.by, s.epoch) => lease.holder = s.by

FR == INSTANCE FencedRegister
        WITH issued <- epochSeq, owner <- lease.holder, written <- writerEpoch

\* The lease row, its sequence and the fenced upsert implement the fenced
\* register.
ImplementsRegister == FR!Spec

-----------------------------------------------------------------------------
(* What comments and documents say and the code does not keep              *)

\* "Never two Mains: only the lease holder may act" (succession.ts:23), read for
\* processes that are not in the middle of a hand-back.
OneMainWhenSettled ==
    \A p, q \in Proc :
        /\ Usable(p) /\ release[p].st = "idle"
        /\ Usable(q) /\ release[q].st = "idle"
        => p = q

\* "A weaker or stale candidate never receives the lease" (docs/MESH.md:146): a
\* term handed back by a weaker node is not followed by another weaker term
\* while a process of the strongest node is up.
HandbackReachesStronger ==
    [][/\ lease.epoch \in ended /\ NodeOf[lease.holder] # Strongest
       /\ lease'.epoch # lease.epoch
       /\ \E q \in Proc : up[q] = "up" /\ NodeOf[q] = Strongest
       => NodeOf[lease'.holder] = Strongest]_vars

-----------------------------------------------------------------------------
(* Liveness                                                                *)

Prompt(p, k) == call[p][k].age = 0

\* Timers keep firing, time passes, and the coordinator is reached promptly
\* again and again: every fetch gives up after 5 s of the 90 s lease.
Fairness ==
    /\ WF_vars(Tick) /\ WF_vars(Lost)
    /\ \A p \in Proc :
        /\ WF_vars(DeadlineFires(p))
        /\ WF_vars(ReleaseReturns(p) \/ ReleaseFails(p))
        /\ SF_vars(Ask(p, "watch"))
        /\ SF_vars(Prompt(p, "watch") /\ ReadRow(p, "watch", lease.left = 0, FALSE))
        /\ SF_vars(Prompt(p, "watch") /\ AcquireRpc(p, "watch"))
        /\ SF_vars(Prompt(p, "watch") /\ WatchReturns(p, "granted"))
        /\ WF_vars(\E o \in Outcome :
               StartReturns(p, o) \/ WatchReturns(p, o) \/ RenewReturns(p, o))

FairSpec == Spec /\ Fairness

Alone(p) == up[p] = "up" /\ \A q \in Proc \ {p} : up[q] = "gone"

\* The bound: a term is vacant and no epoch is left to give it.
EpochsUsedUp(p) == epochSeq = MaxEpoch /\ ~Renews(p)

\* A process that is the only one left becomes Main, and again whenever it has lost
\* its fence, whatever lease, calls, requests and timers it and the others left.
StandbyTakesOver ==
    \A p \in Proc : Alone(p) ~> (Usable(p) \/ up[p] = "gone" \/ EpochsUsedUp(p))

=============================================================================
