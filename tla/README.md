# Xaventra: formal models of the mesh core

Xaventra is an assistant that runs as one daemon on each of several machines (a *mesh*). Exactly one of them is the
*Main*: it talks to the owner, runs missions and writes shared state. Everything else depends on that "exactly one", so
this project models it first: how a node becomes Main, how it notices that it no longer is, and what protects shared
state from a node that has not noticed yet.

Paths below are relative to the repository. `leader-election.ts` and its neighbours are in `src/mesh/`.

## The modules

| module | models | proved in |
| --- | --- | --- |
| `FencedRegister.tla` | the promise of a coordinator to a store behind a fencing token | (abstract) |
| `MeshLease.tla` | the Supabase lease row and its RPCs (`sql/mesh-coordination-v4.sql`, `-v5.sql`), the processes that acquire, renew, adopt, drop and hand back the lease (`leader-election.ts`, `fence.ts`), the fenced write of `src/memory/shared-memory.ts` | `MeshLeaseProofs.tla` |
| `WitnessQuorum.tla` | the other coordinator: three witnesses that vote (`quorum-witness.ts`, `witness-quorum.ts`) | `WitnessQuorumProofs.tla` |
| `StateJournal.tla` | the replicated journal of the Main (`state-journal.ts`) and the takeover around it (`succession.ts`, `succession-runtime.ts`) | `StateJournalProofs.tla`, `StateJournalSurvival.tla`, `StateJournalRefinement.tla` |
| `DurableChanges.tla` | the promise of the journal to whoever records a change in it | (abstract) |
| `MissionExecutor.tla` | the life of a mission in one process (`src/core/autonomous-executor.ts`) | `MissionExecutorProofs.tla` |
| `MCMeshLease.tla`, `MCWitnessQuorum.tla`, `MCStateJournal.tla`, `MCMissionExecutor.tla` | the small instances TLC checks | |

`MeshLease` is shown to implement `FencedRegister`: terms are issued with ever larger epochs, and a write is accepted only
from the owner of the newest one. `ImplementsRegister` is the refinement (`INSTANCE ... WITH`); it is checked by TLC and
proved by TLAPS. `WitnessQuorum` models no fenced store, so it promises epochs only (`EpochUnique`, `TermsRise`) and claims
nothing about writes. `StateJournal` implements `DurableChanges` in the same way: a term is a writer with
its state, what is promised is what committed in quiet times (see below), a new term begins with all of it.

### MeshLease

*State and code.* `lease` is the row of `nova_mesh_leases`, `epochSeq` the sequence `nova_mesh_epoch_seq`, `writerEpoch` the
column `writer_epoch` of one fenced row of shared memory. Per process: `held` is the map of `fence.ts` with the deadline
timer (`alarm`), `renewing` and `watching` are `renewTimers` and `takeoverTimers`, `misses` is `renewalMisses`, `work` the
epoch of a `runFenced` operation, `call` the pending `acquireServiceLease` calls (start, watch, renew), `release` a pending
`yieldServiceLeadership`. `strays` and `writes` are requests in the network. `grants` and `ended` are history.

*Actions.* `Boot`, `Ask`, `ReadRow`, `AcquireRpc` and the three `...Returns` are the stages of `acquireServiceLease` between
its awaits: reading the row and the takeover preference, the transactional RPC, the reply. `DeadlineFires` is
`armLeaseDeadline`, `Yield`/`ReleaseRpc`/`ReleaseReturns`/`ReleaseFails` are `yieldServiceLeadership`, `Crash` is the end of
a process with or without the release at shutdown, `BeginWork`/`EndWork` are `runFenced`, `SendWrite`/`WriteArrives` the
fenced upsert, `StrayArrives`/`Lost` late and lost requests, `AdminDelete` a row removed by hand. A renewal whose process drops
the lease in the meantime is not forgotten: its request stays in `strays`, as the code sends it after the read of the row.

*Abstractions.* One exclusive service under protocol v2 in enforce mode. Time is relative: a row, a fence and a call carry
the time until or since something, and `Tick` moves them together; clocks run at one rate but need not agree. An RPC is one
atomic step on the row. One call of a kind is pending per process, as the timers allow. A restart is another element of
`Proc` on the same node, because the code draws a new `LOCAL_INSTANCE_ID`. Sequence values an attempt draws without using
are left out: only their order matters. What a candidate sees of other nodes (`sees`, `expired`) is a nondeterministic
choice, as heartbeats of any age are possible.

### WitnessQuorum

*State and code.* `vote[w]` is the lease a witness stores for the authority service (`QuorumWitnessStore`), `highWater[n]` is
`witnessEpochHighWater` of a node's process, `ballot[c]` one call of `acquireWitnessQuorumLease` (round, proposed epoch, age
since its start, answers), `held[c]` the fence won with it. A client is one exclusive service on a node: Telegram,
dashboard and `nova-main` all ask for the same authority lease (`resolveWitnessAuthority`), so several calls of one node
run at once and share the votes and the high-water mark. `strays` are requests whose caller has given up, `terms` is
history.

*Actions.* `Ask` starts a call, `Answer` is a witness that decides (`acquire`) and is heard, `TimesOut` the fetches that give
up, whose requests may be lost, may have been served, or may still arrive (`StrayArrives`). `Wins`, `AsksAgain` and `Fails`
are the three ways `decideWitnessQuorum` goes on: a certificate, a second round that commits the largest epoch seen, or a
refusal. One ballot per service stands for its start, watch and renewal calls; only a refused renewal gives the fence
up, so `Fails` drops it or not. `RaiseFloor` is `raiseWitnessEpochFloor`, `Drop` self-fencing (its conditions are in
MeshLease), `Crash` and `Restart` lose and start the process with its in-memory mark.

*Abstractions.* A witness writes its state to disk before it answers, so its own restart changes nothing and is not an
action. Request signatures and the replay window only make fewer requests arrive. The second of reserve in a certificate
is below the unit of time. A call takes two fetch timeouts (10 s of 90 s), so time stands still during it, unless a run
follows stalls of the process (`"stall"`), in which case a call may age beyond the lease. Calls of two nodes overlap in
runs with `"race"` only, calls of services of one node always. A request to a witness of `Down` is lost at once.

### StateJournal

*State and code.* `log[n]` and `mark[n]` are `entries` and `highWaterValue` of the replica on a node (`JournalReplica`, on disk),
`writer` the `StateJournalWriter` objects, each named by its term entry, `acting[n]` the writer a `SuccessionController` acts
with. `job[n][k]` is a takeover or adoption between its awaits: reading exports (`read`), reading them again with a lease
already in hand (`reread`), waiting for the term entry (`start`). `prepared[n]` is the restore that `beforeMainAcquire`
leaves for `onMainAcquired`. `call[i]` is a pending `replicate` of entry `i`, `net` the deliveries that may still arrive.
`lease` and `fence` are the coordinator and the fences of `nova-main`. `committed`, `lost` and `late` are history.

*Actions.* `Record` is `SuccessionController.record` up to the await, `Deliver` the replica's `append` (one entry, or a
replacement of the whole log), `Resend` the second attempt after a gap, which sends the log as it is by then.
`StartReturns`, `RecordReturns` and `SnapshotReturns` are the three callers of `replicate` after the await: commit, fencing,
a due snapshot, compaction, stepping down. `Export` and `Restore` are `prepareTakeover` peer by peer, `Acquire` and
`Refresh` reach `onMainAcquired` with a new or a known epoch (`Adopt`, `AdoptTerm`), `NoteLost`, `Observe` and `DropFence` are the
reactions to the lease, `Crash` a restart with the files on disk.

*Abstractions.* `id` stands for the MAC of an entry and `prev` for the hash of its predecessor; every entry is authentic, since
only main nodes have the key. The coordinator is what the two modules above promise: one fence at a time, epochs that
rise, and a holder that restarts may be given its epoch again. `Job` names the restores and adoptions a node may have under
way at once: one of `nova-main`'s poller, one of the refresh timer, and one of a service bound to Main that asks without
a Main fence (`leader-election.ts:440-448`). The last one reads the exports as the first does and leaves what it read in
`prepared`, even after `onMainAcquired` has used the restore before it. One such slot stands for all bound services. A node's own export is merged last. An
answer that comes after the time-out is a lost answer. The epoch floor that a restore raises matters to witnesses only and
is part of what the lease promises.

### MissionExecutor

*State and code.* `active`, `executing` and `queue` are the globals `activeMission`, `isExecuting` and (its length)
`missionQueue`; `mission` holds the mission objects, which outlive `active`, because continuations refer to them. `disk` is
`auftraege.json`. `run[m][s]` counts pipeline runs of a step that the executor awaits, `adrift` those it has given up after a
time-out and that still work, because nothing can abort them. `opening[m]` is the `startMission` call that
awaits the mission's lease. `pending` counts all other continuations in the event loop: timers, calls to a model, to the
lease, to the owner. `main` and `owns` are the leases.

*Actions.* Code between two awaits is one action, and what follows an await acts on the globals as it finds them.
`Start`, `Decomposed`, `Opened` and `PlanSent` are `startMission`; `Timer` is a call of `executeNextStep`, `Checked` and `Leased` what
follows `assertFenced` and `acquireMissionOwnership` in it, `RunEnds` the end of the awaited run (`Returns`, `Throws`, `TimesOut`
with `GoOn`), `DriftEnds` the end of one that is no longer awaited; `Reported`, `Published`, `Tail` and `Again` are `completeMission` after its awaits, `Dequeued` the start of a queued
mission; `Cancel`, `Pause`, `Resume`/`Resumed` are the owner's commands; `Restart`, `Restore`, `Reclaimed` are `initMissionEngine`
after a crash; `LoseMain`, `Suspend`, `GainMain`, `LoseLease` come from the lease layer.

*Abstractions.* The mesh is in enforce mode. Goals, plans and results are left out; whether the ledger has verified a step,
whether the contract accepts the mission and whether work remains is a choice. A save never fails. A follow-up or a
queued mission takes a fresh object, so the bound on missions also bounds `maxContinuations`. History is kept as statuses.

## What each run checks

| run | instance | question and result |
| --- | --- | --- |
| `MeshLeaseSafety` | a process and its restarted successor on one node, two terms, shutdown, deleted row, fenced work and writes | one Main at a time, fences backed by the row, epochs unique, work bound to its term, timers and fences in step, nobody deaf, late writes and releases harmless; `FencedRegister` is implemented: hold |
| `MeshLeaseLive` | processes on two nodes, three terms, fair timers | whenever the other process is gone, the one that is left becomes Main; one Main at a time, fences backed by the row: hold |
| `MeshLeaseTwoMains` | processes on two nodes | *violated*: a hand-back whose answer is lost leaves two usable fences |
| `MeshLeaseHandback` | processes on two nodes | *violated*: a weaker process takes back the lease it has just handed over |
| `WitnessSafety` | one service on each of two nodes, three witnesses, calls at once, lost answers, stalls, crash, restart, dropped fences, raised floors, two epochs | never two leaders, a majority behind every fence, epochs unique and rising: hold |
| `WitnessLive` | two services of one node, one witness down, a rival that dies in any state and leaves votes, epochs and a late request behind | once the rival is dead, each of the two services gets its lease, and again whenever it has lost it; never two leaders, a majority behind every fence, epochs rise: hold |
| `WitnessSplitVote` | one witness down, two standbys that ask at once | *violated*: each keeps renewing the one vote it won and nobody is ever promoted |
| `JournalSafety` | three replicas, two candidates, two epochs, second terms of one epoch, observed leases | what an old Main seals late never commits; what the only term of the newest epoch commits in quiet times is in every later term: hold |
| `JournalPair` | two replicas, crashes, late deliveries, lost answers, snapshots, a restore of a bound service beside that of `nova-main`, a refresh timer that adopts a second time | every replica can restart from its log; marks never fall; a quiet commit stays on a majority of the disks; `DurableChanges` is implemented: hold |
| `JournalRestore` | three replicas, two restores at a time | *violated*: a change commits after the next Main has read the logs and is missing from its term |
| `MissionSafety` | two missions of one step, four commands, restarts and lost leases, one retry | at most one run of a mission is awaited; while a mission is called done its steps stay verified and none runs; the file is current; a cancelled mission is final, over restarts from that file too: hold |
| `MissionTimeout` | the same, no retry, three commands | *violated*: pause, time-out and resume start a step again beside the run that could not be aborted |

Every property of a passing run is paired with a mutant in `PROJECT.json`: a plausible bug in the modelled code (the
definitions whose comment begins with `Fault:`) that makes TLC find the property violated.

*Bounds.* `TTL = 2` lets a deadline be ahead, due and past (`TTL = 1` with stalls in `WitnessSafety` is enough to tell a
live from an expired vote). `MaxEpoch` bounds the epochs given out: two put an old term beside a new one. It is three in
`MeshLeaseLive` and in the split vote: the takeover after a dead rival's epoch 1 is epoch 2, its reply may be lost, and
with three there is an epoch left for the next attempt, so that the adoption itself is checked. The liveness properties
excuse only a bound that is really used up (`EpochsUsedUp`: no epoch is left and the candidate cannot renew). `MaxOpen` and `MaxStray` bound what is in the network. `Extra` names the side
stories a run follows, so that every story is in some run without all of them multiplying in one. `Down` and `Frail` name
the witnesses that are never reached and the nodes that crash. `"shutdown"` lets a process hand the lease back or leave
in order, `"race"` lets calls of two nodes overlap. Two processes on one node are the harder instance for the lease,
since the release in SQL compares the node and the epoch, not the instance; processes of two nodes are in the other
three MeshLease runs. `WitnessSafety` has no late request and no second service of a node: `WitnessLive` has one late
request and two such services, without stalls and restarts; all of it together, in any number, is in the proofs only.
Witnesses are interchangeable in `WitnessSafety` (symmetry, no liveness there).
In `StateJournal`, `MaxEntry` (four entries) allows two terms with two changes or snapshots between them, so that an old and
a new Main both write and logs differ in epoch and in length; `MaxOpen` and `MaxReads` bound calls and restores
under way. `MaxOpen` is one in all runs, so that replications that overlap are in the proofs only; so is
`LateNeverCommits` across a restart of a replica, as `JournalSafety` has no crashes. `JournalPair` has two replicas, because
crashes, late deliveries, snapshots and a second adoption multiply; a quorum of two is the case in which every copy
counts. In `MissionSafety` a mission has one step: races between calls for the same step need no second one, and the proofs
cover plans of any length. Four commands are enough for a start, two disturbances and a restart. `MaxAdrift` is one: one run
that works on is enough to have a second beside it.

*Fairness.* Timers fire and time passes (weak fairness of `Tick`, deadlines and returns). In `MeshLease` the coordinator is
reached promptly again and again (strong fairness of prompt steps): a fetch gives up after 5 s and the poll repeats every
15 s, so a coordinator that is up is reached. In `WitnessQuorum` time passes, and each service of a node that is not `Frail` goes on
with its call or makes a new one (weak fairness of `Proceeds`: the fetch timeout ends what no witness answers, the
poller asks again). A `Frail` node is promised nothing. Both liveness properties of passing runs are leads-to, from the
moment the other nodes are gone and whatever they leave behind. Nothing is assumed of crashes, losses, hand-backs or administrators.

## What the runs found

* **Two Mains after a lost hand-back answer** (`MeshLeaseTwoMains`). `yieldServiceLeadership` keeps its fence when the answer
  to the release is lost, although the row is already free (`leader-election.ts:750`). Until the next renewal or the
  deadline both processes act. Shared memory is safe: its writes carry the epoch (`NewestTermWrites`).
* **A hand-back that comes back** (`MeshLeaseHandback`). The process that yields is put on watch and skips the preference
  check, because the row still names its node (`leader-election.ts:538`).
* **A split vote for good** (`WitnessSplitVote`). A refused candidate keeps its minority vote and every poll renews it
  (`witness-quorum.ts:161`, `quorum-witness.ts:79`). With one witness down and two candidates, nobody is promoted. The
  takeover preference that could break the tie is asked only with succession enabled, which is off by default.
* **A retry beside a run that works on** (`MissionTimeout`). A pipeline run cannot be aborted, so a time-out steps over the step
  instead of repeating it ("A timeout must therefore never lead to a retry of the same step", `autonomous-executor.ts:591`).
  But it does so only while the mission is active (line 661). If the owner has paused the mission, the step stays the
  current one, and a resume starts it again beside the run that still works.
* **A commit the next Main does not see** (`JournalRestore`). An export does not raise the mark of the replica that gives it,
  so the old Main can still commit between the reading of the logs and the new term entry. The restored state misses that
  change, against the header of `state-journal.ts` ("which contains every committed entry"). It needs a takeover before the
  old lease is over, so the lease, not the journal, is what excludes it; `QuietCommitsSurvive` says what remains true.
  Its other premise, that the epoch has one term only, is needed as well. Where the coordinator gives a holder its own
  epoch again (`succession.ts:355-358`), the controller starts a second term of that epoch, possibly from a restore that was
  left in `prepared` and is older than its own log (`succession-runtime.ts:187`, `state-journal.ts:266-272`). Then two
  branches of one epoch exist, and a later restore takes the longer one, whichever has the majority. The shortest such
  history has six entries and about 27 steps, too deep for the bounds of the runs: n1 starts epoch 1 and loses its
  fence, reads the logs, commits two changes with n2 that n3 does not get, acquires epoch 1 again, starts a second term
  from what it read and commits a change with n3; then n2 takes over and its own, longer log wins over n3's.

Met while modelling, and listed as hazards without a property: compaction drops the term entry of the running term, after
which a replica that lags behind the snapshot is refused the whole log (`no-term`); `completeMission` acts on whatever mission is
active after its report was sent (`autonomous-executor.ts:866`); a checkpoint row freezes once the lease was lost
and won again (`mesh-registry.ts:903`).

`MutualExclusion` of MeshLease says, because of the first of these: two usable fences only if one of the terms was ended early at the coordinator.

## What is proved

The proof modules prove, for every set of processes, nodes, services, witnesses, replicas and missions, every lease time, plan length
and retry limit and every value of the bounds, what the runs check on small instances. The assumptions are the named
`ASSUME`s of the modules: types of the constants, a positive lease time, finite sets of witnesses and replicas. Nothing
is assumed about their number.

*MeshLease.* `IInv` is type correctness, `Epochs` and `Claims`. `Epochs`: the row carries the last value of the sequence or is
gone, every epoch was given once, ended terms are not live. `Claims`: every fence, pending reply, release and write names
a term its process really was given, and every live claim on a term that was not ended is backed by the row with at
least as much time left. The claims of calls under way are what makes it inductive: a fence is only as good as the
reply it was made from, and that reply was good when the transaction ran. From `IInv` follow one Main at a time,
backed fences, unique epochs, own releases, newest writes and the refinement. A second invariant, `LocalOK`, ties fence,
timers and work of each process together.

*WitnessQuorum.* Votes are counted, so a fence needs a majority behind it at every moment. `IInv` consists of
`AnswersStand` (an approval that can still become part of a certificate stands for a live vote of its node that lasts as
long as the certificate would), `FencesStand` (behind a usable fence is a set of live votes that is a majority) and
`TermsStand`: for every term ever won there is a majority of witnesses that have *passed* it, which means that their epoch is at
least the term's, that only its own node holds a vote at exactly that epoch, and that every approval another node still
has from them is above it. The last part is needed because an approval is counted long after it was given. A witness
that has passed a term stays passed, since a vote changes hands only with a larger epoch (`PassedOn`). Any two majorities
share a witness (`QuorumsMeet`), so a certificate is above every term of other nodes (`CertificateAbove`), and from that follow
`EpochUnique` and `TermsRise`.

*StateJournal.* `IInv` is a state of order (`Placed`) and three facts about histories. `Placed`: every log is a chain below
its mark (`LogsRestart`), no mark, fence or delivery is above the lease's last epoch (`LeaseOK`, `NetOK`), every open call and
delivery belongs to a writer that keeps its node and epoch (`WorkOK`), and a restore under way holds a chain below the
highest epoch it has seen (`BasesOK`). The last one is why a new Main never adopts a log that its own mark refuses:
`AdoptTerm` refuses an epoch below that maximum. `LogsRestart` and `MarksNeverFall` follow action by action (`ChainAppend`,
`CompactChain`, `StoredOK`, `MergesOK`, `Written`). `LateNeverCommits` needs more: `LateOK` says that for every entry sealed
after a majority had passed its epoch, and whose call is open, there is a majority of *shut* replicas. A shut replica has a
higher mark, has given neither a copy nor the answer that makes the writer send its whole log, and no whole log is under way to
it. It stays shut (`LateKept`, `ShutRefuses`), because a single entry is judged by its own epoch, while a whole log
is judged by its newest one; and a majority that is shut leaves no majority to acknowledge (`NoLateCommit`).

*Survival of commits* (`StateJournalSurvival`, `StateJournalRefinement`). A commit is *quiet* when its writer is the only one of
the newest epoch and no takeover is under way; without either premise the property is false (see above). Logs are ordered as
`restoreMainState` orders them, by last epoch and then by length, and a log is *past* an entry when it is at least as far.
`SInv` follows one change from sealing to the last takeover. It adds to `IInv`:

* `HistOK`: all entries that exist anywhere, on disks, in restores and in the network (`Everywhere`), are told apart by their
  ids, link to an entry of the number before, and belong to the epoch of a writer; a pending call knows its entry.
* `TopOK`: while its writer is the only one of the newest epoch (`Top`), the writer's log is the longest of that epoch, every
  entry sealed after a pending change has a higher number and every snapshot after it contains it, and each replica that
  has acknowledged it stays at or past it (`Followed`). A second term of one epoch breaks exactly this.
* `ReadsOK`: a restore has counted every replica once and never its own, so that a quorum of exports is a majority of nodes.
* `SafeOK`: behind every quiet commit are an epoch, a number and a majority of replicas at or past it. Every entry past it was
  sealed on a log past it, snapshots past it contain it, every writer of its epoch or a newer one has it in its state,
  and every restore that has met the majority is past it (`Safe`).

At the commit, `Safe` follows from `TopOK` and the acknowledgements (`CommitSafe`): with no takeover under way there is no restore
to worry about. After it, a replica only moves forward in that order (`StoredAhead`), a restore of a quorum meets the
majority (`RestoreMeets`, `MajoritiesMeet`), and a chain that is past a safe entry replays it, because walking back from its
end reaches the entry or a snapshot that contains it (`Walk`). So a new term begins with the change. The same argument gives
the majority of disks (`QuietCommitsHeld`) and the step from a takeover to `DurableChanges!Begin` (`AdoptTermMaps`).
`SInv` was checked with TLC on the instances of both passing journal runs before it was proved.

*MissionExecutor.* `IInv` adds three facts to the safety invariants. `FlagOK`: when a mission is active and the flag is down, no
run of it is awaited. `FreshOK`: a mission that has not been started has no runs. `GoneOK`: a cancelled mission is neither
the active one nor the one on disk. The first is what makes `OneAwaitedRun` inductive: a step starts only with the flag down
(`Begin`), so nothing else of the mission is awaited, and the flag goes down only when the mission's own run ends or the
mission leaves `active`, to which it returns only through a restart. `CancelIsFinal` follows because every handler changes the
active mission only, or the one that is on disk. `DoneStaysDone` speaks of a mission as long as it is called done: one that
awaits its report can be paused (lines 467-469) and is then no longer called so.

*Only model-checked.* Liveness (`StandbyTakesOver`, `LoneCandidateWins`): fairness and `ENABLED` are out of the prover's reach. The
violations are TLC's counterexamples. Every invariant, action property and refinement of a passing run is proved.

## Inventory of the system

| part | state | operations | what is hard | what makes it correct |
| --- | --- | --- | --- | --- |
| lease and fencing (`leader-election.ts`, `fence.ts`, SQL) | lease row, epoch sequence, fences, timers | acquire, renew, adopt, drop, hand back, fenced writes | late and lost replies, clocks, restarts, stalls | one Main, work and writes bound to the term: **modelled, proved** |
| fence checks (`fence.ts`, `fence-highwater.ts`) | suspect marks, the worker's high-water file | `checkFence`, live and remote checks | state read before an await, corrupt file, stall of the event loop | no effect under a term known to be over |
| witnesses (`quorum-witness.ts`, `witness-quorum.ts`) | votes and epochs on disk, high-water marks in memory | vote rounds, epoch commit, peek | majorities of different rounds, late requests, split votes | one leader, rising epochs, progress: **modelled, proved** |
| witness checkpoints (`quorum-witness.ts`, `witness-checkpoint-transport.ts`, `src/core/native-tool-takeover.ts`) | checkpoints per mission | quorum write and read, hydrate | writes that straddle a takeover, different read quorums | a confirmed checkpoint is found by the successor |
| Main journal (`state-journal.ts`) | hash-chained log per replica, high-water mark | append, replace, export, restore, compact | late deliveries after an export, two writers | a fenced writer commits nothing, logs stay chains, quiet commits survive: **modelled, proved** |
| succession (`succession.ts`, `succession-runtime.ts`) | mode, term, writer, emergency grant | tick, takeover, adopt, renew, emergency claim | two adoptions of one epoch, stale restores, step-downs during awaits; emergency Main beside a majority | at most one writer commits: **modelled** with the journal, without emergency terms |
| emergency code (`emergency-code.ts`) | failures, lock | verify | restarts, unreadable file | the lock holds and ends |
| execution (`src/core/execution-kernel.ts`, `execution-control.ts`, `action-lifecycle.ts`) | idempotency records, action states | `executeOnce`, import, compensate | crash while running, imported results | an effect runs at most once |
| updates (`src/core/update-activation.ts` and neighbours) | staged, active and previous version | stage, activate, confirm, roll back | crash between two steps | a broken version is rolled back |
| missions (`src/core/autonomous-executor.ts`) | active mission, flag, queue, file | start, run, retry, pause, resume, cancel, complete, restart | continuations that act on a mission that has changed meanwhile, crashes, lost leases | one awaited run at a time, cancelled is final, the file is current: **modelled, proved** for one process; no retry beside a run that works on: violated |
| command queue (`src/process/command-queue.ts`) | lanes, generations | enqueue, drain, reset, clear | reset during a task | not used by the daemon: only its tests import it |
| decisions, questions, cards | records with an owner's answer | create, answer, expire | late answers | one answer counts |
| transports, registry, policy | envelopes, node records | route, acknowledge, score | duplicates | a task is not run twice |
| pipeline, models, memory, learning, tools, channels, planner, doctor, user interface | mostly text, data and I/O | | | not modelled: see the notes in `PROJECT.json` |

*Interactions.* Every exclusive service (channels, dashboard, missions) asks the lease layer before it starts and registers
handlers for its loss. The lease layer asks one of the two coordinators, never both. Fences flow into `runFenced` and
into fenced writes; with succession enabled the lease layer first asks `beforeMainAcquire`, which reads the journal and raises
the epoch floor (`RaiseFloor`). Missions hold sub-leases and publish checkpoints through the witnesses or Supabase.

## Plan

Done: `FencedRegister`, `MeshLease`, `WitnessQuorum`, `StateJournal` (with the takeover part of succession), `DurableChanges`,
`MissionExecutor`, and their proofs. In the order in which they would be worth adding:

1. Mission checkpoints: publication, the frozen row, recovery on another node, and the witness store; composed with
   `MissionExecutor` and a coordinator that implements `FencedRegister`.
2. Emergency terms of succession, beside a coordinator of the same kind.
3. Steps of a mission that are delegated to other agents (`handStepToAgent`, `settleAuftragDelegation`).
4. Live and suspect fences, the worker's high-water mark.
5. The idempotency store across crashes and takeovers.

## Not modelled

Of the modelled parts: the v1 protocol and observe mode, delegated fences, the single-node coordinator, read-only peeks,
disks that fail (witnesses, replicas, `auftraege.json`); in the journal emergency terms, the sharing of the vault, the
ranking of candidates in `tick`, and `renewMain` in a term that was raised; in the executor delegated steps, the handoff and
recovery of missions of other nodes, the publication of checkpoints (so "a cancelled mission is final" speaks of the local
file, not of a checkpoint that another node recovers). Of the rest: see the inventory and `PROJECT.json`. Most
of the repository is text, data and I/O around language models, which a model checker has nothing to say about.
