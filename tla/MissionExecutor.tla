-------------------------- MODULE MissionExecutor --------------------------
(***************************************************************************)
(* The mission executor of one process (src/core/autonomous-executor.ts):   *)
(* the owner starts, cancels, pauses and resumes missions while the         *)
(* executor runs their steps one after another, the Main lease comes and    *)
(* goes, and the process restarts from auftraege.json.                      *)
(*                                                                         *)
(* Everything between two awaits is one action.  `pending` counts the       *)
(* continuations that wait in the event loop: a timer, a call to a model, a *)
(* lease, a notification.  Each acts on the globals (`active`, `executing`) *)
(* as it finds them then, and on what it read before.                       *)
(***************************************************************************)
EXTENDS Integers, FiniteSets

CONSTANTS Mission,      \* mission objects
          NoMission,    \* activeMission = null
          Steps,        \* steps of a plan
          MaxRetries,   \* config.maxRetries
          MaxCommands,  \* bound: owner commands, restarts and lost leases
          MaxAdrift     \* bound: steps followed after their run timed out

ASSUME MissionAssumption ==
    /\ NoMission \notin Mission
    /\ Steps \in Nat \ {0} /\ MaxRetries \in Nat /\ MaxCommands \in Nat
    /\ MaxAdrift \in Nat

VARIABLES
    active,      \* activeMission
    mission,     \* the mission objects
    executing,   \* isExecuting
    queue,       \* length of missionQueue
    owns,        \* the process holds the mission lease the object carries
    main,        \* the process holds nova-main
    opening,     \* startMission calls awaiting the mission's lease, by caller
    run,         \* pipeline runs of a step that the executor awaits
    adrift,      \* steps of which a run that timed out still works
    pending,     \* other continuations in the event loop
    disk,        \* auftraege.json
    commands     \* owner commands, restarts and lost leases so far

vars == <<active, mission, executing, queue, owns, main, opening, run, adrift, pending, disk,
          commands>>
leases == <<owns, main>>
runs == <<run, adrift>>

Step == 1..Steps

\* Who called startMission: nobody waits ("last"), or completeMission goes on
\* with the queue when a queued mission or a follow-up has been started.
Caller == {"last", "queue", "follow"}

Task ==
    {<<"timer">>, <<"report">>, <<"publish">>, <<"tail">>, <<"again">>, <<"suspend">>}
    \cup {"decompose", "plan", "next"} \X Caller
    \cup {"resume", "restore", "reclaim"} \X Mission
    \cup {"check", "lease"} \X Mission \X Step

Status == {"new", "active", "paused", "done", "failed", "cancelled"}
NewMission == [status |-> "new", current |-> 1,
               step |-> [s \in Step |-> "pending"], retries |-> [s \in Step |-> 0]]

Image(a, ms, q) ==
    [active |-> a, copy |-> IF a = NoMission THEN NewMission ELSE ms[a], queue |-> q]

Init ==
    /\ active = NoMission
    /\ mission = [m \in Mission |-> NewMission]
    /\ executing = FALSE
    /\ queue = 0
    /\ owns = [m \in Mission |-> FALSE] /\ main = TRUE
    /\ opening = [m \in Mission |-> "none"]
    /\ run = [m \in Mission |-> [s \in Step |-> 0]]
    /\ adrift = {}
    /\ pending = [t \in Task |-> 0]
    /\ disk = Image(NoMission, mission, 0)
    /\ commands = 0

Save(a, ms, q) == disk' = Image(a, ms, q)

\* The continuation t is taken from the event loop; the ones in T are added.
After(t) == [pending EXCEPT ![t] = @ - 1]
Plus(p, T) == [t \in Task |-> IF t \in T THEN p[t] + 1 ELSE p[t]]

Is(st) == active # NoMission /\ mission[active].status = st
Running(m) == active = m /\ mission[m].status = "active"

Command == commands < MaxCommands /\ commands' = commands + 1

-----------------------------------------------------------------------------
(* startMission, the queue *)

Back(c) == IF c = "last" THEN {} ELSE {<<"again">>}

\* startMission up to its first await: refuse, queue, or plan the goal.
Goal(p, c) ==
    \/ /\ Is("paused")
       /\ pending' = Plus(p, Back(c))
       /\ UNCHANGED <<queue, disk>>
    \/ /\ Is("active")
       /\ queue' = queue + 1 /\ Save(active, mission, queue + 1)
       /\ pending' = Plus(p, Back(c))
    \/ /\ ~Is("paused") /\ ~Is("active")
       /\ pending' = Plus(p, {<<"decompose", c>>})
       /\ UNCHANGED <<queue, disk>>

Start ==
    /\ Command
    /\ ~Is("paused") /\ Goal(pending, "last")
    /\ UNCHANGED <<active, mission, executing, leases, opening, runs>>

\* The plan is there: the mission becomes the active one, whichever is by now.
Decomposed(c) ==
    /\ pending[<<"decompose", c>>] > 0
    /\ \E m \in Mission :
          /\ mission[m].status = "new"
          /\ active' = m
          /\ mission' = [mission EXCEPT ![m].status = "active"]
          /\ opening' = [opening EXCEPT ![m] = c]
    /\ pending' = After(<<"decompose", c>>)
    /\ UNCHANGED <<executing, queue, leases, runs, disk, commands>>

\* acquireMissionOwnership returns; without a lease the start fails closed.
Opened(m) ==
    LET c == opening[m]
    IN  /\ c # "none"
        /\ opening' = [opening EXCEPT ![m] = "none"]
        /\ \/ /\ owns' = [owns EXCEPT ![m] = TRUE]
              /\ Save(active, mission, queue)
              /\ pending' = Plus(pending, {<<"plan", c>>})
              /\ UNCHANGED active
           \/ /\ active' = NoMission
              /\ pending' = Plus(pending, Back(c))
              /\ UNCHANGED <<owns, disk>>
        /\ UNCHANGED <<mission, executing, queue, main, runs, commands>>

\* The owner has the plan; the first step is due, and startMission returns.  If
\* the notification fails, it throws, and no step is due.
PlanSent(c) ==
    /\ pending[<<"plan", c>>] > 0
    /\ \/ /\ pending' = Plus(After(<<"plan", c>>), {<<"timer">>} \cup Back(c))
          /\ IF c = "follow" THEN Save(active, mission, queue) ELSE UNCHANGED disk
       \/ /\ pending' = Plus(After(<<"plan", c>>), Back(c))
          /\ UNCHANGED disk
    /\ UNCHANGED <<active, mission, executing, queue, leases, opening, runs, commands>>

\* Fault: the length of the queue is not asked.
StartNextUnasked(p, c) ==
    IF active = NoMission
    THEN /\ queue' = queue - 1 /\ Save(NoMission, mission, queue - 1)
         /\ pending' = Plus(p, {<<"next", c>>})
    ELSE pending' = p /\ UNCHANGED <<queue, disk>>

StartNext(p, c) ==
    IF queue > 0 /\ active = NoMission
    THEN /\ queue' = queue - 1 /\ Save(NoMission, mission, queue - 1)
         /\ pending' = Plus(p, {<<"next", c>>})
    ELSE pending' = p /\ UNCHANGED <<queue, disk>>

\* The owner knows which mission is next.
Dequeued(c) ==
    /\ pending[<<"next", c>>] > 0
    /\ Goal(After(<<"next", c>>), c)
    /\ UNCHANGED <<active, mission, executing, leases, opening, runs, commands>>

-----------------------------------------------------------------------------
(* executeNextStep and completeMission up to their first awaits *)

\* Done only if every step is; the contract may refuse even then.
Verdicts(x) ==
    IF \A s \in Step : x.step[s] = "done" THEN {"done", "failed"} ELSE {"failed"}

Execute(p, ms) ==
    LET idle == active # NoMission => ms[active].status # "active" \/ executing
    IN  \/ /\ idle
           /\ mission' = ms /\ pending' = p
        \/ /\ ~idle /\ ms[active].current <= Steps
           /\ mission' = ms
           /\ pending' = Plus(p, {<<"check", active, ms[active].current>>})
        \/ /\ ~idle /\ ms[active].current > Steps
           /\ \E v \in Verdicts(ms[active]) : mission' = [ms EXCEPT ![active].status = v]
           /\ pending' = Plus(p, {<<"report">>})

Timer ==
    /\ pending[<<"timer">>] > 0
    /\ Execute(After(<<"timer">>), mission)
    /\ UNCHANGED <<active, executing, queue, leases, opening, runs, disk, commands>>

Halt(m) ==
    IF Running(m)
    THEN LET ms == [mission EXCEPT ![m].status = "paused"]
         IN mission' = ms /\ Save(active, ms, queue)
    ELSE UNCHANGED <<mission, disk>>

\* Fault: the execution flag is not looked at again.
BeginUnflagged(m, s) ==
    IF Running(m)
    THEN LET ms == [mission EXCEPT ![m].step[s] = "active"]
         IN /\ mission' = ms /\ Save(active, ms, queue)
            /\ executing' = TRUE
            /\ run' = [run EXCEPT ![m][s] = @ + 1]
    ELSE UNCHANGED <<mission, disk, executing, run>>

\* Fault: the status is not looked at again.
BeginEnded(m, s) ==
    IF active = m /\ ~executing
    THEN LET ms == [mission EXCEPT ![m].step[s] = "active"]
         IN /\ mission' = ms /\ Save(active, ms, queue)
            /\ executing' = TRUE
            /\ run' = [run EXCEPT ![m][s] = @ + 1]
    ELSE UNCHANGED <<mission, disk, executing, run>>

\* With the lease in hand: the step starts if nothing has changed meanwhile.
Begin(m, s) ==
    IF Running(m) /\ ~executing
    THEN LET ms == [mission EXCEPT ![m].step[s] = "active"]
         IN /\ mission' = ms /\ Save(active, ms, queue)
            /\ executing' = TRUE
            /\ run' = [run EXCEPT ![m][s] = @ + 1]
    ELSE UNCHANGED <<mission, disk, executing, run>>

\* assertFenced returns; without Main, or without an answer, the mission halts.
Checked(m, s) ==
    /\ pending[<<"check", m, s>>] > 0
    /\ \/ /\ pending' = After(<<"check", m, s>>)
          /\ Halt(m)
          /\ UNCHANGED <<executing, run>>
       \/ /\ main /\ owns[m]
          /\ pending' = After(<<"check", m, s>>)
          /\ Begin(m, s)
       \/ /\ main /\ ~owns[m]
          /\ pending' = Plus(After(<<"check", m, s>>), {<<"lease", m, s>>})
          /\ UNCHANGED <<mission, disk, executing, run>>
    /\ UNCHANGED <<active, queue, leases, opening, adrift, commands>>

\* acquireMissionOwnership returns.
Leased(m, s) ==
    /\ pending[<<"lease", m, s>>] > 0
    /\ pending' = After(<<"lease", m, s>>)
    /\ \/ /\ owns' = [owns EXCEPT ![m] = TRUE]
          /\ Begin(m, s)
       \/ /\ IF executing THEN UNCHANGED <<mission, disk>> ELSE Halt(m)
          /\ UNCHANGED <<owns, executing, run>>
    /\ UNCHANGED <<active, queue, main, opening, adrift, commands>>

-----------------------------------------------------------------------------
(* A run ends *)

\* Fault: the advance is not saved.
GoOnUnsaved(m, ms) ==
    \/ /\ active # m
       /\ mission' = ms
       /\ UNCHANGED <<executing, pending, disk>>
    \/ /\ active = m /\ executing' = FALSE
       /\ IF ms[m].status = "paused"
          THEN mission' = ms /\ pending' = pending /\ Save(active, ms, queue)
          ELSE /\ mission' = [ms EXCEPT ![m].current = @ + 1]
               /\ pending' = Plus(pending, IF ms[m].status = "active" THEN {<<"timer">>} ELSE {})
               /\ UNCHANGED disk

\* What follows the result of a step: only the active mission goes on.
GoOn(m, ms) ==
    \/ /\ active # m
       /\ mission' = ms
       /\ UNCHANGED <<executing, pending, disk>>
    \/ /\ active = m /\ executing' = FALSE
       /\ LET gone == IF ms[m].status = "paused" THEN ms ELSE [ms EXCEPT ![m].current = @ + 1]
          IN  /\ mission' = gone /\ Save(active, gone, queue)
              /\ pending' = Plus(pending, IF ms[m].status = "active" THEN {<<"timer">>} ELSE {})

\* The pipeline returns: the ledger has verified the step, or it has not.
Returns(m, s) ==
    \E result \in {"done", "failed"} : GoOn(m, [mission EXCEPT ![m].step[s] = result])

\* The pipeline throws: another try, or the step is given up.
Throws(m, s) ==
    LET n == mission[m].retries[s] + 1
        tried == [mission EXCEPT ![m].retries[s] = n, ![m].step[s] = "pending"]
    IN  \/ /\ n <= MaxRetries
           /\ mission' = tried
           /\ IF active = m
              THEN /\ executing' = FALSE /\ Save(active, tried, queue)
                   /\ pending' = Plus(pending, {<<"timer">>})
              ELSE UNCHANGED <<executing, disk, pending>>
        \/ /\ n > MaxRetries
           /\ GoOn(m, [mission EXCEPT ![m].retries[s] = n, ![m].step[s] = "failed"])

\* The time-out: the run cannot be aborted and works on, no longer awaited, and
\* the mission halts behind the step.
TimesOut(m, s) ==
    LET failed == [mission EXCEPT ![m].step[s] = "failed"]
        ms == IF Running(m)
              THEN [failed EXCEPT ![m].current = @ + 1, ![m].status = "paused"]
              ELSE failed
    IN  /\ mission' = ms
        /\ adrift' = IF Cardinality(adrift) < MaxAdrift THEN adrift \cup {<<m, s>>} ELSE adrift
        /\ IF active = m THEN executing' = FALSE /\ Save(active, ms, queue)
                         ELSE UNCHANGED <<executing, disk>>
        /\ UNCHANGED pending

RunEnds(m, s) ==
    /\ run[m][s] > 0
    /\ run' = [run EXCEPT ![m][s] = @ - 1]
    /\ \/ (Returns(m, s) \/ Throws(m, s)) /\ UNCHANGED adrift
       \/ TimesOut(m, s)
    /\ UNCHANGED <<active, queue, leases, opening, commands>>

\* The last run of a step that timed out is over; nobody hears of it.
DriftEnds(m, s) ==
    /\ <<m, s>> \in adrift
    /\ adrift' = adrift \ {<<m, s>>}
    /\ UNCHANGED <<active, mission, executing, queue, leases, opening, run, pending, disk, commands>>

-----------------------------------------------------------------------------
(* completeMission after its awaits: it means whatever mission is active then *)

\* The report is sent.  Without an active mission the call dies.
Reported ==
    /\ pending[<<"report">>] > 0
    /\ \/ /\ active = NoMission
          /\ pending' = After(<<"report">>)
          /\ UNCHANGED owns
       \/ /\ active # NoMission
          /\ pending' = Plus(After(<<"report">>), {<<"publish">>})
          /\ owns' = [owns EXCEPT ![active] = FALSE]
    /\ UNCHANGED <<active, mission, executing, queue, main, opening, runs, disk, commands>>

\* The checkpoint is published.
Published ==
    /\ pending[<<"publish">>] > 0
    /\ active' = NoMission /\ executing' = FALSE
    /\ Save(NoMission, mission, queue)
    /\ pending' = Plus(After(<<"publish">>), {<<"tail">>})
    /\ UNCHANGED <<mission, queue, leases, opening, runs, commands>>

\* The model says whether work remains: a follow-up, or the queue.
Tail ==
    /\ pending[<<"tail">>] > 0
    /\ Goal(After(<<"tail">>), "follow") \/ StartNext(After(<<"tail">>), "queue")
    /\ UNCHANGED <<active, mission, executing, leases, opening, runs, commands>>

Again ==
    /\ pending[<<"again">>] > 0
    /\ StartNext(After(<<"again">>), "last")
    /\ UNCHANGED <<active, mission, executing, leases, opening, runs, commands>>

-----------------------------------------------------------------------------
(* The owner *)

Cancel ==
    /\ Command /\ active # NoMission
    /\ mission' = [mission EXCEPT ![active].status = "cancelled"]
    /\ owns' = [owns EXCEPT ![active] = FALSE]
    /\ active' = NoMission /\ executing' = FALSE
    /\ Save(NoMission, mission, queue)
    /\ UNCHANGED <<queue, main, opening, runs, pending>>

Pause ==
    /\ Command /\ active # NoMission
    /\ LET ms == [mission EXCEPT ![active].status = "paused"]
       IN mission' = ms /\ Save(active, ms, queue)
    /\ UNCHANGED <<active, executing, queue, leases, opening, runs, pending>>

Resume ==
    /\ Command /\ Is("paused")
    /\ pending' = Plus(pending, {<<"resume", active>>})
    /\ Save(active, mission, queue)
    /\ UNCHANGED <<active, mission, executing, queue, leases, opening, runs>>

\* Fault: the mission is not compared with the active one.
ResumedAnyway(m) ==
    /\ pending[<<"resume", m>>] > 0
    /\ LET ms == [mission EXCEPT ![m].status = "active"]
       IN /\ owns' = [owns EXCEPT ![m] = TRUE]
          /\ Save(active, ms, queue)
          /\ Execute(After(<<"resume", m>>), ms)
    /\ UNCHANGED <<active, executing, queue, main, opening, runs, commands>>

\* The lease is renewed, or not; the mission may be gone by now.
Resumed(m) ==
    /\ pending[<<"resume", m>>] > 0
    /\ \/ /\ active = m
          /\ LET ms == [mission EXCEPT ![m].status = "active"]
             IN /\ owns' = [owns EXCEPT ![m] = TRUE]
                /\ Save(active, ms, queue)
                /\ Execute(After(<<"resume", m>>), ms)
       \/ /\ Save(active, mission, queue)
          /\ pending' = After(<<"resume", m>>)
          /\ UNCHANGED <<mission, owns>>
    /\ UNCHANGED <<active, executing, queue, main, opening, runs, commands>>

-----------------------------------------------------------------------------
(* Restarts and leases *)

\* The process dies and starts again from its file.
Restart ==
    LET kept == disk.active # NoMission /\ disk.copy.status \in {"active", "paused"}
    IN  /\ Command
        /\ active' = IF kept THEN disk.active ELSE NoMission
        /\ mission' = IF kept THEN [mission EXCEPT ![disk.active] = disk.copy] ELSE mission
        /\ pending' = [t \in Task |->
              IF kept /\ disk.copy.status = "active" /\ t = <<"restore", disk.active>> THEN 1 ELSE 0]
        /\ queue' = disk.queue
        /\ executing' = FALSE
        /\ run' = [m \in Mission |-> [s \in Step |-> 0]] /\ adrift' = {}
        /\ opening' = [m \in Mission |-> "none"]
        /\ owns' = [m \in Mission |-> FALSE] /\ main' = FALSE
        /\ UNCHANGED disk

\* Five seconds later the lease of the restored mission is asked for.
Restore(m) ==
    /\ pending[<<"restore", m>>] > 0
    /\ pending' = Plus(After(<<"restore", m>>), IF Running(m) THEN {<<"reclaim", m>>} ELSE {})
    /\ UNCHANGED <<active, mission, executing, queue, leases, opening, runs, disk, commands>>

Reclaimed(m) ==
    /\ pending[<<"reclaim", m>>] > 0
    /\ \/ /\ Running(m)
          /\ owns' = [owns EXCEPT ![m] = TRUE]
          /\ Save(active, mission, queue)
          /\ Execute(After(<<"reclaim", m>>), mission)
       \/ /\ Halt(m)
          /\ pending' = After(<<"reclaim", m>>)
          /\ UNCHANGED owns
    /\ UNCHANGED <<active, executing, queue, main, opening, runs, commands>>

\* Mission leases fall with Main; the handler of the loss comes later.
LoseMain ==
    /\ Command /\ main
    /\ main' = FALSE /\ owns' = [m \in Mission |-> FALSE]
    /\ pending' = Plus(pending, {<<"suspend">>})
    /\ UNCHANGED <<active, mission, executing, queue, opening, runs, disk>>

Suspend ==
    /\ pending[<<"suspend">>] > 0
    /\ pending' = After(<<"suspend">>)
    /\ IF active = NoMission THEN UNCHANGED <<mission, disk>> ELSE Halt(active)
    /\ UNCHANGED <<active, executing, queue, leases, opening, runs, commands>>

GainMain ==
    /\ ~main /\ main' = TRUE
    /\ UNCHANGED <<active, mission, executing, queue, owns, opening, runs, pending, disk, commands>>

\* The deadline of a mission lease, or its loss at the coordinator.
LoseLease(m) ==
    /\ Command /\ owns[m]
    /\ owns' = [owns EXCEPT ![m] = FALSE]
    /\ UNCHANGED <<active, mission, executing, queue, main, opening, runs, pending, disk>>

Next ==
    \/ Start \/ Cancel \/ Pause \/ Resume
    \/ Timer \/ Reported \/ Published \/ Tail \/ Again
    \/ Restart \/ LoseMain \/ Suspend \/ GainMain
    \/ \E c \in Caller : Decomposed(c) \/ PlanSent(c) \/ Dequeued(c)
    \/ \E m \in Mission :
          Opened(m) \/ Resumed(m) \/ Restore(m) \/ Reclaimed(m) \/ LoseLease(m)
    \/ \E m \in Mission, s \in Step : 
          Checked(m, s) \/ Leased(m, s) \/ RunEnds(m, s) \/ DriftEnds(m, s)

Spec == Init /\ [][Next]_vars

-----------------------------------------------------------------------------
(* Properties *)

Record == [status : Status, current : Nat \ {0},
           step : [Step -> {"pending", "active", "done", "failed"}], retries : [Step -> Nat]]
Disk == [active : Mission \cup {NoMission}, copy : Record, queue : Nat]

TypeOK ==
    /\ active \in Mission \cup {NoMission}
    /\ mission \in [Mission -> Record]
    /\ executing \in BOOLEAN /\ queue \in Nat
    /\ owns \in [Mission -> BOOLEAN] /\ main \in BOOLEAN
    /\ opening \in [Mission -> Caller \cup {"none"}]
    /\ run \in [Mission -> [Step -> Nat]] /\ adrift \subseteq Mission \X Step
    /\ pending \in [Task -> Nat]
    /\ disk \in Disk
    /\ commands \in Nat

\* However executor calls pile up after retries, pauses, resumes and restarts,
\* the executor awaits at most one pipeline run of a mission at a time.
OneAwaitedRun ==
    \A m \in Mission, s, t \in Step :
        run[m][s] <= 1 /\ (run[m][s] > 0 /\ run[m][t] > 0 => s = t)

\* "A timeout must therefore never lead to a retry of the same step while the
\* first run may still be executing tools" (autonomous-executor.ts:591-593).
NoRetryBesideDrift ==
    \A m \in Mission, s \in Step : <<m, s>> \in adrift => run[m][s] = 0

\* A cancelled mission stays cancelled and starts no step, whatever was still
\* waiting for it, and after any restart from the file.
CancelIsFinal ==
    [][\A m \in Mission : mission[m].status = "cancelled" =>
          /\ mission'[m].status = "cancelled"
          /\ \A s \in Step : run'[m][s] <= run[m][s]]_vars

\* A mission has every step verified as long as it is called done, and no late
\* executor call touches its steps.
DoneStaysDone ==
    \A m \in Mission : mission[m].status = "done" =>
        \A s \in Step : mission[m].step[s] = "done" /\ run[m][s] = 0

\* What a restart would bring back is what the process has: a mission that
\* has been started is on disk with all its progress.
RestartResumes ==
    \A m \in Mission :
        /\ active = m /\ opening[m] = "none"
        /\ mission[m].status \in {"active", "paused"}
        => disk = Image(m, mission, queue)
=============================================================================
