----------------------- MODULE MissionExecutorProofs -----------------------
(***************************************************************************)
(* Proofs about the mission executor, for every set of missions, number of  *)
(* steps and retries, and without a bound on commands that matters.         *)
(***************************************************************************)
EXTENDS MissionExecutor, TLAPS

\* The runs of a step, awaited or not, mostly stay together.
USE DEF runs

-----------------------------------------------------------------------------
(* Types *)

\* Adding continuations keeps the event loop well typed.
LEMMA PlusType ==
    ASSUME NEW p \in [Task -> Nat], NEW T
    PROVE  Plus(p, T) \in [Task -> Nat]
BY DEF Plus

\* Taking one that is there keeps it well typed.
LEMMA AfterType ==
    ASSUME pending \in [Task -> Nat], NEW t \in Task, pending[t] > 0
    PROVE  After(t) \in [Task -> Nat]
BY DEF After

\* The continuations the actions name are continuations.
LEMMA TaskKinds ==
    /\ {<<"timer">>, <<"report">>, <<"publish">>, <<"tail">>, <<"again">>, <<"suspend">>} \subseteq Task
    /\ \A c \in Caller : {<<"decompose", c>>, <<"plan", c>>, <<"next", c>>} \subseteq Task
    /\ \A m \in Mission : {<<"resume", m>>, <<"restore", m>>, <<"reclaim", m>>} \subseteq Task
    /\ \A m \in Mission, s \in Step : {<<"check", m, s>>, <<"lease", m, s>>} \subseteq Task
BY DEF Task

\* A mission that does not exist yet is a record of the right shape.
LEMMA NewType == NewMission \in Record
BY DEF NewMission, Record, Status

\* What is saved can be read back.
LEMMA SaveType ==
    ASSUME NEW a \in Mission \cup {NoMission}, NEW ms \in [Mission -> Record],
           NEW q \in Nat, Save(a, ms, q)
    PROVE  disk' \in Disk
<1>1. CASE a = NoMission
  BY <1>1, NewType DEF Save, Image, Disk
<1>2. CASE a # NoMission
  BY <1>2 DEF Save, Image, Disk
<1> QED BY <1>1, <1>2

\* An executor call keeps missions and event loop well typed.
LEMMA ExecuteType ==
    ASSUME TypeOK, NEW p \in [Task -> Nat], NEW ms \in [Mission -> Record], Execute(p, ms)
    PROVE  mission' \in [Mission -> Record] /\ pending' \in [Task -> Nat]
<1> DEFINE idle == active # NoMission => ms[active].status # "active" \/ executing
<1>1. CASE idle /\ mission' = ms /\ pending' = p
  BY <1>1
<1>2. CASE /\ mission' = ms
           /\ pending' = Plus(p, {<<"check", active, ms[active].current>>})
  BY <1>2, PlusType
<1>3. CASE /\ ~idle
           /\ \E v \in Verdicts(ms[active]) : mission' = [ms EXCEPT ![active].status = v]
           /\ pending' = Plus(p, {<<"report">>})
  <2>1. active \in Mission /\ ms[active] \in Record
    BY <1>3 DEF TypeOK
  <2>2. PICK v \in {"done", "failed"} : mission' = [ms EXCEPT ![active].status = v]
    BY <1>3 DEF Verdicts
  <2>3. [ms[active] EXCEPT !.status = v] \in Record
    BY <2>1, <2>2 DEF Record, Status
  <2> QED BY <1>3, <2>1, <2>2, <2>3, PlusType
<1> QED BY <1>1, <1>2, <1>3 DEF Execute

\* So does a call of startMission.
LEMMA GoalType ==
    ASSUME TypeOK, NEW p \in [Task -> Nat], NEW c \in Caller, Goal(p, c)
    PROVE  queue' \in Nat /\ pending' \in [Task -> Nat] /\ disk' \in Disk
<1>1. queue + 1 \in Nat /\ active \in Mission \cup {NoMission} /\ mission \in [Mission -> Record]
  BY DEF TypeOK
<1>2. Save(active, mission, queue + 1) => disk' \in Disk
  BY <1>1, SaveType
<1> QED BY <1>1, <1>2, PlusType DEF Goal, TypeOK

\* And the next goal of the queue.
LEMMA StartNextType ==
    ASSUME TypeOK, NEW p \in [Task -> Nat], NEW c \in Caller, StartNext(p, c)
    PROVE  queue' \in Nat /\ pending' \in [Task -> Nat] /\ disk' \in Disk
<1>1. queue > 0 => queue - 1 \in Nat
  BY DEF TypeOK
<1>2. queue > 0 /\ Save(NoMission, mission, queue - 1) => disk' \in Disk
  BY <1>1, SaveType DEF TypeOK
<1> QED BY <1>1, <1>2, PlusType DEF StartNext, TypeOK

\* A mission that is halted keeps its shape.
LEMMA HaltType ==
    ASSUME TypeOK, NEW m \in Mission, Halt(m)
    PROVE  mission' \in [Mission -> Record] /\ disk' \in Disk
<1> DEFINE ms == [mission EXCEPT ![m].status = "paused"]
<1>1. ms \in [Mission -> Record]
  <2>1. mission[m] \in Record /\ mission \in [Mission -> Record]
    BY DEF TypeOK
  <2>2. [mission[m] EXCEPT !.status = "paused"] \in Record
    BY <2>1 DEF Record, Status
  <2> QED BY <2>1, <2>2
<1>2. Save(active, ms, queue) => disk' \in Disk
  BY <1>1, SaveType DEF TypeOK
<1> QED BY <1>1, <1>2 DEF Halt, TypeOK

\* A step that starts keeps everything well typed.
LEMMA BeginType ==
    ASSUME TypeOK, NEW m \in Mission, NEW s \in Step, Begin(m, s)
    PROVE  /\ mission' \in [Mission -> Record] /\ disk' \in Disk
           /\ executing' \in BOOLEAN /\ run' \in [Mission -> [Step -> Nat]]
<1> DEFINE ms == [mission EXCEPT ![m].step[s] = "active"]
<1>1. ms \in [Mission -> Record]
  <2>1. mission[m] \in Record /\ mission \in [Mission -> Record]
    BY DEF TypeOK
  <2>2. [mission[m] EXCEPT !.step[s] = "active"] \in Record
    BY <2>1 DEF Record
  <2> QED BY <2>1, <2>2
<1>2. Save(active, ms, queue) => disk' \in Disk
  BY <1>1, SaveType DEF TypeOK
<1>3. [run EXCEPT ![m][s] = @ + 1] \in [Mission -> [Step -> Nat]]
  BY DEF TypeOK
<1> QED BY <1>1, <1>2, <1>3 DEF Begin, TypeOK

\* What follows a result keeps everything well typed.
LEMMA GoOnType ==
    ASSUME TypeOK, NEW m \in Mission, NEW ms \in [Mission -> Record], GoOn(m, ms)
    PROVE  /\ mission' \in [Mission -> Record] /\ disk' \in Disk
           /\ executing' \in BOOLEAN /\ pending' \in [Task -> Nat]
<1> DEFINE gone == IF ms[m].status = "paused" THEN ms ELSE [ms EXCEPT ![m].current = @ + 1]
<1>1. gone \in [Mission -> Record]
  <2>1. [ms[m] EXCEPT !.current = @ + 1] \in Record
    BY DEF Record
  <2> QED BY <2>1
<1>2. Save(active, gone, queue) => disk' \in Disk
  BY <1>1, SaveType DEF TypeOK
<1>3. CASE active # m /\ mission' = ms /\ UNCHANGED <<executing, pending, disk>>
  BY <1>3 DEF TypeOK
<1>4. CASE /\ executing' = FALSE /\ mission' = gone /\ Save(active, gone, queue)
           /\ \E T : pending' = Plus(pending, T)
  BY <1>1, <1>2, <1>4, PlusType DEF TypeOK
<1> QED BY <1>3, <1>4 DEF GoOn

LEMMA TypeInit == Init => TypeOK
<1> SUFFICES ASSUME Init PROVE TypeOK
  OBVIOUS
<1>1. mission \in [Mission -> Record]
  BY NewType DEF Init
<1>2. disk \in Disk
  BY NewType DEF Init, Image, Disk
<1>3. pending \in [Task -> Nat] /\ run \in [Mission -> [Step -> Nat]]
  BY DEF Init
<1> QED BY <1>1, <1>2, <1>3 DEF Init, TypeOK

\* Every handler keeps the types.
LEMMA TypeStep == TypeOK /\ [Next]_vars => TypeOK'
<1> SUFFICES ASSUME TypeOK, [Next]_vars PROVE TypeOK'
  OBVIOUS
<1>t. /\ active \in Mission \cup {NoMission} /\ mission \in [Mission -> Record]
      /\ executing \in BOOLEAN /\ queue \in Nat /\ commands \in Nat
      /\ owns \in [Mission -> BOOLEAN] /\ main \in BOOLEAN
      /\ run \in [Mission -> [Step -> Nat]] /\ pending \in [Task -> Nat] /\ disk \in Disk
  BY DEF TypeOK
<1>s. ASSUME Save(active, mission, queue) PROVE disk' \in Disk
  BY <1>s, <1>t, SaveType
<1>b. \A c \in Caller : Back(c) \subseteq Task
  BY TaskKinds DEF Back
<1>1. CASE Start
  BY <1>1, <1>t, GoalType DEF Start, Command, TypeOK, leases, Caller
<1>2. CASE Cancel
  <2>1. active \in Mission
    BY <1>2, <1>t DEF Cancel
  <2>2. [mission[active] EXCEPT !.status = "cancelled"] \in Record
    BY <2>1, <1>t DEF Record, Status
  <2>3. mission' \in [Mission -> Record]
    BY <1>2, <1>t, <2>1, <2>2 DEF Cancel
  <2>4. disk' \in Disk
    BY <1>2, <1>t, SaveType DEF Cancel
  <2>5. owns' \in [Mission -> BOOLEAN] /\ commands' \in Nat
    BY <1>2, <1>t DEF Cancel, Command
  <2> QED BY <1>2, <2>3, <2>4, <2>5 DEF Cancel, TypeOK
<1>3. CASE Pause
  <2> DEFINE ms == [mission EXCEPT ![active].status = "paused"]
  <2>1. active \in Mission
    BY <1>3, <1>t DEF Pause
  <2>2. [mission[active] EXCEPT !.status = "paused"] \in Record
    BY <2>1, <1>t DEF Record, Status
  <2>3. ms \in [Mission -> Record]
    BY <1>t, <2>1, <2>2
  <2>4. disk' \in Disk
    BY <1>3, <1>t, <2>3, SaveType DEF Pause
  <2> QED BY <1>3, <2>3, <2>4 DEF Pause, Command, TypeOK, leases
<1>4. CASE Resume
  BY <1>4, <1>t, <1>s, PlusType DEF Resume, Command, TypeOK, leases
<1>5. CASE Timer
  <2>1. After(<<"timer">>) \in [Task -> Nat]
    BY <1>5, <1>t, TaskKinds, AfterType DEF Timer
  <2> QED BY <1>5, <2>1, <1>t, ExecuteType DEF Timer, TypeOK, leases
<1>6. CASE Reported
  <2>1. After(<<"report">>) \in [Task -> Nat]
    BY <1>6, <1>t, TaskKinds, AfterType DEF Reported
  <2>2. owns' \in [Mission -> BOOLEAN]
    BY <1>6, <1>t DEF Reported
  <2>3. pending' \in [Task -> Nat]
    BY <1>6, <2>1, PlusType DEF Reported
  <2> QED BY <1>6, <2>2, <2>3 DEF Reported, TypeOK
<1>7. CASE Published
  <2>1. After(<<"publish">>) \in [Task -> Nat]
    BY <1>7, <1>t, TaskKinds, AfterType DEF Published
  <2>2. disk' \in Disk
    BY <1>7, <1>t, SaveType DEF Published
  <2> QED BY <1>7, <2>1, <2>2, <1>t, PlusType DEF Published, TypeOK, leases
<1>8. CASE Tail
  <2>1. After(<<"tail">>) \in [Task -> Nat]
    BY <1>8, <1>t, TaskKinds, AfterType DEF Tail
  <2> QED BY <1>8, <2>1, GoalType, StartNextType DEF Tail, TypeOK, leases, Caller
<1>9. CASE Again
  <2>1. After(<<"again">>) \in [Task -> Nat]
    BY <1>9, <1>t, TaskKinds, AfterType DEF Again
  <2> QED BY <1>9, <2>1, StartNextType DEF Again, TypeOK, leases, Caller
<1>10. CASE Restart
  <2>1. disk.copy \in Record /\ disk.active \in Mission \cup {NoMission} /\ disk.queue \in Nat
    BY <1>t DEF Disk
  <2>2. active' \in Mission \cup {NoMission} /\ queue' \in Nat /\ commands' \in Nat
    BY <1>10, <2>1, <1>t DEF Restart, Command
  <2>3. mission' \in [Mission -> Record]
    BY <1>10, <2>1, <1>t DEF Restart
  <2>4. pending' \in [Task -> Nat]
    BY <1>10 DEF Restart
  <2>5. run' \in [Mission -> [Step -> Nat]] /\ opening' \in [Mission -> Caller \cup {"none"}]
    BY <1>10 DEF Restart
  <2>6. owns' \in [Mission -> BOOLEAN] /\ main' \in BOOLEAN /\ executing' \in BOOLEAN
    BY <1>10 DEF Restart
  <2> QED BY <1>10, <1>t, <2>2, <2>3, <2>4, <2>5, <2>6 DEF Restart, TypeOK
<1>11. CASE LoseMain
  <2>1. owns' \in [Mission -> BOOLEAN] /\ main' \in BOOLEAN
    BY <1>11 DEF LoseMain
  <2>2. pending' \in [Task -> Nat] /\ commands' \in Nat
    BY <1>11, <1>t, PlusType DEF LoseMain, Command
  <2> QED BY <1>11, <2>1, <2>2 DEF LoseMain, TypeOK
<1>12. CASE Suspend
  <2>1. After(<<"suspend">>) \in [Task -> Nat]
    BY <1>12, <1>t, TaskKinds, AfterType DEF Suspend
  <2>2. mission' \in [Mission -> Record] /\ disk' \in Disk
    BY <1>12, <1>t, HaltType DEF Suspend
  <2> QED BY <1>12, <2>1, <2>2 DEF Suspend, TypeOK, leases
<1>13. CASE GainMain
  BY <1>13 DEF GainMain, TypeOK
<1>14. ASSUME NEW c \in Caller, Decomposed(c) PROVE TypeOK'
  <2>1. After(<<"decompose", c>>) \in [Task -> Nat]
    BY <1>14, <1>t, TaskKinds, AfterType DEF Decomposed
  <2>2. PICK m \in Mission : /\ active' = m
                              /\ mission' = [mission EXCEPT ![m].status = "active"]
                              /\ opening' = [opening EXCEPT ![m] = c]
    BY <1>14 DEF Decomposed
  <2>3. [mission[m] EXCEPT !.status = "active"] \in Record
    BY <1>t DEF Record, Status
  <2>4. mission' \in [Mission -> Record]
    BY <1>t, <2>2, <2>3
  <2> QED BY <1>14, <2>1, <2>2, <2>4 DEF Decomposed, TypeOK, leases
<1>15. ASSUME NEW c \in Caller, PlanSent(c) PROVE TypeOK'
  <2>1. After(<<"plan", c>>) \in [Task -> Nat]
    BY <1>15, <1>t, TaskKinds, AfterType DEF PlanSent
  <2>2. disk' \in Disk
    BY <1>15, <1>t, <1>s DEF PlanSent
  <2> QED BY <1>15, <2>1, <2>2, PlusType DEF PlanSent, TypeOK, leases
<1>16. ASSUME NEW c \in Caller, Dequeued(c) PROVE TypeOK'
  <2>1. After(<<"next", c>>) \in [Task -> Nat]
    BY <1>16, <1>t, TaskKinds, AfterType DEF Dequeued
  <2> QED BY <1>16, <2>1, GoalType DEF Dequeued, TypeOK, leases
<1>17. ASSUME NEW m \in Mission, Opened(m) PROVE TypeOK'
  <2>1. disk' \in Disk
    BY <1>17, <1>t, <1>s DEF Opened
  <2>2. pending' \in [Task -> Nat] /\ owns' \in [Mission -> BOOLEAN]
    BY <1>17, <1>t, PlusType DEF Opened
  <2>3. active' \in Mission \cup {NoMission} /\ opening' \in [Mission -> Caller \cup {"none"}]
    BY <1>17, <1>t DEF Opened, TypeOK
  <2> QED BY <1>17, <2>1, <2>2, <2>3 DEF Opened, TypeOK
<1>18. ASSUME NEW m \in Mission, Resumed(m) PROVE TypeOK'
  <2> DEFINE ms == [mission EXCEPT ![m].status = "active"]
  <2>1. After(<<"resume", m>>) \in [Task -> Nat]
    BY <1>18, <1>t, TaskKinds, AfterType DEF Resumed
  <2>2. [mission[m] EXCEPT !.status = "active"] \in Record
    BY <1>t DEF Record, Status
  <2>3. ms \in [Mission -> Record]
    BY <1>t, <2>2
  <2>4. disk' \in Disk
    BY <1>18, <1>t, <1>s, <2>3, SaveType DEF Resumed
  <2>5. mission' \in [Mission -> Record] /\ pending' \in [Task -> Nat]
    BY <1>18, <1>t, <2>1, <2>3, ExecuteType DEF Resumed
  <2> QED BY <1>18, <1>t, <2>4, <2>5 DEF Resumed, TypeOK
<1>19. ASSUME NEW m \in Mission, Restore(m) PROVE TypeOK'
  <2>1. After(<<"restore", m>>) \in [Task -> Nat]
    BY <1>19, <1>t, TaskKinds, AfterType DEF Restore
  <2> QED BY <1>19, <2>1, PlusType DEF Restore, TypeOK, leases
<1>20. ASSUME NEW m \in Mission, Reclaimed(m) PROVE TypeOK'
  <2>1. After(<<"reclaim", m>>) \in [Task -> Nat]
    BY <1>20, <1>t, TaskKinds, AfterType DEF Reclaimed
  <2>2. /\ mission' \in [Mission -> Record] /\ pending' \in [Task -> Nat]
        /\ disk' \in Disk /\ owns' \in [Mission -> BOOLEAN]
    BY <1>20, <1>t, <1>s, <2>1, ExecuteType, HaltType DEF Reclaimed
  <2> QED BY <1>20, <2>2 DEF Reclaimed, TypeOK
<1>21. ASSUME NEW m \in Mission, LoseLease(m) PROVE TypeOK'
  BY <1>21, <1>t DEF LoseLease, Command, TypeOK
<1>22. ASSUME NEW m \in Mission, NEW s \in Step, Checked(m, s) PROVE TypeOK'
  <2>1. After(<<"check", m, s>>) \in [Task -> Nat]
    BY <1>22, <1>t, TaskKinds, AfterType DEF Checked
  <2>2. /\ mission' \in [Mission -> Record] /\ disk' \in Disk /\ executing' \in BOOLEAN
        /\ run' \in [Mission -> [Step -> Nat]] /\ pending' \in [Task -> Nat]
    BY <1>22, <1>t, <2>1, HaltType, BeginType, PlusType DEF Checked
  <2> QED BY <1>22, <2>2 DEF Checked, TypeOK, leases
<1>23. ASSUME NEW m \in Mission, NEW s \in Step, Leased(m, s) PROVE TypeOK'
  <2>1. After(<<"lease", m, s>>) \in [Task -> Nat]
    BY <1>23, <1>t, TaskKinds, AfterType DEF Leased
  <2>2. /\ mission' \in [Mission -> Record] /\ disk' \in Disk /\ executing' \in BOOLEAN
        /\ run' \in [Mission -> [Step -> Nat]] /\ owns' \in [Mission -> BOOLEAN]
    BY <1>23, <1>t, HaltType, BeginType DEF Leased
  <2> QED BY <1>23, <2>1, <2>2 DEF Leased, TypeOK
<1>24. ASSUME NEW m \in Mission, NEW s \in Step, RunEnds(m, s) PROVE TypeOK'
  <2>1. run' \in [Mission -> [Step -> Nat]]
    BY <1>24, <1>t DEF RunEnds
  <2>2. mission[m] \in Record /\ mission[m].retries[s] + 1 \in Nat
    BY <1>t DEF Record
  <2>3. CASE Returns(m, s)
    <3>1. PICK r \in {"done", "failed"} : GoOn(m, [mission EXCEPT ![m].step[s] = r])
      BY <2>3 DEF Returns
    <3>2. [mission[m] EXCEPT !.step[s] = r] \in Record
      BY <2>2 DEF Record
    <3>3. [mission EXCEPT ![m].step[s] = r] \in [Mission -> Record]
      BY <1>t, <3>2
    <3>4. /\ mission' \in [Mission -> Record] /\ disk' \in Disk
          /\ executing' \in BOOLEAN /\ pending' \in [Task -> Nat]
      BY <3>1, <3>3, GoOnType
    <3>5. adrift' \subseteq Mission \X Step
      BY <1>24 DEF RunEnds, TypeOK, TimesOut
    <3> QED BY <1>24, <2>1, <3>4, <3>5 DEF RunEnds, TypeOK, leases
  <2>4. CASE Throws(m, s)
    <3> DEFINE n == mission[m].retries[s] + 1
               tried == [mission EXCEPT ![m].retries[s] = n, ![m].step[s] = "pending"]
               ended == [mission EXCEPT ![m].retries[s] = n, ![m].step[s] = "failed"]
    <3>1. /\ [mission[m] EXCEPT !.retries[s] = n, !.step[s] = "pending"] \in Record
          /\ [mission[m] EXCEPT !.retries[s] = n, !.step[s] = "failed"] \in Record
      BY <2>2 DEF Record
    <3>2. tried \in [Mission -> Record] /\ ended \in [Mission -> Record]
      BY <1>t, <3>1
    <3>3. Save(active, tried, queue) => disk' \in Disk
      BY <1>t, <3>2, SaveType
    <3>4. /\ mission' \in [Mission -> Record] /\ disk' \in Disk
          /\ executing' \in BOOLEAN /\ pending' \in [Task -> Nat]
      <4>0. \/ n > MaxRetries /\ GoOn(m, ended)
            \/ /\ mission' = tried
               /\ IF active = m
                  THEN /\ executing' = FALSE /\ Save(active, tried, queue)
                       /\ pending' = Plus(pending, {<<"timer">>})
                  ELSE UNCHANGED <<executing, disk, pending>>
        BY <2>4, Zenon DEF Throws
      <4> HIDE DEF n, tried, ended
      <4>1. CASE n > MaxRetries /\ GoOn(m, ended)
        BY <4>1, <3>2, GoOnType
      <4>2. CASE /\ mission' = tried
                 /\ IF active = m
                    THEN /\ executing' = FALSE /\ Save(active, tried, queue)
                         /\ pending' = Plus(pending, {<<"timer">>})
                    ELSE UNCHANGED <<executing, disk, pending>>
        BY <4>2, <1>t, <3>2, <3>3, PlusType
      <4> QED BY <4>0, <4>1, <4>2
    <3>5. adrift' \subseteq Mission \X Step
      BY <1>24 DEF RunEnds, TypeOK, TimesOut
    <3> QED BY <1>24, <2>1, <3>4, <3>5 DEF RunEnds, TypeOK, leases
  <2>5. CASE TimesOut(m, s)
    <3> DEFINE failed == [mission EXCEPT ![m].step[s] = "failed"]
               ms == IF Running(m)
                     THEN [failed EXCEPT ![m].current = @ + 1, ![m].status = "paused"]
                     ELSE failed
    <3>1. [mission[m] EXCEPT !.step[s] = "failed"] \in Record
      BY <2>2 DEF Record
    <3>2. failed \in [Mission -> Record]
      BY <1>t, <3>1
    <3>3. [failed[m] EXCEPT !.current = @ + 1, !.status = "paused"] \in Record
      <4>1. \A x \in Record : [x EXCEPT !.current = @ + 1, !.status = "paused"] \in Record
        <5> TAKE x \in Record
        <5>1. [x EXCEPT !.current = @ + 1] \in Record
          BY DEF Record
        <5>2. \A y \in Record : [y EXCEPT !.status = "paused"] \in Record
          BY DEF Record, Status
        <5>3. [x EXCEPT !.current = @ + 1, !.status = "paused"]
                  = [[x EXCEPT !.current = @ + 1] EXCEPT !.status = "paused"]
          BY DEF Record
        <5> QED BY <5>1, <5>2, <5>3
      <4>2. failed[m] \in Record
        BY <3>2
      <4> HIDE DEF failed
      <4> QED BY <4>1, <4>2
    <3>4. ms \in [Mission -> Record]
      BY <3>2, <3>3
    <3>5. Save(active, ms, queue) => disk' \in Disk
      BY <1>t, <3>4, SaveType
    <3>6. mission' = ms /\ disk' \in Disk /\ executing' \in BOOLEAN
      BY <2>5, <1>t, <3>5 DEF TimesOut
    <3> QED BY <1>24, <2>1, <2>5, <3>4, <3>6 DEF TimesOut, RunEnds, TypeOK, leases
  <2> QED BY <1>24, <2>3, <2>4, <2>5 DEF RunEnds
<1>25. ASSUME NEW m \in Mission, NEW s \in Step, DriftEnds(m, s) PROVE TypeOK'
  BY <1>25 DEF DriftEnds, TypeOK, leases
<1>26. CASE UNCHANGED vars
  BY <1>26 DEF vars, TypeOK
<1> QED
  BY <1>1, <1>2, <1>3, <1>4, <1>5, <1>6, <1>7, <1>8, <1>9, <1>10, <1>11, <1>12, <1>13, <1>14,
     <1>15, <1>16, <1>17, <1>18, <1>19, <1>20, <1>21, <1>22, <1>23, <1>24, <1>25, <1>26 DEF Next

\* Missions, continuations, runs and the file keep their types.
THEOREM TypeCorrect == Spec => []TypeOK
<1> QED BY TypeInit, TypeStep, PTL DEF Spec

-----------------------------------------------------------------------------
(* The inductive invariant.  The flag is what keeps runs apart: whenever a   *)
(* mission is active and the flag is down, no run of it is awaited (FlagOK). *)
(* The flag is lowered by the end of the run itself, or together with        *)
(* `active`, and an object that has left `active` comes back only by a       *)
(* restart, which has no runs.                                               *)

Idle(m) == \A s \in Step : run[m][s] = 0

FlagOK == active # NoMission /\ ~executing => Idle(active)
FreshOK == \A m \in Mission : mission[m].status = "new" => Idle(m)
GoneOK == \A m \in Mission : mission[m].status = "cancelled" => active # m /\ disk.active # m

IInv == TypeOK /\ FlagOK /\ FreshOK /\ GoneOK /\ OneAwaitedRun /\ DoneStaysDone /\ RestartResumes

LEMMA InitInv == Init => IInv
<1> SUFFICES ASSUME Init PROVE IInv
  OBVIOUS
<1>1. TypeOK
  BY TypeInit
<1>2. \A m \in Mission : mission[m].status = "new" /\ Idle(m)
  BY DEF Init, NewMission, Idle
<1>3. active = NoMission
  BY DEF Init
<1>4. OneAwaitedRun
  BY <1>2 DEF OneAwaitedRun, Idle
<1>5. RestartResumes
  BY <1>3, MissionAssumption DEF RestartResumes
<1> QED BY <1>1, <1>2, <1>3, <1>4, <1>5 DEF IInv, FlagOK, FreshOK, GoneOK, DoneStaysDone

\* Handlers that leave missions and runs alone.
LEMMA Quiet ==
    ASSUME IInv, TypeOK', UNCHANGED <<active, mission, executing, run>>,
           Save(active, mission, queue') \/ UNCHANGED <<disk, queue, opening>>
    PROVE  IInv'
<1>1. FlagOK' /\ FreshOK' /\ OneAwaitedRun' /\ DoneStaysDone'
  BY DEF IInv, FlagOK, FreshOK, Idle, OneAwaitedRun, DoneStaysDone
<1>2. GoneOK'
  BY DEF IInv, GoneOK, Save, Image
<1>3. RestartResumes'
  BY DEF IInv, RestartResumes, Save, Image
<1> QED BY <1>1, <1>2, <1>3 DEF IInv

\* Handlers that change the active mission between active and paused, and save it.
LEMMA Resaved ==
    ASSUME IInv, TypeOK', NEW ms, mission' = ms, Save(active, ms, queue),
           active \in Mission => ms[active].status \in {"active", "paused"},
           \A m \in Mission : m # active => ms[m] = mission[m],
           UNCHANGED <<active, executing, run, queue, opening>>
    PROVE  IInv'
<1>2. FlagOK' /\ FreshOK' /\ OneAwaitedRun' /\ DoneStaysDone'
  BY DEF IInv, FlagOK, FreshOK, Idle, OneAwaitedRun, DoneStaysDone
<1>3. GoneOK'
  BY DEF IInv, GoneOK, Save, Image
<1>4. RestartResumes'
  BY DEF RestartResumes, Save, Image
<1> QED BY <1>2, <1>3, <1>4 DEF IInv

\* An executor call: nothing, a continuation, or the verdict on a mission whose
\* file is up to date with it still active.
LEMMA Executed ==
    ASSUME IInv, TypeOK', NEW p, NEW ms \in [Mission -> Record], Execute(p, ms),
           UNCHANGED <<active, executing, run, queue, opening>>,
           \/ ms = mission /\ (UNCHANGED disk \/ Save(active, mission, queue))
           \/ /\ active \in Mission /\ ms = [mission EXCEPT ![active].status = "active"]
              /\ Save(active, ms, queue)
    PROVE  IInv'
<1>0. mission \in [Mission -> Record]
  BY DEF IInv, TypeOK
<1>1. CASE mission' = ms
  <2>1. CASE ms = mission
    <3>1. UNCHANGED <<active, mission, executing, run>>
      BY <1>1, <2>1
    <3>2. Save(active, mission, queue') \/ UNCHANGED <<disk, queue, opening>>
      BY <2>1
    <3> QED BY <3>1, <3>2, Quiet
  <2>2. CASE /\ active \in Mission /\ ms = [mission EXCEPT ![active].status = "active"]
             /\ Save(active, ms, queue)
    <3>1. /\ ms[active].status \in {"active", "paused"}
          /\ \A m \in Mission : m # active => ms[m] = mission[m]
      BY <1>0, <2>2 DEF Record
    <3> QED BY <1>1, <2>2, <3>1, Resaved
  <2> QED BY <2>1, <2>2
<1>2. CASE /\ ~(active # NoMission => ms[active].status # "active" \/ executing)
           /\ \E v \in Verdicts(ms[active]) : mission' = [ms EXCEPT ![active].status = v]
  <2>1. active \in Mission /\ active # NoMission /\ ~executing
    BY <1>2 DEF IInv, TypeOK
  <2>2. PICK v \in Verdicts(ms[active]) : mission' = [ms EXCEPT ![active].status = v]
    BY <1>2
  <2>3. /\ v \in {"done", "failed"}
        /\ v = "done" => \A s \in Step : ms[active].step[s] = "done"
    BY <2>2 DEF Verdicts
  <2>4. /\ mission'[active].status = v /\ mission'[active].step = ms[active].step
        /\ \A m \in Mission : m # active => mission'[m] = ms[m]
    BY <2>1, <2>2 DEF Record
  <2>5. /\ \A m \in Mission : m # active => mission'[m] = mission[m]
    BY <1>0, <2>4
  <2>6. Idle(active)
    BY <2>1 DEF IInv, FlagOK
  <2>7. FlagOK' /\ FreshOK' /\ OneAwaitedRun'
    BY <2>1, <2>3, <2>4, <2>5, <2>6 DEF IInv, FlagOK, FreshOK, Idle, OneAwaitedRun
  <2>8. DoneStaysDone'
    BY <2>1, <2>3, <2>4, <2>5, <2>6 DEF IInv, DoneStaysDone, Idle
  <2>9. GoneOK'
    BY <2>1, <2>3, <2>4, <2>5 DEF IInv, GoneOK, Save, Image
  <2>10. RestartResumes'
    BY <2>1, <2>3, <2>4 DEF RestartResumes
  <2> QED BY <2>7, <2>8, <2>9, <2>10 DEF IInv
<1> QED BY <1>1, <1>2 DEF Execute

\* A mission that is halted.
LEMMA Halted ==
    ASSUME IInv, TypeOK', NEW m \in Mission, Halt(m),
           UNCHANGED <<active, executing, run, queue, opening>>
    PROVE  IInv'
<1>1. CASE Running(m)
  <2> DEFINE ms == [mission EXCEPT ![m].status = "paused"]
  <2>1. active = m /\ mission' = ms /\ Save(active, ms, queue)
    BY <1>1 DEF Halt, Running
  <2>2. /\ ms[m].status = "paused"
        /\ \A n \in Mission : n # m => ms[n] = mission[n]
    BY DEF IInv, TypeOK, Record
  <2> HIDE DEF ms
  <2> QED BY <2>1, <2>2, Resaved
<1>2. CASE ~Running(m)
  <2>1. UNCHANGED <<active, mission, executing, run>> /\ UNCHANGED <<disk, queue, opening>>
    BY <1>2 DEF Halt
  <2> QED BY <2>1, Quiet
<1> QED BY <1>1, <1>2

\* A step that starts: the flag was down, so no run of the mission is awaited.
LEMMA Begun ==
    ASSUME IInv, TypeOK', NEW m \in Mission, NEW s \in Step, Begin(m, s),
           UNCHANGED <<active, queue, opening>>
    PROVE  IInv'
<1>1. CASE Running(m) /\ ~executing
  <2> DEFINE x == [mission[m] EXCEPT !.step[s] = "active"]
  <2>0. /\ mission \in [Mission -> Record] /\ run \in [Mission -> [Step -> Nat]]
        /\ active = m /\ m # NoMission /\ mission[m].status = "active"
    BY <1>1, MissionAssumption DEF IInv, TypeOK, Running
  <2>1. x.status = "active"
    BY <2>0 DEF Record
  <2>2. /\ mission' = [mission EXCEPT ![m] = x] /\ Save(active, mission', queue)
        /\ executing' = TRUE /\ run' = [run EXCEPT ![m][s] = @ + 1]
    BY <1>1, <2>0 DEF Begin
  <2> HIDE DEF x
  <2>3. /\ mission'[m].status = "active"
        /\ \A n \in Mission : n # m => mission'[n] = mission[n] /\ run'[n] = run[n]
    BY <2>0, <2>1, <2>2
  <2>4. Idle(m)
    BY <1>1, <2>0 DEF IInv, FlagOK
  <2>5. run'[m][s] = 1 /\ \A t \in Step : t # s => run'[m][t] = 0
    BY <2>0, <2>2, <2>4 DEF Idle
  <2>6. FlagOK' /\ FreshOK'
    BY <2>2, <2>3 DEF IInv, FlagOK, FreshOK, Idle
  <2>7. OneAwaitedRun'
    BY <2>3, <2>5 DEF IInv, OneAwaitedRun
  <2>8. DoneStaysDone'
    BY <2>3 DEF IInv, DoneStaysDone
  <2>9. GoneOK'
    BY <2>0, <2>2, <2>3 DEF IInv, GoneOK, Save, Image
  <2>10. RestartResumes'
    BY <2>2 DEF RestartResumes, Save, Image
  <2> QED BY <2>6, <2>7, <2>8, <2>9, <2>10 DEF IInv
<1>2. CASE ~(Running(m) /\ ~executing)
  BY <1>2, Quiet DEF Begin
<1> QED BY <1>1, <1>2

\* What the end of a run does to missions and file: the mission has the run's
\* result and is not called done by it; if it is the active one, it is saved and
\* the flag goes down.
Ended(m, s) ==
    /\ \A n \in Mission : n # m => mission'[n] = mission[n]
    /\ mission'[m].status \in {mission[m].status, "paused"}
    /\ mission'[m].status # mission[m].status => Running(m)
    /\ IF active = m THEN executing' = FALSE /\ Save(active, mission', queue)
                     ELSE UNCHANGED <<executing, disk>>

LEMMA GoOnEnds ==
    ASSUME IInv, NEW m \in Mission, NEW s \in Step, NEW ms \in [Mission -> Record], GoOn(m, ms),
           ms[m].status = mission[m].status,
           \A n \in Mission : n # m => ms[n] = mission[n]
    PROVE  Ended(m, s)
<1>1. CASE active # m
  BY <1>1 DEF GoOn, Ended
<1>2. CASE active = m
  <2> DEFINE gone == IF ms[m].status = "paused" THEN ms ELSE [ms EXCEPT ![m].current = @ + 1]
  <2>1. executing' = FALSE /\ mission' = gone /\ Save(active, gone, queue)
    BY <1>2 DEF GoOn
  <2>2. gone[m].status = ms[m].status /\ \A n \in Mission : n # m => gone[n] = ms[n]
    BY DEF Record
  <2> QED BY <1>2, <2>1, <2>2 DEF Ended
<1> QED BY <1>1, <1>2

LEMMA RunEnded ==
    ASSUME IInv, NEW m \in Mission, NEW s \in Step, RunEnds(m, s)
    PROVE  Ended(m, s)
<1>0. mission \in [Mission -> Record] /\ mission[m] \in Record /\ mission[m].retries[s] + 1 \in Nat
  BY DEF IInv, TypeOK, Record
<1>1. CASE Returns(m, s)
  <2>1. PICK r \in {"done", "failed"} : GoOn(m, [mission EXCEPT ![m].step[s] = r])
    BY <1>1 DEF Returns
  <2> DEFINE ms == [mission EXCEPT ![m].step[s] = r]
  <2>2. [mission[m] EXCEPT !.step[s] = r] \in Record
    BY <1>0 DEF Record
  <2>3. ms \in [Mission -> Record]
    BY <1>0, <2>2
  <2>4. ms[m].status = mission[m].status /\ \A n \in Mission : n # m => ms[n] = mission[n]
    BY <1>0 DEF Record
  <2>5. GoOn(m, ms)
    BY <2>1
  <2> HIDE DEF ms
  <2> QED BY <2>3, <2>4, <2>5, GoOnEnds
<1>2. CASE Throws(m, s)
  <2> DEFINE n == mission[m].retries[s] + 1
             tried == [mission EXCEPT ![m].retries[s] = n, ![m].step[s] = "pending"]
             ended == [mission EXCEPT ![m].retries[s] = n, ![m].step[s] = "failed"]
  <2>1. [mission[m] EXCEPT !.retries[s] = n, !.step[s] = "failed"] \in Record
    BY <1>0 DEF Record
  <2>2. ended \in [Mission -> Record]
    BY <1>0, <2>1
  <2>3. /\ ended[m].status = mission[m].status /\ tried[m].status = mission[m].status
        /\ \A o \in Mission : o # m => ended[o] = mission[o] /\ tried[o] = mission[o]
    BY <1>0 DEF Record
  <2>4. \/ GoOn(m, ended)
        \/ /\ mission' = tried
           /\ IF active = m THEN executing' = FALSE /\ Save(active, tried, queue)
                            ELSE UNCHANGED <<executing, disk>>
    BY <1>2 DEF Throws
  <2> HIDE DEF tried, ended
  <2>5. CASE GoOn(m, ended)
    BY <2>2, <2>3, <2>5, GoOnEnds
  <2>6. CASE /\ mission' = tried
             /\ IF active = m THEN executing' = FALSE /\ Save(active, tried, queue)
                              ELSE UNCHANGED <<executing, disk>>
    BY <2>3, <2>6 DEF Ended
  <2> QED BY <2>4, <2>5, <2>6
<1>3. CASE TimesOut(m, s)
  <2> DEFINE failed == [mission EXCEPT ![m].step[s] = "failed"]
             ms == IF Running(m)
                   THEN [failed EXCEPT ![m].current = @ + 1, ![m].status = "paused"]
                   ELSE failed
  <2>1. /\ failed[m].status = mission[m].status /\ failed \in [Mission -> Record]
        /\ \A o \in Mission : o # m => failed[o] = mission[o]
    <3>1. [mission[m] EXCEPT !.step[s] = "failed"] \in Record
      BY <1>0 DEF Record
    <3> QED BY <1>0, <3>1 DEF Record
  <2>2. /\ ms[m].status = IF Running(m) THEN "paused" ELSE mission[m].status
        /\ \A o \in Mission : o # m => ms[o] = mission[o]
    <3> HIDE DEF failed
    <3> QED BY <2>1 DEF Record
  <2>3. /\ mission' = ms
        /\ IF active = m THEN executing' = FALSE /\ Save(active, ms, queue)
                         ELSE UNCHANGED <<executing, disk>>
    BY <1>3 DEF TimesOut
  <2> HIDE DEF ms
  <2> QED BY <2>2, <2>3 DEF Ended
<1> QED BY <1>1, <1>2, <1>3 DEF RunEnds

\* The end of a run keeps the invariant.
LEMMA EndKeeps ==
    ASSUME IInv, TypeOK', NEW m \in Mission, NEW s \in Step, RunEnds(m, s)
    PROVE  IInv'
<1>0. /\ mission \in [Mission -> Record] /\ run \in [Mission -> [Step -> Nat]]
      /\ run[m][s] > 0 /\ run' = [run EXCEPT ![m][s] = @ - 1]
      /\ UNCHANGED <<active, queue, opening>>
  BY DEF IInv, TypeOK, RunEnds
<1>1. Ended(m, s)
  BY RunEnded
<1>2. run[m][s] = 1 /\ \A t \in Step : t # s => run[m][t] = 0
  BY <1>0 DEF IInv, OneAwaitedRun
<1>3. /\ \A t \in Step : run'[m][t] = 0
      /\ \A n \in Mission : n # m => run'[n] = run[n]
  BY <1>0, <1>2
<1>4. mission[m].status \notin {"new", "done"}
  BY <1>2 DEF IInv, FreshOK, Idle, DoneStaysDone
<1>5. FlagOK' /\ FreshOK' /\ OneAwaitedRun'
  BY <1>0, <1>1, <1>3, <1>4 DEF IInv, FlagOK, FreshOK, Idle, OneAwaitedRun, Ended
<1>6. DoneStaysDone'
  BY <1>1, <1>3, <1>4 DEF IInv, DoneStaysDone, Ended
<1>7. GoneOK'
  BY <1>0, <1>1 DEF IInv, GoneOK, Ended, Running, Save, Image
<1>8. RestartResumes'
  <2>1. CASE active = m
    BY <1>0, <1>1, <2>1 DEF RestartResumes, Ended, Save, Image
  <2>2. CASE active # m
    BY <1>0, <1>1, <2>2 DEF IInv, RestartResumes, Ended, Image
  <2> QED BY <2>1, <2>2
<1> QED BY <1>5, <1>6, <1>7, <1>8 DEF IInv

\* Handlers that give the active mission up, with or without saving.
LEMMA Dropped ==
    ASSUME IInv, TypeOK', active' = NoMission, run' = run,
           \A m \in Mission : \/ mission'[m] = mission[m]
                              \/ m = active /\ mission'[m].status = "cancelled",
           \/ Save(NoMission, mission, queue)
           \/ UNCHANGED <<mission, disk>>
    PROVE  IInv'
<1>0. NoMission \notin Mission
  BY MissionAssumption
<1>1. FlagOK' /\ FreshOK' /\ OneAwaitedRun' /\ DoneStaysDone' /\ RestartResumes'
  BY <1>0 DEF IInv, FlagOK, FreshOK, Idle, OneAwaitedRun, DoneStaysDone, RestartResumes
<1>2. GoneOK'
  <2>1. CASE Save(NoMission, mission, queue)
    BY <1>0, <2>1 DEF GoneOK, Save, Image
  <2>2. CASE UNCHANGED <<mission, disk>>
    BY <1>0, <2>2 DEF IInv, GoneOK
  <2> QED BY <2>1, <2>2
<1> QED BY <1>1, <1>2 DEF IInv

\* What a start leaves in memory and file until its first await.
LEMMA GoalQuiet ==
    ASSUME NEW p, NEW c, Goal(p, c)
    PROVE  Save(active, mission, queue') \/ UNCHANGED <<queue, disk>>
BY DEF Goal

LEMMA StartNextQuiet ==
    ASSUME NEW p, NEW c, StartNext(p, c)
    PROVE  Save(active, mission, queue') \/ UNCHANGED <<queue, disk>>
<1>1. CASE queue > 0 /\ active = NoMission
  BY <1>1 DEF StartNext
<1>2. CASE ~(queue > 0 /\ active = NoMission)
  BY <1>2 DEF StartNext
<1> QED BY <1>1, <1>2

\* The invariant is inductive.
LEMMA StepInv == IInv /\ [Next]_vars => IInv'
<1> SUFFICES ASSUME IInv, [Next]_vars PROVE IInv'
  OBVIOUS
<1>t. TypeOK'
  BY TypeStep DEF IInv
<1>a. mission \in [Mission -> Record] /\ active \in Mission \cup {NoMission}
  BY DEF IInv, TypeOK
<1>1. CASE Start
  <2>1. UNCHANGED <<active, mission, executing, run, opening>>
    BY <1>1 DEF Start
  <2>2. Save(active, mission, queue') \/ UNCHANGED <<queue, disk>>
    BY <1>1, GoalQuiet DEF Start
  <2> QED BY <1>t, <2>1, <2>2, Quiet
<1>2. CASE Cancel
  <2>1. /\ active' = NoMission /\ run' = run /\ Save(NoMission, mission, queue)
        /\ mission' = [mission EXCEPT ![active].status = "cancelled"]
    BY <1>2 DEF Cancel
  <2>2. \A m \in Mission : \/ mission'[m] = mission[m]
                           \/ m = active /\ mission'[m].status = "cancelled"
    BY <1>a, <2>1 DEF Record
  <2> QED BY <1>t, <2>1, <2>2, Dropped
<1>3. CASE Pause
  <2> DEFINE ms == [mission EXCEPT ![active].status = "paused"]
  <2>1. /\ mission' = ms /\ Save(active, ms, queue)
        /\ UNCHANGED <<active, executing, run, queue, opening>>
    BY <1>3 DEF Pause
  <2>2. /\ active \in Mission => ms[active].status \in {"active", "paused"}
        /\ \A m \in Mission : m # active => ms[m] = mission[m]
    BY <1>a DEF Record
  <2> HIDE DEF ms
  <2> QED BY <1>t, <2>1, <2>2, Resaved
<1>4. CASE Resume
  <2>1. UNCHANGED <<active, mission, executing, run, opening>> /\ Save(active, mission, queue')
    BY <1>4 DEF Resume
  <2> QED BY <1>t, <2>1, Quiet
<1>5. CASE Timer
  <2>1. /\ Execute(After(<<"timer">>), mission)
        /\ UNCHANGED <<active, executing, run, queue, opening, disk>>
    BY <1>5 DEF Timer
  <2> QED BY <1>t, <1>a, <2>1, Executed
<1>6. CASE Reported
  BY <1>t, <1>6, Quiet DEF Reported
<1>7. CASE Published
  BY <1>t, <1>7, Dropped DEF Published
<1>8. CASE Tail
  <2>1. UNCHANGED <<active, mission, executing, run, opening>>
    BY <1>8 DEF Tail
  <2>2. Save(active, mission, queue') \/ UNCHANGED <<queue, disk>>
    BY <1>8, GoalQuiet, StartNextQuiet DEF Tail
  <2> QED BY <1>t, <2>1, <2>2, Quiet
<1>9. CASE Again
  <2>1. UNCHANGED <<active, mission, executing, run, opening>>
    BY <1>9 DEF Again
  <2>2. Save(active, mission, queue') \/ UNCHANGED <<queue, disk>>
    BY <1>9, StartNextQuiet DEF Again
  <2> QED BY <1>t, <2>1, <2>2, Quiet
<1>10. CASE Restart
  <2> DEFINE kept == disk.active # NoMission /\ disk.copy.status \in {"active", "paused"}
  <2>0. disk \in Disk /\ NoMission \notin Mission
    BY MissionAssumption DEF IInv, TypeOK
  <2>1. \A m \in Mission, s \in Step : run'[m][s] = 0
    BY <1>10 DEF Restart
  <2>2. queue' = disk.queue /\ disk' = disk
    BY <1>10 DEF Restart
  <2>3. CASE kept
    <3>1. /\ active' = disk.active /\ active' \in Mission
          /\ mission' = [mission EXCEPT ![disk.active] = disk.copy]
      BY <1>10, <2>0, <2>3 DEF Restart, Disk
    <3>2. /\ mission'[active'] = disk.copy /\ disk.copy.status \in {"active", "paused"}
          /\ \A m \in Mission : m # active' => mission'[m] = mission[m]
      BY <1>a, <2>3, <3>1
    <3>3. FlagOK' /\ FreshOK' /\ OneAwaitedRun'
      BY <2>1, <3>1 DEF FlagOK, FreshOK, Idle, OneAwaitedRun
    <3>4. DoneStaysDone' /\ GoneOK'
      BY <2>1, <2>2, <3>1, <3>2 DEF IInv, DoneStaysDone, GoneOK
    <3>5. RestartResumes'
      BY <2>0, <2>2, <3>1, <3>2 DEF RestartResumes, Image, Disk
    <3> QED BY <1>t, <3>3, <3>4, <3>5 DEF IInv
  <2>4. CASE ~kept
    <3>1. active' = NoMission /\ mission' = mission
      BY <1>10, <2>4 DEF Restart
    <3>2. FlagOK' /\ FreshOK' /\ OneAwaitedRun'
      BY <2>1, <3>1 DEF FlagOK, FreshOK, Idle, OneAwaitedRun
    <3>3. DoneStaysDone' /\ GoneOK' /\ RestartResumes'
      BY <2>0, <2>1, <2>2, <3>1 DEF IInv, DoneStaysDone, GoneOK, RestartResumes
    <3> QED BY <1>t, <3>2, <3>3 DEF IInv
  <2> QED BY <2>3, <2>4
<1>11. CASE LoseMain
  BY <1>t, <1>11, Quiet DEF LoseMain
<1>12. CASE Suspend
  <2>1. UNCHANGED <<active, executing, run, queue, opening>>
    BY <1>12 DEF Suspend
  <2>2. CASE active = NoMission
    BY <1>t, <1>12, <2>1, <2>2, Quiet DEF Suspend
  <2>3. CASE active # NoMission
    <3>1. active \in Mission /\ Halt(active)
      BY <1>12, <1>a, <2>3 DEF Suspend
    <3> QED BY <1>t, <2>1, <3>1, Halted
  <2> QED BY <2>2, <2>3
<1>13. CASE GainMain
  BY <1>t, <1>13, Quiet DEF GainMain
<1>14. ASSUME NEW c \in Caller, Decomposed(c) PROVE IInv'
  <2>1. PICK m \in Mission :
            /\ mission[m].status = "new" /\ active' = m
            /\ mission' = [mission EXCEPT ![m].status = "active"]
            /\ opening' = [opening EXCEPT ![m] = c]
    BY <1>14 DEF Decomposed
  <2>2. UNCHANGED <<executing, queue, run, disk>>
    BY <1>14 DEF Decomposed
  <2>3. /\ mission'[m].status = "active" /\ opening'[m] # "none"
        /\ \A n \in Mission : n # m => mission'[n] = mission[n]
    BY <1>a, <2>1 DEF IInv, TypeOK, Record, Caller
  <2>4. FlagOK' /\ FreshOK' /\ OneAwaitedRun'
    BY <2>1, <2>2, <2>3 DEF IInv, FlagOK, FreshOK, Idle, OneAwaitedRun
  <2>5. DoneStaysDone' /\ GoneOK' /\ RestartResumes'
    BY <2>1, <2>2, <2>3 DEF IInv, DoneStaysDone, GoneOK, RestartResumes
  <2> QED BY <1>t, <2>4, <2>5 DEF IInv
<1>15. ASSUME NEW c \in Caller, PlanSent(c) PROVE IInv'
  <2>1. UNCHANGED <<active, mission, executing, run, queue, opening>>
    BY <1>15 DEF PlanSent
  <2>2. Save(active, mission, queue) \/ UNCHANGED disk
    BY <1>15 DEF PlanSent
  <2> QED BY <1>t, <2>1, <2>2, Quiet
<1>16. ASSUME NEW c \in Caller, Dequeued(c) PROVE IInv'
  <2>1. UNCHANGED <<active, mission, executing, run, opening>>
    BY <1>16 DEF Dequeued
  <2>2. Save(active, mission, queue') \/ UNCHANGED <<queue, disk>>
    BY <1>16, GoalQuiet DEF Dequeued
  <2> QED BY <1>t, <2>1, <2>2, Quiet
<1>17. ASSUME NEW m \in Mission, Opened(m) PROVE IInv'
  <2>1. UNCHANGED <<mission, executing, run, queue>>
    BY <1>17 DEF Opened
  <2>2. CASE Save(active, mission, queue) /\ UNCHANGED active
    <3>1. FlagOK' /\ FreshOK' /\ OneAwaitedRun' /\ DoneStaysDone'
      BY <2>1, <2>2 DEF IInv, FlagOK, FreshOK, Idle, OneAwaitedRun, DoneStaysDone
    <3>2. GoneOK' /\ RestartResumes'
      BY <2>1, <2>2 DEF IInv, GoneOK, RestartResumes, Save, Image
    <3> QED BY <1>t, <3>1, <3>2 DEF IInv
  <2>3. CASE active' = NoMission /\ UNCHANGED disk
    BY <1>t, <2>1, <2>3, Dropped
  <2> QED BY <1>17, <2>2, <2>3 DEF Opened
<1>18. ASSUME NEW m \in Mission, Resumed(m) PROVE IInv'
  <2>1. UNCHANGED <<active, executing, run, queue, opening>>
    BY <1>18 DEF Resumed
  <2> DEFINE ms == [mission EXCEPT ![m].status = "active"]
  <2>2. CASE active = m /\ Save(active, ms, queue) /\ Execute(After(<<"resume", m>>), ms)
    <3>1. ms \in [Mission -> Record]
      <4>1. [mission[m] EXCEPT !.status = "active"] \in Record
        BY <1>a DEF Record, Status
      <4> QED BY <1>a, <4>1
    <3>2. ms = [mission EXCEPT ![active].status = "active"] /\ active \in Mission
      BY <2>2
    <3> HIDE DEF ms
    <3> QED BY <1>t, <2>1, <2>2, <3>1, <3>2, Executed
  <2>3. CASE Save(active, mission, queue) /\ UNCHANGED mission
    BY <1>t, <2>1, <2>3, Quiet
  <2> QED BY <1>18, <2>2, <2>3 DEF Resumed
<1>19. ASSUME NEW m \in Mission, Restore(m) PROVE IInv'
  BY <1>t, <1>19, Quiet DEF Restore
<1>20. ASSUME NEW m \in Mission, Reclaimed(m) PROVE IInv'
  <2>1. UNCHANGED <<active, executing, run, queue, opening>>
    BY <1>20 DEF Reclaimed
  <2>2. CASE Save(active, mission, queue) /\ Execute(After(<<"reclaim", m>>), mission)
    BY <1>t, <1>a, <2>1, <2>2, Executed
  <2>3. CASE Halt(m)
    BY <1>t, <2>1, <2>3, Halted
  <2> QED BY <1>20, <2>2, <2>3 DEF Reclaimed
<1>21. ASSUME NEW m \in Mission, LoseLease(m) PROVE IInv'
  BY <1>t, <1>21, Quiet DEF LoseLease
<1>22. ASSUME NEW m \in Mission, NEW s \in Step, Checked(m, s) PROVE IInv'
  <2>1. UNCHANGED <<active, queue, opening>>
    BY <1>22 DEF Checked
  <2>2. CASE Halt(m) /\ UNCHANGED <<executing, run>>
    BY <1>t, <2>1, <2>2, Halted
  <2>3. CASE Begin(m, s)
    BY <1>t, <2>1, <2>3, Begun
  <2>4. CASE UNCHANGED <<mission, disk, executing, run>>
    BY <1>t, <2>1, <2>4, Quiet
  <2> QED BY <1>22, <2>2, <2>3, <2>4 DEF Checked
<1>23. ASSUME NEW m \in Mission, NEW s \in Step, Leased(m, s) PROVE IInv'
  <2>1. UNCHANGED <<active, queue, opening>>
    BY <1>23 DEF Leased
  <2>2. CASE Begin(m, s)
    BY <1>t, <2>1, <2>2, Begun
  <2>3. CASE (IF executing THEN UNCHANGED <<mission, disk>> ELSE Halt(m))
             /\ UNCHANGED <<executing, run>>
    <3>1. CASE executing
      BY <1>t, <2>1, <2>3, <3>1, Quiet
    <3>2. CASE ~executing
      BY <1>t, <2>1, <2>3, <3>2, Halted
    <3> QED BY <3>1, <3>2
  <2> QED BY <1>23, <2>2, <2>3 DEF Leased
<1>24. ASSUME NEW m \in Mission, NEW s \in Step, RunEnds(m, s) PROVE IInv'
  BY <1>t, <1>24, EndKeeps
<1>25. ASSUME NEW m \in Mission, NEW s \in Step, DriftEnds(m, s) PROVE IInv'
  BY <1>t, <1>25, Quiet DEF DriftEnds
<1>26. CASE UNCHANGED vars
  BY <1>t, <1>26, Quiet DEF vars
<1> QED
  BY <1>1, <1>2, <1>3, <1>4, <1>5, <1>6, <1>7, <1>8, <1>9, <1>10, <1>11, <1>12, <1>13, <1>14,
     <1>15, <1>16, <1>17, <1>18, <1>19, <1>20, <1>21, <1>22, <1>23, <1>24, <1>25, <1>26 DEF Next

\* The inductive invariant holds: flag, fresh and cancelled missions, and the
\* three safety invariants.
THEOREM Invariant == Spec => []IInv
<1> QED BY InitInv, StepInv, PTL DEF Spec

\* At most one pipeline run of a mission is awaited at a time, for any number
\* of missions, steps, retries and commands.
THEOREM OneRunPerMission == Spec => []OneAwaitedRun
<1>1. IInv => OneAwaitedRun
  BY DEF IInv
<1> QED BY <1>1, Invariant, PTL

\* As long as a mission is called done its steps are verified and none of them runs
\* (pauseMission may still take it away from done before its report is sent).
THEOREM DoneForGood == Spec => []DoneStaysDone
<1>1. IInv => DoneStaysDone
  BY DEF IInv
<1> QED BY <1>1, Invariant, PTL

\* The file always holds the active mission with all its progress.
THEOREM FileIsCurrent == Spec => []RestartResumes
<1>1. IInv => RestartResumes
  BY DEF IInv
<1> QED BY <1>1, Invariant, PTL

\* A cancelled mission is not the active one, in memory or on disk, so nothing
\* that a handler does to the active mission reaches it.
LEMMA CancelStep ==
    ASSUME IInv, [Next]_vars, NEW n \in Mission, mission[n].status = "cancelled"
    PROVE  /\ mission'[n].status = "cancelled"
           /\ \A s \in Step : run'[n][s] <= run[n][s]
<1>a. /\ active # n /\ disk.active # n
      /\ mission \in [Mission -> Record] /\ active \in Mission \cup {NoMission}
      /\ run \in [Mission -> [Step -> Nat]]
  BY DEF IInv, TypeOK, GoneOK
<1>b. run' = run => \A s \in Step : run'[n][s] <= run[n][s]
  BY <1>a
<1>c. \A m \in Mission : Halt(m) => mission'[n] = mission[n]
  BY <1>a DEF Halt, Running
<1>d. ASSUME NEW p, NEW ms, Execute(p, ms), ms[n] = mission[n] PROVE mission'[n] = mission[n]
  <2>1. \A v : [ms EXCEPT ![active].status = v][n] = ms[n] \/ n \notin DOMAIN ms
    BY <1>a
  <2>2. CASE mission' = ms
    BY <1>d, <2>2
  <2>3. CASE active # NoMission /\ \E v \in Verdicts(ms[active]) :
                 mission' = [ms EXCEPT ![active].status = v]
    <3> PICK v \in Verdicts(ms[active]) : mission' = [ms EXCEPT ![active].status = v]
      BY <2>3
    <3>1. mission' \in [Mission -> Record]
      BY TypeStep DEF IInv, TypeOK
    <3>2. n \in DOMAIN ms
      BY <3>1
    <3> QED BY <1>d, <2>1, <3>2
  <2> QED BY <1>d, <2>2, <2>3 DEF Execute
<1>e. ASSUME NEW m \in Mission, NEW s \in Step, Begin(m, s)
      PROVE  mission'[n] = mission[n] /\ run'[n] = run[n]
  <2>1. CASE Running(m) /\ ~executing
    BY <1>a, <1>e, <2>1 DEF Begin, Running
  <2>2. CASE ~(Running(m) /\ ~executing)
    BY <1>e, <2>2 DEF Begin
  <2> QED BY <2>1, <2>2
<1>1. CASE UNCHANGED <<mission, run>>
  BY <1>b, <1>1
<1>2. CASE Cancel
  BY <1>a, <1>b, <1>2 DEF Cancel
<1>3. CASE Pause
  BY <1>a, <1>b, <1>3 DEF Pause
<1>5. CASE Timer
  <2>1. mission'[n] = mission[n]
    BY <1>d, <1>5 DEF Timer
  <2> QED BY <1>b, <1>5, <2>1 DEF Timer
<1>10. CASE Restart
  <2>1. mission'[n] = mission[n]
    BY <1>a, <1>10 DEF Restart
  <2>2. \A s \in Step : run'[n][s] = 0 /\ run[n][s] \in Nat
    BY <1>a, <1>10 DEF Restart
  <2> QED BY <2>1, <2>2
<1>12. CASE Suspend
  <2>1. mission'[n] = mission[n]
    BY <1>a, <1>c, <1>12 DEF Suspend
  <2> QED BY <1>b, <1>12, <2>1 DEF Suspend
<1>14. CASE \E c \in Caller : Decomposed(c)
  <2> PICK c \in Caller : Decomposed(c)
    BY <1>14
  <2>1. PICK m \in Mission : mission[m].status = "new"
                             /\ mission' = [mission EXCEPT ![m].status = "active"]
    BY DEF Decomposed
  <2>2. mission'[n] = mission[n]
    BY <1>a, <2>1
  <2> QED BY <1>b, <2>2 DEF Decomposed
<1>18. ASSUME NEW m \in Mission, Resumed(m) PROVE mission'[n] = mission[n] /\ run' = run
  <2> DEFINE ms == [mission EXCEPT ![m].status = "active"]
  <2>1. CASE active = m /\ Execute(After(<<"resume", m>>), ms)
    <3>1. ms[n] = mission[n]
      BY <1>a, <2>1
    <3> HIDE DEF ms
    <3> QED BY <1>d, <1>18, <2>1, <3>1 DEF Resumed
  <2>2. CASE UNCHANGED mission
    BY <1>18, <2>2 DEF Resumed
  <2> QED BY <1>18, <2>1, <2>2 DEF Resumed
<1>20. ASSUME NEW m \in Mission, Reclaimed(m) PROVE mission'[n] = mission[n] /\ run' = run
  BY <1>c, <1>d, <1>20 DEF Reclaimed
<1>22. ASSUME NEW m \in Mission, NEW s \in Step, Checked(m, s)
       PROVE  mission'[n] = mission[n] /\ run'[n] = run[n]
  BY <1>c, <1>e, <1>22 DEF Checked
<1>23. ASSUME NEW m \in Mission, NEW s \in Step, Leased(m, s)
       PROVE  mission'[n] = mission[n] /\ run'[n] = run[n]
  BY <1>c, <1>e, <1>23 DEF Leased
<1>24. ASSUME NEW m \in Mission, NEW s \in Step, RunEnds(m, s)
       PROVE  /\ mission'[n].status = "cancelled"
              /\ \A t \in Step : run'[n][t] <= run[n][t]
  <2>1. Ended(m, s)
    BY <1>24, RunEnded
  <2>2. mission'[n].status = "cancelled"
    BY <1>a, <2>1 DEF Ended, Running
  <2>3. run' = [run EXCEPT ![m][s] = @ - 1]
    BY <1>24 DEF RunEnds
  <2> QED BY <1>a, <2>2, <2>3
<1>26. ASSUME NEW m \in Mission, Resumed(m) \/ Reclaimed(m)
       PROVE  /\ mission'[n].status = "cancelled"
              /\ \A s \in Step : run'[n][s] <= run[n][s]
  BY <1>b, <1>18, <1>20, <1>26
<1>27. ASSUME NEW m \in Mission, NEW s \in Step, Checked(m, s) \/ Leased(m, s)
       PROVE  /\ mission'[n].status = "cancelled"
              /\ \A t \in Step : run'[n][t] <= run[n][t]
  <2>1. mission'[n] = mission[n] /\ run'[n] = run[n]
    BY <1>22, <1>23, <1>27
  <2> QED BY <1>a, <2>1
<1>28. ASSUME Next PROVE \/ UNCHANGED <<mission, run>>
                         \/ Cancel \/ Pause \/ Timer \/ Restart \/ Suspend
                         \/ \E c \in Caller : Decomposed(c)
                         \/ \E m \in Mission : Resumed(m) \/ Reclaimed(m)
                         \/ \E m \in Mission, s \in Step :
                               Checked(m, s) \/ Leased(m, s) \/ RunEnds(m, s)
  <2>1. CASE Start \/ Resume \/ Reported \/ Published \/ Tail \/ Again \/ LoseMain \/ GainMain
    BY <2>1 DEF Start, Resume, Reported, Published, Tail, Again, LoseMain, GainMain
  <2>2. \A c \in Caller : PlanSent(c) \/ Dequeued(c) => UNCHANGED <<mission, run>>
    BY DEF PlanSent, Dequeued
  <2>3. \A m \in Mission : Opened(m) \/ Restore(m) \/ LoseLease(m) => UNCHANGED <<mission, run>>
    BY DEF Opened, Restore, LoseLease
  <2>4. \A m \in Mission, s \in Step : DriftEnds(m, s) => UNCHANGED <<mission, run>>
    BY DEF DriftEnds
  <2> QED BY <1>28, <2>1, <2>2, <2>3, <2>4 DEF Next
<1>29. UNCHANGED vars => UNCHANGED <<mission, run>>
  BY DEF vars
<1> QED
  BY <1>1, <1>2, <1>3, <1>5, <1>10, <1>12, <1>14, <1>24, <1>26, <1>27, <1>28, <1>29

\* A cancelled mission stays cancelled and starts no step, over all late
\* continuations and restarts from the local file.
THEOREM CancelForGood == Spec => CancelIsFinal
<1>1. IInv /\ [Next]_vars =>
        [\A m \in Mission : mission[m].status = "cancelled" =>
            /\ mission'[m].status = "cancelled"
            /\ \A s \in Step : run'[m][s] <= run[m][s]]_vars
  BY CancelStep
<1> QED BY <1>1, Invariant, PTL DEF Spec, CancelIsFinal
=============================================================================
