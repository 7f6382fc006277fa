--------------------------- MODULE SyncJobsProofs ---------------------------
(***************************************************************************)
(* Proofs about SyncJobs for any number of accounts, jobs and attempts:    *)
(* types, that the SyncRun rows tell the truth, and that the badge does.   *)
(***************************************************************************)
EXTENDS SyncJobs, TLAPS

\* The run of the job was started by the worker it has, or by one that died.
Spent(j) == (wjob = j /\ InRun) \/ (wjob # j /\ job[j].st = "active")

\* A job that is not over has attempts left, and has started a run for each attempt
\* that failed and each stall at most, and the one under way: another has room.
JobsBounded ==
  \A j \in Jobs : Open(j) =>
    /\ job[j].of \in Accounts \cup {ALL}
    /\ job[j].tries < MaxAttempts
    /\ job[j].starts <= job[j].tries + job[j].stalls + 1
    /\ ~Spent(j) => job[j].starts <= job[j].tries + job[j].stalls

\* Past the lookup the worker is on an account, and past the start on a run.
RunOpen == wpc \in {"mark", "work", "ok", "finish", "fail"}
WorkerKnows ==
  /\ wpc = "start" \/ RunOpen \/ wpc = "failmark" => Account \in Accounts
  /\ RunOpen \/ wpc = "failmark" => job[wjob].starts > 0

JobsInv == TypeOK /\ JobsBounded /\ WorkerKnows

\* RUNNING is the run under way, until it is finished.
RunsFollow ==
  ~hurt => \A j \in Jobs : \A n \in 1..MaxRuns :
    run[j][n] = "RUNNING" => wjob = j /\ RunOpen /\ n = job[j].starts

\* RUNNING is the account under way until the badge is written again, which it is
\* before a run is finished as OK and after it is finished as FAILED.
BadgeFollows ==
  ~hurt =>
    /\ \A a \in Accounts : Live(a) =>
         /\ badge[a] = "RUNNING" => wpc \in {"work", "ok", "fail", "failmark"} /\ Account = a
         /\ badge[a] = "FAILED" => last[a] = "FAILED"
    /\ wpc = "finish" /\ Live(Account) => badge[Account] = "OK"
    /\ wpc = "failmark" => last[Account] = "FAILED"

-----------------------------------------------------------------------------
(* The queue: types, and how often a job starts.                           *)

States == {"none", "waiting", "active", "delayed", "failed", "gone"}

LEMMA RowFields ==
  ASSUME NEW r \in JobRow
  PROVE  /\ r.st \in States /\ r.of \in Accounts \cup {ALL, NONE}
         /\ r.tries \in 0..MaxAttempts /\ r.stalls \in 0..MaxStalls /\ r.starts \in 0..MaxRuns
BY DEF JobRow, States

LEMMA NewState ==
  ASSUME job \in [Jobs -> JobRow], NEW j \in Jobs, NEW st \in States,
         job' = [job EXCEPT ![j].st = st]
  PROVE  /\ job' \in [Jobs -> JobRow]
         /\ job'[j].st = st /\ job'[j].of = job[j].of /\ job'[j].tries = job[j].tries
         /\ job'[j].stalls = job[j].stalls /\ job'[j].starts = job[j].starts
         /\ \A k \in Jobs : k # j => job'[k] = job[k]
BY DEF JobRow, States

LEMMA NewStalls ==
  ASSUME job \in [Jobs -> JobRow], NEW j \in Jobs, NEW st \in States, NEW n \in 0..MaxStalls,
         job' = [job EXCEPT ![j].st = st, ![j].stalls = n]
  PROVE  /\ job' \in [Jobs -> JobRow]
         /\ job'[j].st = st /\ job'[j].of = job[j].of /\ job'[j].tries = job[j].tries
         /\ job'[j].stalls = n /\ job'[j].starts = job[j].starts
         /\ \A k \in Jobs : k # j => job'[k] = job[k]
BY DEF JobRow, States

LEMMA NewStarts ==
  ASSUME job \in [Jobs -> JobRow], NEW j \in Jobs, NEW n \in 0..MaxRuns,
         job' = [job EXCEPT ![j].starts = n]
  PROVE  /\ job' \in [Jobs -> JobRow]
         /\ job'[j].st = job[j].st /\ job'[j].of = job[j].of /\ job'[j].tries = job[j].tries
         /\ job'[j].stalls = job[j].stalls /\ job'[j].starts = n
         /\ \A k \in Jobs : k # j => job'[k] = job[k]
BY DEF JobRow, States

LEMMA NewRun ==
  ASSUME run \in [Jobs -> [1..MaxRuns -> SyncState \cup {"none"}]],
         NEW j \in Jobs, NEW n \in 1..MaxRuns, NEW s \in SyncState,
         run' = [run EXCEPT ![j][n] = s]
  PROVE  /\ run' \in [Jobs -> [1..MaxRuns -> SyncState \cup {"none"}]]
         /\ run'[j][n] = s
         /\ \A k \in Jobs, m \in 1..MaxRuns : k # j \/ m # n => run'[k][m] = run[k][m]
OBVIOUS

LEMMA NewJob ==
  ASSUME job \in [Jobs -> JobRow], NEW of \in Accounts \cup {ALL}, Add(of)
  PROVE  /\ job' \in [Jobs -> JobRow]
         /\ \A k \in Jobs :
              \/ job'[k] = job[k]
              \/ /\ job[k].st = "none" /\ job'[k].st = "waiting" /\ job'[k].of = of
                 /\ job'[k].tries = 0 /\ job'[k].stalls = 0 /\ job'[k].starts = 0
<1>1. CASE Free = {}
  BY <1>1 DEF Add
<1>2. ASSUME NEW j \in Free, job' = Added(job, j, of)
      PROVE  /\ job' \in [Jobs -> JobRow]
             /\ job'[j] = [NoJob EXCEPT !.st = "waiting", !.of = of]
             /\ \A k \in Jobs : k # j => job'[k] = job[k]
  <2>1. 0 \in 0..MaxAttempts /\ 0 \in 0..MaxStalls /\ 0 \in 0..MaxRuns
    BY SyncJobsAssumption DEF MaxStalls, MaxRuns
  <2>2. [NoJob EXCEPT !.st = "waiting", !.of = of] \in JobRow
    BY <2>1 DEF NoJob, JobRow
  <2>. QED  BY <1>2, <2>2 DEF Added, Free
<1>3. CASE Free # {}
  <2>1. PICK j \in Free : job' = Added(job, j, of)
    BY <1>3 DEF Add
  <2>2. j \in Jobs /\ job[j].st = "none"
    BY DEF Free
  <2>3. /\ job'[j].st = "waiting" /\ job'[j].of = of
        /\ job'[j].tries = 0 /\ job'[j].stalls = 0 /\ job'[j].starts = 0
    BY <1>2, <2>1 DEF NoJob
  <2>. QED  BY <1>2, <2>1, <2>2, <2>3
<1>. QED  BY <1>1, <1>3

\* Past the start of a run its row is there.
LEMMA RunRow ==
  ASSUME TypeOK, WorkerKnows, RunOpen
  PROVE  wjob \in Jobs /\ job[wjob].starts \in 1..MaxRuns /\ Account \in Accounts
BY RowFields DEF TypeOK, WorkerKnows, RunOpen

LEMMA SetRunTyped ==
  ASSUME TypeOK, WorkerKnows, RunOpen, NEW s \in SyncState, SetRun(s)
  PROVE  run' \in [Jobs -> [1..MaxRuns -> SyncState \cup {"none"}]]
BY RunRow, NewRun DEF TypeOK, SetRun

LEMMA JobsInit == ASSUME Init PROVE JobsInv
<1>. USE SyncJobsAssumption DEF Init
<1>1. NoJob \in JobRow
  BY DEF NoJob, JobRow, MaxStalls, MaxRuns
<1>2. job \in [Jobs -> JobRow] /\ \A j \in Jobs : job[j].st = "none"
  BY <1>1 DEF NoJob
<1>3. run \in [Jobs -> [1..MaxRuns -> SyncState \cup {"none"}]]
  OBVIOUS
<1>4. TypeOK
  BY <1>2, <1>3 DEF TypeOK, SyncState
<1>5. JobsBounded /\ WorkerKnows
  BY <1>2 DEF JobsBounded, WorkerKnows, Open, RunOpen
<1>. QED  BY <1>4, <1>5 DEF JobsInv

LEMMA JobsStep == ASSUME JobsInv, [Next]_vars PROVE JobsInv'
<1>. USE SyncJobsAssumption DEF worker, MaxStalls, MaxRuns
<1>. SUFFICES ASSUME TypeOK, JobsBounded, WorkerKnows PROVE (TypeOK /\ JobsBounded /\ WorkerKnows)'
  BY DEF JobsInv
<1>. DEFINE Kept == (TypeOK /\ JobsBounded /\ WorkerKnows)'
<1>0. \A j \in Jobs :
        /\ job[j].st \in States /\ job[j].of \in Accounts \cup {ALL, NONE}
        /\ job[j].tries \in Nat /\ job[j].stalls \in 0..1 /\ job[j].starts \in Nat
  BY RowFields DEF TypeOK
<1>1. job \in [Jobs -> JobRow]
  BY DEF TypeOK
\* Jobs are added beside the worker.
<1>2. ASSUME NEW of \in Accounts \cup {ALL}, Add(of), UNCHANGED <<run, wpc, wjob, hurt, last>>,
             row' \in [Accounts -> {"absent", "live", "gone"}],
             badge' \in [Accounts -> SyncState], list' \subseteq Accounts
      PROVE  Kept
  <2>1. /\ job' \in [Jobs -> JobRow]
        /\ \A k \in Jobs :
             \/ job'[k] = job[k]
             \/ /\ job[k].st = "none" /\ job'[k].st = "waiting" /\ job'[k].of = of
                /\ job'[k].tries = 0 /\ job'[k].stalls = 0 /\ job'[k].starts = 0
    BY <1>2, NewJob DEF TypeOK
  <2>2. wjob # NONE => job'[wjob] = job[wjob]
    BY <2>1 DEF TypeOK
  <2>3. TypeOK'
    BY <1>2, <2>1, <2>2 DEF TypeOK
  <2>4. JobsBounded'
    <3>. SUFFICES ASSUME NEW k \in Jobs, Open(k)'
                  PROVE  /\ job'[k].of \in Accounts \cup {ALL} /\ job'[k].tries < MaxAttempts
                         /\ job'[k].starts <= job'[k].tries + job'[k].stalls + 1
                         /\ ~Spent(k)' => job'[k].starts <= job'[k].tries + job'[k].stalls
      BY DEF JobsBounded
    <3>1. CASE job'[k] = job[k]
      BY <1>2, <3>1 DEF JobsBounded, Open, Spent, InRun
    <3>2. CASE job'[k] # job[k]
      BY <2>1, <3>2
    <3>. QED  BY <3>1, <3>2
  <2>5. WorkerKnows'
    BY <1>2, <2>2 DEF TypeOK, WorkerKnows, Account, RunOpen
  <2>. QED  BY <2>3, <2>4, <2>5
<1>3. ASSUME NEW a \in Accounts, Import(a) PROVE Kept
  BY <1>2, <1>3 DEF TypeOK, SyncState, Import
<1>4. ASSUME NEW a \in Accounts, Trigger(a) PROVE Kept
  BY <1>2, <1>4 DEF TypeOK, Trigger
<1>5. CASE Schedule
  BY <1>2, <1>5 DEF TypeOK, Schedule
<1>6. CASE Fan
  <2>1. PICK a \in list : Add(a) /\ list' = list \ {a}
    BY <1>6 DEF Fan
  <2>. QED  BY <1>2, <1>6, <2>1 DEF TypeOK, Fan
\* The job of the worker stays as it is, and so does the worker or it moves on.
<1>7. ASSUME UNCHANGED <<job, wjob>>, TypeOK',
             WorkerKnows',
             \A j \in Jobs : Spent(j) => Spent(j)'
      PROVE  Kept
  BY <1>7 DEF JobsBounded, Open
<1>8. ASSUME UNCHANGED <<job, wjob>>, wpc \in {"find", "fan", "start", "mark", "work", "ok", "finish", "fail", "failmark"},
             row' = row, list' \subseteq Accounts,
             badge' \in [Accounts -> SyncState],
             run' \in [Jobs -> [1..MaxRuns -> SyncState \cup {"none"}]],
             last' \in [Accounts -> {"none", "OK", "FAILED"}], hurt' \in BOOLEAN,
             \/ wpc = "find" /\ wpc' \in {"fan", "throw"}
             \/ wpc = "fan" /\ wpc' = "throw"
             \/ wpc = "find" /\ wpc' = "start" /\ Account \in Accounts
             \/ wpc = "start" /\ wpc' = "throw"
             \/ (RunOpen \/ wpc = "failmark")
                /\ wpc' \in {"work", "ok", "finish", "fail", "failmark", "throw"}
      PROVE  Kept
  <2>1. TypeOK'
    BY <1>8 DEF TypeOK, RunOpen
  <2>2. WorkerKnows'
    BY <1>8 DEF WorkerKnows, RunOpen, Account
  <2>3. \A j \in Jobs : Spent(j) => Spent(j)'
    BY <1>8 DEF Spent, InRun, RunOpen
  <2>. QED  BY <1>7, <1>8, <2>1, <2>2, <2>3
<1>9. CASE FindFails
  BY <1>8, <1>9 DEF TypeOK, FindFails, Goto
<1>9a. CASE FanFails
  BY <1>8, <1>9a DEF TypeOK, FanFails
<1>10. CASE Mark
  BY <1>8, <1>10 DEF TypeOK, SyncState, Mark, SetBadge, Goto, RunOpen
<1>11. CASE Work
  BY <1>8, <1>11 DEF TypeOK, Work, Goto, RunOpen
<1>12. CASE MarkOk
  BY <1>8, <1>12 DEF TypeOK, SyncState, MarkOk, SetBadge, Goto, RunOpen
<1>13. CASE FinishFailed
  BY <1>8, <1>13, RunRow, SetRunTyped DEF TypeOK, SyncState, FinishFailed, Goto, RunOpen
<1>14. CASE MarkFailed
  BY <1>8, <1>14 DEF TypeOK, SyncState, MarkFailed, SetBadge, Goto
\* The worker leaves its job, which is over or waits for another attempt.
<1>15. ASSUME NEW j \in Jobs, NEW st \in States, job' = [job EXCEPT ![j].st = st],
              wpc' = "idle" /\ wjob' = NONE /\ list' = {}, wjob = j, st \in {"gone"},
              UNCHANGED <<row, badge, hurt>>,
              run' \in [Jobs -> [1..MaxRuns -> SyncState \cup {"none"}]],
              last' \in [Accounts -> {"none", "OK", "FAILED"}]
       PROVE  Kept
  <2>1. job' \in [Jobs -> JobRow] /\ \A k \in Jobs : k # j => job'[k] = job[k]
    BY <1>15, <1>1, NewState
  <2>5. job'[j].st = "gone"
    BY <1>15, <1>1, NewState
  <2>2. TypeOK'
    BY <1>15, <2>1 DEF TypeOK
  <2>3. JobsBounded'
    BY <1>15, <2>1, <2>5 DEF TypeOK, JobsBounded, Open, Spent
  <2>4. WorkerKnows'
    BY <1>15 DEF WorkerKnows, RunOpen
  <2>. QED  BY <2>2, <2>3, <2>4
<1>16. CASE Find
  <2>1. CASE Account = ALL /\ wpc' = "fan"
    BY <1>8, <1>16, <2>1 DEF TypeOK, Find
  <2>2. CASE Account # ALL /\ Goto("start")
    <3>1. Account \in Accounts
      BY <1>16, <2>2 DEF TypeOK, JobsBounded, Open, Find, Account
    <3>2. job' = job
      BY <1>16, <2>2 DEF Find, Goto, Complete, Leave
    <3>. QED  BY <1>8, <1>16, <2>2, <3>1, <3>2 DEF TypeOK, Find, Goto
  <2>3. CASE Complete
    BY <1>15, <1>16, <2>3 DEF TypeOK, Find, Complete, Leave, States
  <2>. QED  BY <1>16, <2>1, <2>2, <2>3 DEF Find
<1>17. CASE FanEnds
  BY <1>15, <1>17 DEF TypeOK, FanEnds, Complete, Leave, States
<1>18. CASE FinishOk
  <2>1. CASE Complete
    <3>1. wpc' = "idle" /\ SetRun("OK") /\ last' = [last EXCEPT ![Account] = "OK"]
      BY <1>18, <2>1 DEF FinishOk, Complete, Leave, Goto
    <3>2. RunOpen
      BY <1>18 DEF FinishOk, RunOpen
    <3>. QED
      BY <1>15, <1>18, RunRow, SetRunTyped, <2>1, <3>1, <3>2
      DEF TypeOK, SyncState, FinishOk, Complete, Leave, States
  <2>2. CASE Goto("fail")
    BY <1>8, <1>18, <2>2 DEF TypeOK, FinishOk, Goto, RunOpen, Complete, Leave
  <2>. QED  BY <1>18, <2>1, <2>2 DEF FinishOk
<1>19. ASSUME NEW j \in Jobs, Pick(j) PROVE Kept
  <2>1. /\ job' \in [Jobs -> JobRow] /\ job'[j].st = "active" /\ job'[j].of = job[j].of
        /\ job'[j].tries = job[j].tries /\ job'[j].stalls = job[j].stalls
        /\ job'[j].starts = job[j].starts
        /\ \A k \in Jobs : k # j => job'[k] = job[k]
    <3>1. job' = [job EXCEPT ![j].st = "active"] /\ "active" \in States
      BY <1>19 DEF Pick, States
    <3>. QED  BY <3>1, <1>1, NewState
  <2>2. TypeOK'
    BY <1>19, <2>1 DEF TypeOK, Pick
  <2>3. JobsBounded'
    BY <1>19, <2>1 DEF TypeOK, JobsBounded, Open, Spent, InRun, Pick
  <2>4. WorkerKnows'
    BY <1>19 DEF WorkerKnows, RunOpen, Pick
  <2>. QED  BY <2>2, <2>3, <2>4
<1>20. CASE StartRun
  <2>1. CASE wpc' = "throw"
    BY <1>8, <1>20, <2>1 DEF TypeOK, StartRun, Goto
  <2>2. CASE wpc' = "mark"
    <3>1. wjob \in Jobs /\ job[wjob].st = "active" /\ wpc = "start"
      BY <1>20 DEF TypeOK, StartRun
    <3>2. /\ job[wjob].tries < MaxAttempts /\ Account \in Accounts
          /\ job[wjob].starts <= job[wjob].tries + job[wjob].stalls
      BY <3>1 DEF JobsBounded, WorkerKnows, Open, Spent, InRun
    <3>3. job[wjob].starts + 1 \in 1..MaxRuns
      BY <1>0, <3>1, <3>2
    <3>4. /\ job' = [job EXCEPT ![wjob].starts = job[wjob].starts + 1]
          /\ run' = [run EXCEPT ![wjob][job[wjob].starts + 1] = "RUNNING"]
          /\ UNCHANGED <<wjob, list, row, badge, last, hurt>>
      BY <1>20, <2>2 DEF StartRun, Goto
    <3>5. job[wjob].starts + 1 \in 0..MaxRuns
      BY <3>3
    <3>6. /\ job' \in [Jobs -> JobRow]
          /\ job'[wjob].st = "active" /\ job'[wjob].of = job[wjob].of
          /\ job'[wjob].tries = job[wjob].tries /\ job'[wjob].stalls = job[wjob].stalls
          /\ job'[wjob].starts = job[wjob].starts + 1
          /\ \A k \in Jobs : k # wjob => job'[k] = job[k]
      BY <3>1, <3>4, <3>5, <1>1, NewStarts
    <3>7. run' \in [Jobs -> [1..MaxRuns -> SyncState \cup {"none"}]]
      BY <3>1, <3>3, <3>4, NewRun DEF TypeOK, SyncState
    <3>8. TypeOK'
      BY <2>2, <3>1, <3>4, <3>6, <3>7 DEF TypeOK
    <3>9. JobsBounded'
      BY <1>0, <2>2, <3>1, <3>2, <3>4, <3>6 DEF JobsBounded, Open, Spent, InRun
    <3>10. WorkerKnows'
      BY <1>0, <2>2, <3>1, <3>2, <3>4, <3>6 DEF WorkerKnows, RunOpen, Account
    <3>. QED  BY <3>8, <3>9, <3>10
  <2>. QED  BY <1>20, <2>1, <2>2 DEF StartRun, Goto
<1>21. CASE Throw
  <2>1. /\ wjob \in Jobs /\ job[wjob].st = "active" /\ wpc = "throw"
        /\ wjob' = NONE /\ wpc' = "idle" /\ list' = {}
        /\ UNCHANGED <<row, badge, run, last, hurt>>
    BY <1>21 DEF TypeOK, Throw, Leave
  <2>2. /\ job[wjob].tries < MaxAttempts /\ job[wjob].of \in Accounts \cup {ALL}
        /\ job[wjob].starts <= job[wjob].tries + job[wjob].stalls + 1
    BY <2>1 DEF JobsBounded, Open
  <2>3. PICK n \in 0..MaxAttempts : n = job[wjob].tries + 1
    BY <1>0, <2>1, <2>2
  <2>4. PICK st \in States :
          /\ st = IF n < MaxAttempts THEN "delayed" ELSE "failed"
          /\ job' = [job EXCEPT ![wjob].tries = n, ![wjob].st = st]
    BY <1>21, <2>3 DEF Throw, States
  <2>5. /\ job' \in [Jobs -> JobRow]
        /\ job'[wjob].st = st /\ job'[wjob].of = job[wjob].of
        /\ job'[wjob].tries = n
        /\ job'[wjob].stalls = job[wjob].stalls /\ job'[wjob].starts = job[wjob].starts
        /\ \A k \in Jobs : k # wjob => job'[k] = job[k]
    BY <2>1, <2>4, <1>1 DEF JobRow, States
  <2>7. TypeOK'
    BY <2>1, <2>5 DEF TypeOK
  <2>8. JobsBounded'
    BY <1>0, <2>1, <2>2, <2>3, <2>4, <2>5 DEF JobsBounded, Open, Spent
  <2>9. WorkerKnows'
    BY <2>1 DEF WorkerKnows, RunOpen
  <2>. QED  BY <2>7, <2>8, <2>9
<1>22. ASSUME NEW j \in Jobs, Retry(j) PROVE Kept
  <2>1. /\ job' \in [Jobs -> JobRow] /\ job'[j].st = "waiting" /\ job'[j].of = job[j].of
        /\ job'[j].tries = job[j].tries /\ job'[j].stalls = job[j].stalls
        /\ job'[j].starts = job[j].starts
        /\ \A k \in Jobs : k # j => job'[k] = job[k]
    <3>1. job' = [job EXCEPT ![j].st = "waiting"] /\ "waiting" \in States
      BY <1>22 DEF Retry, States
    <3>. QED  BY <3>1, <1>1, NewState
  <2>2. wjob # j
    BY <1>22 DEF TypeOK, Retry
  <2>3. TypeOK'
    BY <1>22, <2>1, <2>2 DEF TypeOK, Retry
  <2>4. JobsBounded'
    BY <1>22, <2>1, <2>2 DEF JobsBounded, Open, Spent, InRun, Retry
  <2>5. WorkerKnows'
    BY <1>22, <2>1, <2>2 DEF TypeOK, WorkerKnows, RunOpen, Account, Retry
  <2>. QED  BY <2>3, <2>4, <2>5
<1>23. ASSUME NEW j \in Jobs, Stalled(j) PROVE Kept
  <2>1. /\ job[j].st = "active" /\ wjob # j
        /\ UNCHANGED <<row, badge, run, wpc, wjob, list, last, hurt>>
    BY <1>23 DEF Stalled
  <2>2. CASE job[j].stalls < MaxStalls
    <3>1. /\ job' = [job EXCEPT ![j].st = "waiting", ![j].stalls = job[j].stalls + 1]
          /\ "waiting" \in States
      BY <1>23, <2>2 DEF Stalled, States
    <3>2. job[j].stalls + 1 \in 0..MaxStalls
      BY <1>0, <2>2
    <3>3. /\ job' \in [Jobs -> JobRow]
          /\ job'[j].st = "waiting" /\ job'[j].of = job[j].of /\ job'[j].tries = job[j].tries
          /\ job'[j].stalls = job[j].stalls + 1 /\ job'[j].starts = job[j].starts
          /\ \A k \in Jobs : k # j => job'[k] = job[k]
      BY <3>1, <3>2, <1>1, NewStalls
    <3>5. TypeOK'
      BY <2>1, <3>3 DEF TypeOK
    <3>6. JobsBounded'
      BY <1>0, <2>1, <3>3 DEF JobsBounded, Open, Spent, InRun
    <3>7. WorkerKnows'
      BY <2>1, <3>3 DEF TypeOK, WorkerKnows, RunOpen, Account
    <3>. QED  BY <3>5, <3>6, <3>7
  <2>3. CASE ~(job[j].stalls < MaxStalls)
    <3>1. job' = [job EXCEPT ![j].st = "failed"] /\ "failed" \in States
      BY <1>23, <2>3 DEF Stalled, States
    <3>2. /\ job' \in [Jobs -> JobRow] /\ job'[j].st = "failed"
          /\ \A k \in Jobs : k # j => job'[k] = job[k]
      BY <3>1, <1>1, NewState
    <3>3. TypeOK'
      BY <2>1, <3>2 DEF TypeOK
    <3>4. JobsBounded'
      BY <2>1, <3>2 DEF JobsBounded, Open, Spent, InRun
    <3>5. WorkerKnows'
      BY <2>1, <3>2 DEF TypeOK, WorkerKnows, RunOpen, Account
    <3>. QED  BY <3>3, <3>4, <3>5
  <2>. QED  BY <2>2, <2>3
<1>24. CASE Crash
  <2>1. TypeOK' /\ WorkerKnows'
    BY <1>24 DEF TypeOK, WorkerKnows, RunOpen, Crash, Leave
  <2>2. \A j \in Jobs : Spent(j) => Spent(j)'
    BY <1>24 DEF TypeOK, Spent, Crash, Leave
  <2>3. JobsBounded'
    BY <1>24, <2>2 DEF JobsBounded, Open, Crash
  <2>. QED  BY <2>1, <2>3
<1>25. ASSUME NEW a \in Accounts, Remove(a) PROVE Kept
  <2>1. TypeOK' /\ WorkerKnows'
    BY <1>25 DEF TypeOK, WorkerKnows, RunOpen, Account, Remove
  <2>. QED  BY <1>7, <1>25, <2>1 DEF Spent, InRun, Remove
<1>26. CASE UNCHANGED vars
  <2>1. TypeOK' /\ WorkerKnows'
    BY <1>26 DEF TypeOK, WorkerKnows, RunOpen, Account, vars
  <2>. QED  BY <1>7, <1>26, <2>1 DEF vars, Spent, InRun
<1>. QED
  BY <1>3, <1>4, <1>5, <1>6, <1>9, <1>9a, <1>10, <1>11, <1>12, <1>13, <1>14, <1>16, <1>17, <1>18,
     <1>19, <1>20, <1>21, <1>22, <1>23, <1>24, <1>25, <1>26
  DEF Next, WorkerStep

\* The variables of SyncJobs keep their types (MetaSyncProcessor, SyncRunService, the
\* queue); a job never starts more runs than its attempts and one stall allow, and the
\* worker's job is one the queue calls active.
THEOREM SyncJobsTypeOK == Spec => []TypeOK
<1>1. Init => JobsInv
  BY JobsInit
<1>2. JobsInv /\ [Next]_vars => JobsInv'
  BY JobsStep
<1>3. JobsInv => TypeOK
  BY DEF JobsInv
<1>. QED  BY <1>1, <1>2, <1>3, PTL DEF Spec

LEMMA SyncJobsInv == Spec => []JobsInv
<1>1. Init => JobsInv
  BY JobsInit
<1>2. JobsInv /\ [Next]_vars => JobsInv'
  BY JobsStep
<1>. QED  BY <1>1, <1>2, PTL DEF Spec

-----------------------------------------------------------------------------
(* SyncRun rows and badges.                                                *)

\* Whoever adds, retries or fails jobs beside the worker leaves its own alone.
LEMMA BesideWorker ==
  ASSUME TypeOK, wjob # NONE,
         \/ \E of \in Accounts \cup {ALL} : Add(of)
         \/ \E j \in Jobs : Retry(j) \/ Stalled(j)
  PROVE  job'[wjob] = job[wjob]
<1>1. ASSUME NEW of \in Accounts \cup {ALL}, Add(of) PROVE job'[wjob] = job[wjob]
  BY <1>1, NewJob DEF TypeOK
<1>2. ASSUME NEW j \in Jobs, Retry(j) \/ Stalled(j) PROVE job'[wjob] = job[wjob]
  <2>1. wjob # j /\ wjob \in Jobs
    BY <1>2 DEF TypeOK, Retry, Stalled
  <2>. QED  BY <1>2, <2>1 DEF TypeOK, Retry, Stalled
<1>. QED  BY <1>1, <1>2

Beside ==
  \/ \E a \in Accounts : Import(a) \/ Trigger(a)
  \/ Schedule \/ Fan
  \/ \E j \in Jobs : Retry(j) \/ Stalled(j)

LEMMA BesideKeeps ==
  ASSUME TypeOK, Beside
  PROVE  UNCHANGED <<run, wpc, wjob, last, hurt>> /\ (wjob # NONE => job'[wjob] = job[wjob])
<1>1. UNCHANGED <<run, wpc, wjob, last, hurt>>
  BY DEF Beside, Import, Trigger, Schedule, Fan, Retry, Stalled, worker
<1>2. \/ \E of \in Accounts \cup {ALL} : Add(of)
      \/ \E j \in Jobs : Retry(j) \/ Stalled(j)
  BY DEF TypeOK, Beside, Import, Trigger, Schedule, Fan
<1>. QED  BY <1>1, <1>2, BesideWorker

LEMMA RunsStep == ASSUME JobsInv, RunsFollow, [Next]_vars PROVE RunsFollow'
<1>. USE SyncJobsAssumption DEF worker
<1>1. TypeOK /\ WorkerKnows
  BY DEF JobsInv
<1>2. ASSUME UNCHANGED <<run, hurt>>,
             RunOpen => RunOpen' /\ wjob' = wjob /\ job'[wjob].starts = job[wjob].starts
      PROVE  RunsFollow'
  BY <1>2 DEF RunsFollow
<1>3. CASE Beside
  BY <1>1, <1>2, <1>3, BesideKeeps DEF TypeOK, RunOpen
<1>4. ASSUME NEW a \in Accounts, Remove(a) PROVE RunsFollow'
  BY <1>2, <1>4 DEF RunOpen, Remove
<1>5. CASE (\E j \in Jobs : Pick(j)) \/ Find \/ FindFails \/ FanFails \/ FanEnds \/ MarkFailed \/ Throw
  <2>1. ~RunOpen /\ run' = run /\ (hurt' = hurt \/ hurt' = TRUE)
    BY <1>5 DEF RunOpen, Pick, Find, FindFails, FanFails, FanEnds, MarkFailed, Throw
  <2>. QED  BY <2>1 DEF RunsFollow
<1>6. CASE StartRun
  <2>1. CASE wpc' = "throw"
    BY <1>2, <1>6, <2>1 DEF RunOpen, StartRun, Goto
  <2>2. CASE wpc' = "mark"
    <3>1. /\ ~RunOpen /\ RunOpen' /\ wjob' = wjob /\ wjob \in Jobs /\ hurt' = hurt
          /\ job' = [job EXCEPT ![wjob].starts = job[wjob].starts + 1]
          /\ run' = [run EXCEPT ![wjob][job[wjob].starts + 1] = "RUNNING"]
      BY <1>1, <1>6, <2>2 DEF TypeOK, RunOpen, StartRun, Goto
    <3>2. job'[wjob].starts = job[wjob].starts + 1
      BY <1>1, <3>1 DEF TypeOK, JobRow
    <3>. QED  BY <1>1, <3>1, <3>2 DEF TypeOK, RunsFollow
  <2>. QED  BY <1>6, <2>1, <2>2 DEF StartRun, Goto
<1>7. CASE Mark \/ Work \/ MarkOk
  BY <1>2, <1>7 DEF RunOpen, Mark, Work, MarkOk, Goto
<1>8. ASSUME RunOpen, NEW s \in {"OK", "FAILED"}, SetRun(s), hurt' = hurt PROVE RunsFollow'
  <2>1. /\ wjob \in Jobs /\ job[wjob].starts \in 1..MaxRuns
        /\ run' = [run EXCEPT ![wjob][job[wjob].starts] = s]
    BY <1>1, <1>8, RunRow DEF SetRun
  <2>2. /\ run'[wjob][job[wjob].starts] = s
        /\ \A k \in Jobs, m \in 1..MaxRuns : k # wjob \/ m # job[wjob].starts => run'[k][m] = run[k][m]
    BY <1>1, <2>1 DEF TypeOK
  <2>. QED  BY <1>8, <2>2 DEF RunsFollow
<1>9. CASE FinishOk
  <2>1. CASE SetRun("OK")
    BY <1>8, <1>9, <2>1 DEF FinishOk, RunOpen
  <2>2. CASE Goto("fail") /\ UNCHANGED <<job, run>>
    BY <1>2, <1>9, <2>2 DEF FinishOk, Goto, RunOpen
  <2>. QED  BY <1>9, <2>1, <2>2 DEF FinishOk
<1>10. CASE FinishFailed
  <2>1. CASE SetRun("FAILED") /\ hurt' = hurt
    BY <1>8, <1>10, <2>1 DEF FinishFailed, RunOpen
  <2>2. CASE hurt' = TRUE
    BY <2>2 DEF RunsFollow
  <2>. QED  BY <1>10, <2>1, <2>2 DEF FinishFailed
<1>11. CASE Crash
  BY <1>11 DEF Crash, RunsFollow
<1>12. CASE UNCHANGED vars
  BY <1>2, <1>12 DEF vars, RunOpen
<1>. QED
  BY <1>3, <1>4, <1>5, <1>6, <1>7, <1>9, <1>10, <1>11, <1>12 DEF Next, WorkerStep, Beside

\* As long as the process lives and failures can be recorded, RUNNING in the SyncRun
\* table is the run under way and no other, however often jobs are retried or stall and
\* whatever accounts are removed or imported again under them.
THEOREM SyncJobsRunsTell == Spec => []RunsTell
<1>1. Init => RunsFollow
  BY DEF Init, RunsFollow
<1>2. JobsInv /\ RunsFollow /\ [Next]_vars => RunsFollow'
  BY RunsStep
<1>3. RunsFollow => RunsTell
  BY DEF RunsFollow, RunsTell, RunOpen, InRun
<1>. QED  BY SyncJobsInv, <1>1, <1>2, <1>3, PTL DEF Spec

LEMMA BadgeStep == ASSUME JobsInv, BadgeFollows, [Next]_vars PROVE BadgeFollows'
<1>. USE SyncJobsAssumption DEF worker, Live
<1>1. TypeOK /\ WorkerKnows
  BY DEF JobsInv
\* Where the badge may read RUNNING, or must read something else.
<1>. DEFINE Marked == wpc \in {"work", "ok", "fail", "failmark"}
            Ending == wpc \in {"finish", "failmark"}
<1>2. ASSUME UNCHANGED <<badge, last, hurt>>, \A a \in Accounts : Live(a)' => Live(a),
             (Marked \/ Ending) => UNCHANGED <<wpc, wjob>> /\ job'[wjob] = job[wjob],
             ~Marked /\ ~Ending => ~Marked' /\ ~Ending'
      PROVE  BadgeFollows'
  <2>1. CASE Marked \/ Ending
    BY <1>1, <1>2, <2>1 DEF BadgeFollows, WorkerKnows, RunOpen, Account
  <2>2. CASE ~(Marked \/ Ending)
    BY <1>2, <2>2 DEF BadgeFollows
  <2>. QED  BY <2>1, <2>2
<1>3. CASE Beside
  <2>1. UNCHANGED <<wpc, wjob, last, hurt>> /\ (wjob # NONE => job'[wjob] = job[wjob])
    BY <1>1, <1>3, BesideKeeps
  <2>2. Marked \/ Ending => wjob # NONE
    BY <1>1 DEF TypeOK
  <2>3. ASSUME NEW a \in Accounts, Import(a) PROVE BadgeFollows'
    <3>1. /\ badge'[a] = "OK"
          /\ \A b \in Accounts : b # a => badge'[b] = badge[b] /\ row'[b] = row[b]
      BY <1>1, <2>3 DEF TypeOK, Import
    <3>. QED
      BY <1>1, <2>1, <2>2, <3>1 DEF BadgeFollows, WorkerKnows, RunOpen, Account
  <2>4. CASE UNCHANGED <<row, badge>>
    BY <1>2, <2>1, <2>2, <2>4
  <2>. QED
    BY <1>3, <2>3, <2>4 DEF Beside, Trigger, Schedule, Fan, Retry, Stalled
<1>4. ASSUME NEW a \in Accounts, Remove(a) PROVE BadgeFollows'
  BY <1>1, <1>2, <1>4 DEF TypeOK, Remove
<1>5. CASE (\E j \in Jobs : Pick(j)) \/ Find \/ FindFails \/ FanFails \/ FanEnds \/ StartRun \/ Throw
  BY <1>2, <1>5 DEF Pick, Find, FindFails, FanFails, FanEnds, StartRun, Throw, Goto, Complete, Leave
<1>6. CASE Mark
  <2>1. Account \in Accounts /\ wpc = "mark" /\ wpc' = "work" /\ UNCHANGED <<row, wjob, job, last, hurt>>
    BY <1>1, <1>6 DEF WorkerKnows, RunOpen, Mark, Goto
  <2>2. /\ \A a \in Accounts : a # Account => badge'[a] = badge[a]
        /\ badge'[Account] = "RUNNING" \/ badge'[Account] = badge[Account]
    BY <1>1, <1>6, <2>1 DEF TypeOK, Mark, SetBadge
  <2>. QED  BY <2>1, <2>2 DEF BadgeFollows, Account
<1>7. CASE Work
  BY <1>7 DEF Work, Goto, BadgeFollows, Account
<1>8. CASE MarkOk
  <2>1. /\ Account \in Accounts /\ wpc = "ok" /\ UNCHANGED <<row, wjob, job, last, hurt>>
        /\ Account' = Account
    BY <1>1, <1>8 DEF WorkerKnows, RunOpen, MarkOk, Goto, Account
  <2>2. CASE wpc' = "finish"
    <3>1. badge' = [badge EXCEPT ![Account] = "OK"]
      BY <1>8, <2>2 DEF MarkOk, SetBadge, Goto
    <3>2. badge'[Account] = "OK" /\ \A a \in Accounts : a # Account => badge'[a] = badge[a]
      BY <1>1, <2>1, <3>1 DEF TypeOK
    <3>. QED  BY <2>1, <2>2, <3>2 DEF BadgeFollows
  <2>3. CASE wpc' = "fail"
    <3>1. badge' = badge
      BY <1>8, <2>3 DEF MarkOk, Goto
    <3>. QED  BY <2>1, <2>3, <3>1 DEF BadgeFollows
  <2>. QED  BY <1>8, <2>2, <2>3 DEF MarkOk, Goto
<1>9. CASE FinishOk
  <2>1. /\ Account \in Accounts /\ wpc = "finish" /\ UNCHANGED <<row, badge, hurt>>
    BY <1>1, <1>9 DEF WorkerKnows, RunOpen, FinishOk
  <2>2. CASE last' = [last EXCEPT ![Account] = "OK"] /\ wpc' = "idle"
    <3>1. \A a \in Accounts : a # Account => last'[a] = last[a]
      BY <1>1, <2>1, <2>2 DEF TypeOK
    <3>. QED  BY <2>1, <2>2, <3>1 DEF BadgeFollows
  <2>3. CASE Goto("fail") /\ UNCHANGED <<job, last>>
    BY <2>1, <2>3 DEF BadgeFollows, Goto
  <2>. QED  BY <1>9, <2>2, <2>3 DEF FinishOk, Complete, Leave
<1>10. CASE FinishFailed
  <2>1. Account \in Accounts /\ wpc = "fail" /\ UNCHANGED <<row, badge, job, wjob>> /\ Account' = Account
    BY <1>1, <1>10 DEF WorkerKnows, RunOpen, FinishFailed, Goto, Account
  <2>2. CASE last' = [last EXCEPT ![Account] = "FAILED"] /\ wpc' = "failmark" /\ hurt' = hurt
    <3>1. last'[Account] = "FAILED" /\ \A a \in Accounts : a # Account => last'[a] = last[a]
      BY <1>1, <2>1, <2>2 DEF TypeOK
    <3>. QED  BY <2>1, <2>2, <3>1 DEF BadgeFollows
  <2>3. CASE hurt' = TRUE
    BY <2>3 DEF BadgeFollows
  <2>. QED  BY <1>10, <2>2, <2>3 DEF FinishFailed, Goto
<1>11. CASE MarkFailed
  <2>1. /\ Account \in Accounts /\ wpc = "failmark" /\ wpc' = "throw" /\ UNCHANGED <<row, last>>
    BY <1>1, <1>11 DEF WorkerKnows, RunOpen, MarkFailed, Goto
  <2>2. CASE SetBadge("FAILED") /\ hurt' = hurt
    <3>1. /\ \A a \in Accounts : a # Account => badge'[a] = badge[a]
          /\ Live(Account) => badge'[Account] = "FAILED"
      BY <1>1, <2>1, <2>2 DEF TypeOK, SetBadge
    <3>. QED  BY <2>1, <2>2, <3>1 DEF BadgeFollows
  <2>3. CASE hurt' = TRUE
    BY <2>3 DEF BadgeFollows
  <2>. QED  BY <1>11, <2>2, <2>3 DEF MarkFailed
<1>12. CASE Crash
  BY <1>12 DEF Crash, BadgeFollows
<1>13. CASE UNCHANGED vars
  BY <1>2, <1>13 DEF vars
<1>. QED
  BY <1>3, <1>4, <1>5, <1>6, <1>7, <1>8, <1>9, <1>10, <1>11, <1>12, <1>13
  DEF Next, WorkerStep, Beside

\* As long as the process lives and failures can be recorded, the badge of an account
\* reads RUNNING only while the worker is on it, and FAILED only if its last run failed,
\* also when it is removed, or its tokens are imported again, in the middle of a sync.
THEOREM SyncJobsBadgeTells == Spec => []BadgeTells
<1>1. Init => BadgeFollows
  BY DEF Init, BadgeFollows, Live
<1>2. JobsInv /\ BadgeFollows /\ [Next]_vars => BadgeFollows'
  BY BadgeStep
<1>3. TypeOK /\ BadgeFollows => BadgeTells
  BY DEF TypeOK, BadgeFollows, BadgeTells, InRun
<1>. QED  BY SyncJobsInv, SyncJobsTypeOK, <1>1, <1>2, <1>3, PTL DEF Spec
=============================================================================
