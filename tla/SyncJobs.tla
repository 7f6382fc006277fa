------------------------------ MODULE SyncJobs ------------------------------
(***************************************************************************)
(* The queue of syncs and its worker: MetaSyncProcessor with its hourly    *)
(* fan-out, the skeleton of MetaSyncService.sync with its SyncRun row and  *)
(* its badge (syncState), retries, and recovery after a crash.  The CRM    *)
(* queue has the same skeleton without a fan-out.                          *)
(*                                                                         *)
(* One process runs one worker per queue, one job at a time.  BullMQ and   *)
(* Redis are external: a job that fails is tried again after a pause until *)
(* its attempts are used up; a job whose worker died goes back to the      *)
(* queue the first time and fails the second time.                         *)
(***************************************************************************)
EXTENDS Naturals, FiniteSets

CONSTANTS
  NONE,
  Accounts,     \* ad account rows; a re-imported account gets a new one
  Jobs,         \* jobs ever added: an enqueue beyond that bound adds nothing
  MaxAttempts,  \* attempts
  Faults,       \* what may fail: "provider", "db", "vault", "queue"
  Crashes       \* whether the process may die

ALL == "sync-all"

MaxStalls == 1

MaxRuns == MaxAttempts + MaxStalls

ASSUME SyncJobsAssumption ==
  /\ NONE \notin Jobs \cup Accounts
  /\ ALL \notin Accounts \cup {NONE}
  /\ MaxAttempts \in Nat \ {0}
  /\ Faults \subseteq {"provider", "db", "vault", "queue"}
  /\ Crashes \in BOOLEAN

VARIABLES
  row,     \* [Accounts -> "absent" | "live" | "gone"]
  badge,   \* [Accounts -> SyncState], the column syncState
  job,     \* [Jobs -> JobRow]
  run,     \* [Jobs -> [1..MaxRuns -> SyncState \cup {"none"}]], the SyncRun rows of a job
  wpc,     \* the worker: "idle" | "find" | "fan" | "start" | "mark" | "work" | "ok" |
           \*             "finish" | "fail" | "failmark" | "throw"
  wjob,    \* its job
  list,    \* accounts the fan-out has still to enqueue
  last,    \* (history) [Accounts -> "none" | "OK" | "FAILED"], how the last run ended
  hurt     \* (history) the process has died, or a failure could not be recorded

worker == <<wpc, wjob, list>>
vars == <<row, badge, job, run, wpc, wjob, list, last, hurt>>

SyncState == {"OK", "RUNNING", "FAILED"}

\* starts counts the SyncRun rows a job has.
JobRow == [st : {"none", "waiting", "active", "delayed", "failed", "gone"},
           of : Accounts \cup {ALL, NONE}, tries : 0..MaxAttempts,
           stalls : 0..MaxStalls, starts : 0..MaxRuns]

NoJob == [st |-> "none", of |-> NONE, tries |-> 0, stalls |-> 0, starts |-> 0]

Live(a) == row[a] = "live"

Open(j) == job[j].st \in {"waiting", "active", "delayed"}

-----------------------------------------------------------------------------
Init ==
  /\ row = [a \in Accounts |-> "absent"]
  /\ badge = [a \in Accounts |-> "OK"]
  /\ job = [j \in Jobs |-> NoJob]
  /\ run = [j \in Jobs |-> [n \in 1..MaxRuns |-> "none"]]
  /\ wpc = "idle" /\ wjob = NONE /\ list = {}
  /\ last = [a \in Accounts |-> "none"]
  /\ hurt = FALSE

-----------------------------------------------------------------------------
(* Who adds jobs.                                                          *)

Free == {j \in Jobs : job[j].st = "none"}

Added(jobs, j, of) == [jobs EXCEPT ![j] = [NoJob EXCEPT !.st = "waiting", !.of = of]]

\* queue.add.
Add(of) ==
  IF Free = {} THEN job' = job ELSE \E j \in Free : job' = Added(job, j, of)

\* importMetaAccounts: a new row, or the tokens and the badge of an existing one
\* refreshed; then its first sync.
Import(a) ==
  /\ row[a] # "gone"
  /\ row' = [row EXCEPT ![a] = "live"]
  /\ badge' = [badge EXCEPT ![a] = "OK"]
  /\ Add(a)
  /\ UNCHANGED <<run, last, hurt>> /\ UNCHANGED worker

\* triggerSync.
Trigger(a) ==
  /\ Live(a)
  /\ Free # {}
  /\ Add(a)
  /\ UNCHANGED <<row, badge, run, last, hurt>> /\ UNCHANGED worker

\* MetaSyncScheduler, every hour.
Schedule ==
  /\ Free # {}
  /\ Add(ALL)
  /\ UNCHANGED <<row, badge, run, last, hurt>> /\ UNCHANGED worker

Remove(a) ==
  /\ Live(a)
  /\ row' = [row EXCEPT ![a] = "gone"]
  /\ UNCHANGED <<badge, job, run, last, hurt>> /\ UNCHANGED worker

-----------------------------------------------------------------------------
(* The worker.                                                             *)

Goto(pc) == wpc' = pc /\ UNCHANGED <<wjob, list>>

Leave == wpc' = "idle" /\ wjob' = NONE /\ list' = {}

Account == job[wjob].of

SetBadge(s) == badge' = IF Live(Account) THEN [badge EXCEPT ![Account] = s] ELSE badge

SetRun(s) == run' = [run EXCEPT ![wjob][job[wjob].starts] = s]

Pick(j) ==
  /\ wpc = "idle"
  /\ job[j].st = "waiting"
  /\ job' = [job EXCEPT ![j].st = "active"]
  /\ wpc' = "find" /\ wjob' = j /\ list' = list
  /\ UNCHANGED <<row, badge, run, last, hurt>>

\* The job is done and removed (removeOnComplete).
Complete ==
  /\ job' = [job EXCEPT ![wjob].st = "gone"]
  /\ Leave

\* process, its lookup: a job whose account is gone is done.
Find ==
  /\ wpc = "find"
  /\ \/ Account = ALL /\ wpc' = "fan" /\ list' = {a \in Accounts : Live(a)} /\ UNCHANGED <<wjob, job>>
     \/ Account # ALL /\ Live(Account) /\ Goto("start") /\ job' = job
     \/ Account # ALL /\ ~Live(Account) /\ Complete
  /\ UNCHANGED <<row, badge, run, last, hurt>>

\* The lookup fails, or the token cannot be decrypted: no SyncRun yet.
FindFails ==
  /\ wpc = "find"
  /\ "db" \in Faults \/ ("vault" \in Faults /\ Account # ALL)
  /\ Goto("throw")
  /\ UNCHANGED <<row, badge, job, run, last, hurt>>

\* enqueueAllAccounts, one account.
Fan ==
  /\ wpc = "fan"
  /\ \E a \in list : Add(a) /\ list' = list \ {a}
  /\ UNCHANGED <<row, badge, run, wpc, wjob, last, hurt>>

\* An add fails midway: the adds so far stay, and another attempt starts anew.
FanFails ==
  /\ wpc = "fan"
  /\ "queue" \in Faults /\ list # {}
  /\ wpc' = "throw" /\ wjob' = wjob /\ list' = {}
  /\ UNCHANGED <<row, badge, job, run, last, hurt>>

FanEnds ==
  /\ wpc = "fan"
  /\ list = {}
  /\ Complete
  /\ UNCHANGED <<row, badge, run, last, hurt>>

\* syncRun.start.
StartRun ==
  /\ wpc = "start"
  /\ \/ /\ job' = [job EXCEPT ![wjob].starts = @ + 1]
        /\ run' = [run EXCEPT ![wjob][job[wjob].starts + 1] = "RUNNING"]
        /\ Goto("mark")
     \/ /\ "db" \in Faults
        /\ Goto("throw")
        /\ UNCHANGED <<job, run>>
  /\ UNCHANGED <<row, badge, last, hurt>>

\* The badge; its failure is swallowed.
Mark ==
  /\ wpc = "mark"
  /\ \/ SetBadge("RUNNING")
     \/ "db" \in Faults /\ badge' = badge
  /\ Goto("work")
  /\ UNCHANGED <<row, job, run, last, hurt>>

\* Hierarchy and insights, fetched and stored.
Work ==
  /\ wpc = "work"
  /\ \/ Goto("ok")
     \/ ("provider" \in Faults \/ "db" \in Faults \/ ~Live(Account)) /\ Goto("fail")
  /\ UNCHANGED <<row, badge, job, run, last, hurt>>

\* Mutant: only lastSyncAt is written.
MarkOkNotBadge ==
  /\ wpc = "ok"
  /\ \/ Live(Account) /\ Goto("finish")
     \/ ("db" \in Faults \/ ~Live(Account)) /\ Goto("fail")
  /\ UNCHANGED <<row, badge, job, run, last, hurt>>

\* lastSyncAt and the badge; an account removed meanwhile makes it throw.
MarkOk ==
  /\ wpc = "ok"
  /\ \/ Live(Account) /\ SetBadge("OK") /\ Goto("finish")
     \/ ("db" \in Faults \/ ~Live(Account)) /\ badge' = badge /\ Goto("fail")
  /\ UNCHANGED <<row, job, run, last, hurt>>

FinishOk ==
  /\ wpc = "finish"
  /\ \/ /\ SetRun("OK")
        /\ last' = [last EXCEPT ![Account] = "OK"]
        /\ Complete
     \/ /\ "db" \in Faults
        /\ Goto("fail")
        /\ UNCHANGED <<job, run, last>>
  /\ UNCHANGED <<row, badge, hurt>>

\* Mutant: the error is rethrown before the run is finished.
FinishFailedLate ==
  /\ wpc = "fail"
  /\ last' = [last EXCEPT ![Account] = "FAILED"]
  /\ Goto("failmark")
  /\ UNCHANGED <<row, badge, job, run, hurt>>

\* The catch block: if finish throws as well, the badge is not reached.
FinishFailed ==
  /\ wpc = "fail"
  /\ \/ /\ SetRun("FAILED")
        /\ last' = [last EXCEPT ![Account] = "FAILED"]
        /\ Goto("failmark")
        /\ hurt' = hurt
     \/ /\ "db" \in Faults
        /\ Goto("throw")
        /\ hurt' = TRUE
        /\ UNCHANGED <<run, last>>
  /\ UNCHANGED <<row, badge, job>>

MarkFailed ==
  /\ wpc = "failmark"
  /\ \/ SetBadge("FAILED") /\ hurt' = hurt
     \/ "db" \in Faults /\ badge' = badge /\ hurt' = TRUE
  /\ Goto("throw")
  /\ UNCHANGED <<row, job, run, last>>

-----------------------------------------------------------------------------
(* BullMQ.                                                                 *)

\* Mutant: a failed job is always tried again.
ThrowForever ==
  /\ wpc = "throw"
  /\ job' = [job EXCEPT ![wjob].st = "delayed"]
  /\ Leave
  /\ UNCHANGED <<row, badge, run, last, hurt>>

\* process throws: another attempt after a pause, or the end.
Throw ==
  /\ wpc = "throw"
  /\ LET tries == job[wjob].tries + 1
     IN  job' = [job EXCEPT ![wjob].tries = tries,
                            ![wjob].st = IF tries < MaxAttempts THEN "delayed" ELSE "failed"]
  /\ Leave
  /\ UNCHANGED <<row, badge, run, last, hurt>>

\* The pause is over.
Retry(j) ==
  /\ job[j].st = "delayed"
  /\ job' = [job EXCEPT ![j].st = "waiting"]
  /\ UNCHANGED <<row, badge, run, last, hurt>> /\ UNCHANGED worker

\* The process dies and is restarted; the job it had stays active.
Crash ==
  /\ Crashes
  /\ wpc # "idle"
  /\ Leave
  /\ hurt' = TRUE
  /\ UNCHANGED <<row, badge, job, run, last>>

\* An active job that nobody works on.
Stalled(j) ==
  /\ job[j].st = "active"
  /\ wjob # j
  /\ job' = IF job[j].stalls < MaxStalls
            THEN [job EXCEPT ![j].st = "waiting", ![j].stalls = @ + 1]
            ELSE [job EXCEPT ![j].st = "failed"]
  /\ UNCHANGED <<row, badge, run, last, hurt>> /\ UNCHANGED worker

-----------------------------------------------------------------------------
WorkerStep ==
  \/ \E j \in Jobs : Pick(j)
  \/ Find \/ FindFails \/ Fan \/ FanFails \/ FanEnds
  \/ StartRun \/ Mark \/ Work \/ MarkOk \/ FinishOk \/ FinishFailed \/ MarkFailed
  \/ Throw

Next ==
  \/ \E a \in Accounts : Import(a) \/ Trigger(a) \/ Remove(a)
  \/ Schedule
  \/ WorkerStep
  \/ \E j \in Jobs : Retry(j) \/ Stalled(j)
  \/ Crash

Spec == Init /\ [][Next]_vars

\* The worker goes on, pauses end, the queue notices dead workers.
FairSpec ==
  /\ Spec
  /\ WF_vars(WorkerStep)
  /\ \A j \in Jobs : WF_vars(Retry(j)) /\ WF_vars(Stalled(j))

-----------------------------------------------------------------------------
(* Properties.                                                             *)

\* The variables have their types; attempts and stalls bound the runs of a job,
\* and the worker's job is one the queue calls active.
TypeOK ==
  /\ row \in [Accounts -> {"absent", "live", "gone"}]
  /\ badge \in [Accounts -> SyncState]
  /\ job \in [Jobs -> JobRow]
  /\ run \in [Jobs -> [1..MaxRuns -> SyncState \cup {"none"}]]
  /\ wpc \in {"idle", "find", "fan", "start", "mark", "work", "ok",
              "finish", "fail", "failmark", "throw"}
  /\ wjob \in Jobs \cup {NONE}
  /\ (wpc = "idle" <=> wjob = NONE)
  /\ (wjob # NONE => job[wjob].st = "active")
  /\ list \subseteq Accounts
  /\ last \in [Accounts -> {"none", "OK", "FAILED"}]
  /\ hurt \in BOOLEAN

\* The worker is past the start of a run.
InRun == wpc \in {"mark", "work", "ok", "finish", "fail", "failmark", "throw"}

\* As long as the process lives and failures can be recorded, the SyncRun table
\* tells the truth at every moment: RUNNING is the run under way and no other,
\* whatever else fails and whatever accounts are removed or re-imported under it.
RunsTell ==
  ~hurt => \A j \in Jobs : \A n \in 1..MaxRuns :
    run[j][n] = "RUNNING" => wjob = j /\ InRun /\ n = job[j].starts

\* And so does the badge: RUNNING when the worker is on that account, FAILED only
\* if its last run failed.
BadgeTells ==
  ~hurt => \A a \in Accounts : Live(a) =>
    /\ (badge[a] = "RUNNING" => wjob # NONE /\ Account = a /\ InRun)
    /\ (badge[a] = "FAILED" => last[a] = "FAILED")

\* Whatever fails, and however often the process dies, every job that is added
\* ends: it completes or its attempts are used up.
JobsEnd == \A j \in Jobs : Open(j) ~> ~Open(j)

-----------------------------------------------------------------------------
(* What comments of the repository say and the code does not keep.         *)

\* "Records every sync attempt so the UI can show data freshness + failures"
\* (sync-run.service.ts:6): no run is shown as RUNNING when its job is over.
RunsSettle ==
  \A j \in Jobs : \A n \in 1..MaxRuns : run[j][n] = "RUNNING" => Open(j)

\* The same comment: a job that failed for good has left a FAILED run.
FailuresRecorded ==
  \A j \in Jobs : job[j].st = "failed" => \E n \in 1..MaxRuns : run[j][n] = "FAILED"

\* "While a sync is RUNNING (or just triggered) poll every 2s so the badge updates
\* live" (connections/page.tsx:31): the badge of an account does leave RUNNING.
BadgeSettles ==
  \A a \in Accounts : (Live(a) /\ badge[a] = "RUNNING" ~> badge[a] # "RUNNING" \/ ~Live(a))
=============================================================================
