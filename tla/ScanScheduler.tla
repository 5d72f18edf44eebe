---------------------------- MODULE ScanScheduler ---------------------------
(***************************************************************************)
(* app/scheduling/scheduler.py: jobs are created, deleted and triggered,   *)
(* the scheduler is started and stopped, and cron loops and manual calls   *)
(* execute scans.                                                          *)
(*                                                                         *)
(* The steps between two awaits are atomic.  The program awaits the sleep  *)
(* of a cron loop, the scan executor, and the event and alert callbacks;   *)
(* a callback that raises has the same effect as one that returns.  The    *)
(* executor passes CancelledError on.                                      *)
(***************************************************************************)
EXTENDS Integers

CONSTANTS
    Jobs,         \* the ids uuid4 gives to jobs
    Scheduled,    \* those whose configuration has a cron schedule
    MaxLoops,     \* bound: cron loops started for one job
    MaxCalls,     \* bound: simultaneous calls of trigger_manual for one job
    MaxScans      \* bound: scans of one job

ASSUME SchedulerAssumption ==
    /\ Scheduled \subseteq Jobs
    /\ MaxLoops \in Nat /\ MaxCalls \in Nat /\ MaxScans \in Nat

\* Whoever may execute a scan of a job: its cron loops, numbered in the order
\* they were started in, and the manual calls.
Loops == Jobs \X (1 .. MaxLoops)
Calls == Jobs \X (MaxLoops + 1 .. MaxLoops + MaxCalls)
Workers == Jobs \X (1 .. MaxLoops + MaxCalls)
JobOf(w) == w[1]

VARIABLES
    jobs,         \* keys of _jobs
    created,      \* ids given out so far
    running,      \* _running of the scheduler
    tasks,        \* _scheduler_tasks: number of the job's loop, 0 for none
    started,      \* loops started for each job so far
    cancelled,    \* loops whose task.cancel() was called
    isRunning,    \* _running of each job
    status,       \* status of each job
    lastResult,   \* last_result: the number of the scan it is of, 0 for none
    scans,        \* scans of each job begun so far
    pc,           \* what each worker awaits
    scan          \* the number of the scan a worker awaits, 0 for none

vars == <<jobs, created, running, tasks, started, cancelled, isRunning, status,
          lastResult, scans, pc, scan>>

Waits == {"free", "sleeping", "skipping", "scanning", "reporting", "alerting",
          "ended"}
Executing(w) == pc[w] \in {"scanning", "reporting", "alerting"}

Init ==
    /\ jobs = {}
    /\ created = {}
    /\ running = FALSE
    /\ tasks = [j \in Jobs |-> 0]
    /\ started = [j \in Jobs |-> 0]
    /\ cancelled = {}
    /\ isRunning = [j \in Jobs |-> FALSE]
    /\ status = [j \in Jobs |-> "scheduled"]
    /\ lastResult = [j \in Jobs |-> 0]
    /\ scans = [j \in Jobs |-> 0]
    /\ pc = [w \in Workers |-> "free"]
    /\ scan = [w \in Workers |-> 0]

-----------------------------------------------------------------------------
(***************************************************************************)
(* Jobs and the scheduler as a whole.                                      *)
(***************************************************************************)

\* _start_job_loop for each job in J.
StartLoops(J) ==
    /\ \A j \in J : started[j] < MaxLoops
    /\ started' = [j \in Jobs |-> IF j \in J THEN started[j] + 1
                                  ELSE started[j]]
    /\ tasks' = [j \in Jobs |-> IF j \in J THEN started[j] + 1 ELSE tasks[j]]
    /\ pc' = [w \in Workers |->
                IF JobOf(w) \in J /\ w[2] = started[JobOf(w)] + 1
                THEN "sleeping" ELSE pc[w]]

\* Mutant: a job created while the scheduler runs gets no loop.
CreateWithoutLoop(j) ==
    /\ j \notin created
    /\ created' = created \cup {j}
    /\ jobs' = jobs \cup {j}
    /\ UNCHANGED <<running, tasks, started, cancelled, isRunning, status,
                   lastResult, scans, pc, scan>>

CreateJob(j) ==
    /\ j \notin created
    /\ created' = created \cup {j}
    /\ jobs' = jobs \cup {j}
    /\ StartLoops(IF running THEN {j} \cap Scheduled ELSE {})
    /\ UNCHANGED <<running, cancelled, isRunning, status, lastResult, scans,
                   scan>>

\* Calls task.cancel() for the registered loop of each job in J.
CancelLoops(J) ==
    /\ cancelled' = cancelled \cup {w \in Loops : /\ JobOf(w) \in J
                                                   /\ w[2] = tasks[JobOf(w)]}
    /\ tasks' = [j \in Jobs |-> IF j \in J THEN 0 ELSE tasks[j]]

DeleteJob(j) ==
    /\ j \in jobs
    /\ jobs' = jobs \ {j}
    /\ CancelLoops({j})
    /\ UNCHANGED <<created, running, started, isRunning, status, lastResult,
                   scans, pc, scan>>

\* start() does not ask whether the scheduler runs already: it then replaces
\* the registered loops by new ones.
Start ==
    /\ running' = TRUE
    /\ StartLoops(jobs \cap Scheduled)
    /\ UNCHANGED <<jobs, created, cancelled, isRunning, status, lastResult,
                   scans, scan>>

Stop ==
    /\ running' = FALSE
    /\ CancelLoops(Jobs)
    /\ UNCHANGED <<jobs, created, started, isRunning, status, lastResult,
                   scans, pc, scan>>

-----------------------------------------------------------------------------
(***************************************************************************)
(* Executions.  check_overlap and the first lines of _execute_scan run     *)
(* without an await between them.                                          *)
(***************************************************************************)
Goto(w, label) == pc' = [pc EXCEPT ![w] = label]

\* Mutant: the check looks at the job's status.
OverlapByStatus(j) == j \in jobs /\ status[j] = "running"

\* Mutant: no check.
OverlapNever(j) == FALSE

\* check_overlap: a job that was deleted does not overlap.
Overlap(j) == j \in jobs /\ isRunning[j]

\* Either the scan is skipped, or _execute_scan begins.
SkipOrScan(w) ==
    \/ /\ Overlap(JobOf(w))
       /\ Goto(w, "skipping")
       /\ UNCHANGED <<isRunning, status, scans, scan>>
    \/ /\ ~Overlap(JobOf(w))
       /\ scans[JobOf(w)] < MaxScans
       /\ isRunning' = [isRunning EXCEPT ![JobOf(w)] = TRUE]
       /\ status' = [status EXCEPT ![JobOf(w)] = "running"]
       /\ scans' = [scans EXCEPT ![JobOf(w)] = @ + 1]
       /\ scan' = [scan EXCEPT ![w] = scans[JobOf(w)] + 1]
       /\ Goto(w, "scanning")

Trigger(w) ==
    /\ w \in Calls
    /\ pc[w] = "free"
    /\ JobOf(w) \in jobs
    /\ SkipOrScan(w)
    /\ UNCHANGED <<jobs, created, running, tasks, started, cancelled,
                   lastResult>>

\* The sleep is over.  Which scan the schedule asks for makes no difference.
Wake(w) ==
    /\ w \in Loops \ cancelled
    /\ pc[w] = "sleeping"
    /\ \/ /\ ~running
          /\ Goto(w, "ended")
          /\ UNCHANGED <<isRunning, status, scans, scan>>
       \/ /\ running
          /\ SkipOrScan(w)
    /\ UNCHANGED <<jobs, created, running, tasks, started, cancelled,
                   lastResult>>

\* A loop goes on while the scheduler runs; a call returns.
GoOn(w) ==
    Goto(w, IF w \in Calls THEN "free"
            ELSE IF running THEN "sleeping" ELSE "ended")

\* The scan_skipped event has been handled.
Skipped(w) ==
    /\ w \notin cancelled
    /\ pc[w] = "skipping"
    /\ GoOn(w)
    /\ UNCHANGED <<jobs, created, running, tasks, started, cancelled,
                   isRunning, status, lastResult, scans, scan>>

\* The executor returns a result, which may say that the scan failed, or it
\* raises; either way a result becomes last_result.
Executed(w, outcome, label) ==
    /\ w \notin cancelled
    /\ pc[w] = "scanning"
    /\ status' = [status EXCEPT ![JobOf(w)] = outcome]
    /\ lastResult' = [lastResult EXCEPT ![JobOf(w)] = scan[w]]
    /\ scan' = [scan EXCEPT ![w] = 0]
    /\ Goto(w, label)
    /\ UNCHANGED <<jobs, created, running, tasks, started, cancelled,
                   isRunning, scans>>

ScanReturns(w) ==
    \E outcome \in {"completed", "failed"} : Executed(w, outcome, "reporting")

ScanRaises(w) == Executed(w, "failed", "alerting")

\* The scan_completed event or the scan_failed alert has been handled; the
\* finally clause releases the job.
ScanEnds(w) ==
    /\ w \notin cancelled
    /\ pc[w] \in {"reporting", "alerting"}
    /\ isRunning' = [isRunning EXCEPT ![JobOf(w)] = FALSE]
    /\ GoOn(w)
    /\ UNCHANGED <<jobs, created, running, tasks, started, cancelled, status,
                   lastResult, scans, scan>>

\* Mutant: the loop catches CancelledError around one round of it.
LoopSurvives(w) ==
    /\ w \in cancelled
    /\ pc[w] \in Waits \ {"free", "ended"}
    /\ isRunning' = [isRunning EXCEPT ![JobOf(w)] = @ /\ ~Executing(w)]
    /\ scan' = [scan EXCEPT ![w] = 0]
    /\ GoOn(w)
    /\ cancelled' = cancelled \ {w}
    /\ UNCHANGED <<jobs, created, running, tasks, started, status, lastResult,
                   scans>>

\* CancelledError reaches the await of a cancelled loop, and ends the loop.
\* From within a scan it leaves by the finally clause only.
LoopCancelled(w) ==
    /\ w \in cancelled
    /\ pc[w] \in Waits \ {"free", "ended"}
    /\ isRunning' = [isRunning EXCEPT ![JobOf(w)] = @ /\ ~Executing(w)]
    /\ scan' = [scan EXCEPT ![w] = 0]
    /\ Goto(w, "ended")
    /\ UNCHANGED <<jobs, created, running, tasks, started, cancelled, status,
                   lastResult, scans>>

Next ==
    \/ Start
    \/ Stop
    \/ \E j \in Jobs : CreateJob(j) \/ DeleteJob(j)
    \/ \E w \in Workers :
          \/ Trigger(w)
          \/ Wake(w)
          \/ Skipped(w)
          \/ ScanReturns(w)
          \/ ScanRaises(w)
          \/ ScanEnds(w)
          \/ LoopCancelled(w)

\* A cancellation is delivered.  Nothing else is assumed: the executor has no
\* time limit, and nobody has to call the scheduler.
Fairness == \A w \in Loops : WF_vars(LoopCancelled(w))

Spec == Init /\ [][Next]_vars /\ Fairness

-----------------------------------------------------------------------------
TypeOK ==
    /\ jobs \subseteq created
    /\ created \subseteq Jobs
    /\ running \in BOOLEAN
    /\ tasks \in [Jobs -> Nat]
    /\ started \in [Jobs -> Nat]
    /\ cancelled \subseteq Loops
    /\ isRunning \in [Jobs -> BOOLEAN]
    /\ status \in [Jobs -> {"scheduled", "running", "completed", "failed"}]
    /\ lastResult \in [Jobs -> Nat]
    /\ scans \in [Jobs -> Nat]
    /\ pc \in [Workers -> Waits]
    /\ scan \in [Workers -> Nat]

\* Two executions of a registered job never overlap, whether its loops,
\* forgotten loops or manual calls start them (check_overlap, _execute_scan).
\* Of a job that was deleted they may: see DeletedJobsStop.
ScansNeverOverlap ==
    \A v, w \in Workers :
        JobOf(v) = JobOf(w) /\ JobOf(v) \in jobs /\ Executing(v)
            /\ Executing(w) => v = w

(***************************************************************************)
(* What makes it inductive: a job's flag is set exactly while one worker   *)
(* executes it, and nothing runs for an id that was not given out.         *)
(***************************************************************************)
FlagIsExact ==
    \A j \in jobs :
        isRunning[j] <=> \E w \in Workers : JobOf(w) = j /\ Executing(w)

UnusedIdsAreIdle ==
    /\ \A j \in Jobs \ created : ~isRunning[j]
    /\ \A w \in Workers : pc[w] # "free" => JobOf(w) \in created

NewLoopsAreFree ==
    \A w \in Loops : w[2] > started[JobOf(w)] => pc[w] = "free"

OverlapInv == ScansNeverOverlap /\ FlagIsExact /\ UnusedIdsAreIdle

\* A job's last result is never replaced by that of an earlier scan.
ResultsInOrder ==
    [][\A j \in jobs : lastResult'[j] >= lastResult[j]]_vars

\* While the scheduler runs, every registered job with a schedule has a loop
\* that is alive and that stop() or delete_job would cancel, whatever was
\* created, deleted, started and stopped before.
ScheduledJobsHaveLoops ==
    /\ TypeOK
    /\ running =>
        \A j \in jobs \cap Scheduled :
            /\ tasks[j] \in 1 .. MaxLoops
            /\ pc[<<j, tasks[j]>>] \notin {"free", "ended"}
            /\ <<j, tasks[j]>> \notin cancelled

\* A loop cancelled by stop() or delete_job ends, wherever it was and even if
\* the scheduler is started again before it notices.
CancelledLoopsEnd ==
    \A w \in Loops : w \in cancelled ~> pc[w] = "ended"

-----------------------------------------------------------------------------
(***************************************************************************)
(* What the docstrings say, and the code does not keep.                    *)
(***************************************************************************)

\* ScanJob: "status: Current status (scheduled, running, ...)".  A loop
\* cancelled during a scan leaves the status behind.
StatusIsCurrent == \A j \in jobs : status[j] = "running" => isRunning[j]

\* delete_job: "Delete a scan job and stop its scheduler loop."  The loop
\* that a second start() replaced is not known to it any more.
DeletedJobsStop ==
    \A w \in Loops :
        JobOf(w) \in created \ jobs /\ pc[w] \notin {"free", "ended"} =>
            w \in cancelled
=============================================================================
