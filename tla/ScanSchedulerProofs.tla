------------------------- MODULE ScanSchedulerProofs ------------------------
(***************************************************************************)
(* Theorems about module ScanScheduler, for any jobs, and any number of    *)
(* loops, calls and scans: its type invariant, and that the executions of  *)
(* a registered job never overlap.                                         *)
(***************************************************************************)
EXTENDS ScanScheduler, TLAPS

LEMMA WorkersAreLoopsAndCalls ==
    /\ Loops \subseteq Workers
    /\ Calls \subseteq Workers
    /\ \A w \in Workers : JobOf(w) \in Jobs
  BY SchedulerAssumption DEF Loops, Calls, Workers, JobOf

\* What a worker awaits after Goto, SkipOrScan, GoOn and Executed.
LEMMA SkipOrScanType ==
    ASSUME TypeOK, NEW w \in Workers, SkipOrScan(w)
    PROVE  /\ isRunning' \in [Jobs -> BOOLEAN]
           /\ status' \in
                [Jobs -> {"scheduled", "running", "completed", "failed"}]
           /\ scans' \in [Jobs -> Nat]
           /\ scan' \in [Workers -> Nat]
           /\ pc' \in [Workers -> Waits]
  <1>1. CASE Overlap(JobOf(w))
    BY <1>1 DEF SkipOrScan, Goto, TypeOK, Waits
  <1>2. CASE ~Overlap(JobOf(w))
    <2>1. JobOf(w) \in Jobs
      BY WorkersAreLoopsAndCalls
    <2>2. /\ isRunning' = [isRunning EXCEPT ![JobOf(w)] = TRUE]
          /\ status' = [status EXCEPT ![JobOf(w)] = "running"]
          /\ scans' = [scans EXCEPT ![JobOf(w)] = @ + 1]
          /\ scan' = [scan EXCEPT ![w] = scans[JobOf(w)] + 1]
          /\ pc' = [pc EXCEPT ![w] = "scanning"]
      BY <1>2 DEF SkipOrScan, Goto
    <2>3. isRunning' \in [Jobs -> BOOLEAN]
      BY <2>1, <2>2 DEF TypeOK
    <2>4. /\ status' \in
               [Jobs -> {"scheduled", "running", "completed", "failed"}]
          /\ pc' \in [Workers -> Waits]
      BY <2>1, <2>2 DEF TypeOK, Waits
    <2>5. scans' \in [Jobs -> Nat] /\ scan' \in [Workers -> Nat]
      BY <2>1, <2>2 DEF TypeOK
    <2> QED
      BY <2>3, <2>4, <2>5
  <1> QED
    BY <1>1, <1>2

LEMMA GoOnType ==
    ASSUME TypeOK, NEW w \in Workers, GoOn(w)
    PROVE  pc' \in [Workers -> Waits]
  BY DEF GoOn, Goto, TypeOK, Waits

LEMMA StartLoopsType ==
    ASSUME TypeOK, NEW J \in SUBSET Jobs, StartLoops(J)
    PROVE  /\ started' \in [Jobs -> Nat]
           /\ tasks' \in [Jobs -> Nat]
           /\ pc' \in [Workers -> Waits]
  BY DEF StartLoops, TypeOK, Waits

LEMMA CancelLoopsType ==
    ASSUME TypeOK, NEW J \in SUBSET Jobs, CancelLoops(J)
    PROVE  /\ cancelled' \subseteq Loops
           /\ tasks' \in [Jobs -> Nat]
  BY DEF CancelLoops, TypeOK, Loops

LEMMA InitType == Init => TypeOK
  <1> SUFFICES ASSUME Init
               PROVE  TypeOK
    OBVIOUS
  <1>1. /\ jobs \subseteq created /\ created \subseteq Jobs
        /\ running \in BOOLEAN /\ cancelled \subseteq Loops
    BY DEF Init
  <1>2. isRunning \in [Jobs -> BOOLEAN]
    BY DEF Init
  <1>3. /\ tasks \in [Jobs -> Nat] /\ started \in [Jobs -> Nat]
        /\ lastResult \in [Jobs -> Nat] /\ scans \in [Jobs -> Nat]
        /\ scan \in [Workers -> Nat]
    BY DEF Init
  <1>4. /\ status \in [Jobs -> {"scheduled", "running", "completed", "failed"}]
        /\ pc \in [Workers -> Waits]
    BY DEF Init, Waits
  <1> QED
    BY <1>1, <1>2, <1>3, <1>4 DEF TypeOK

LEMMA NextType == TypeOK /\ [Next]_vars => TypeOK'
  <1> SUFFICES ASSUME TypeOK, [Next]_vars
               PROVE  TypeOK'
    OBVIOUS
  <1>1. CASE Start
    <2>1. jobs \cap Scheduled \in SUBSET Jobs
      BY DEF TypeOK
    <2> QED
      BY <1>1, <2>1, StartLoopsType DEF Start, TypeOK
  <1>2. CASE Stop
    BY <1>2, CancelLoopsType DEF Stop, TypeOK
  <1>3. ASSUME NEW j \in Jobs, CreateJob(j)
        PROVE  TypeOK'
    <2>1. (IF running THEN {j} \cap Scheduled ELSE {}) \in SUBSET Jobs
      OBVIOUS
    <2> QED
      BY <1>3, <2>1, StartLoopsType DEF CreateJob, TypeOK
  <1>4. ASSUME NEW j \in Jobs, DeleteJob(j)
        PROVE  TypeOK'
    <2>1. {j} \in SUBSET Jobs
      OBVIOUS
    <2> QED
      BY <1>4, <2>1, CancelLoopsType DEF DeleteJob, TypeOK
  <1>5. ASSUME NEW w \in Workers, Trigger(w)
        PROVE  TypeOK'
    BY <1>5, SkipOrScanType DEF Trigger, TypeOK
  <1>6. ASSUME NEW w \in Workers, Wake(w)
        PROVE  TypeOK'
    <2>1. CASE ~running
      BY <1>6, <2>1 DEF Wake, Goto, TypeOK, Waits
    <2>2. CASE running
      BY <1>6, <2>2, SkipOrScanType DEF Wake, TypeOK
    <2> QED
      BY <2>1, <2>2
  <1>7. ASSUME NEW w \in Workers, Skipped(w)
        PROVE  TypeOK'
    BY <1>7, GoOnType DEF Skipped, TypeOK
  <1>8. ASSUME NEW w \in Workers, ScanReturns(w) \/ ScanRaises(w)
        PROVE  TypeOK'
    BY <1>8, WorkersAreLoopsAndCalls
       DEF ScanReturns, ScanRaises, Executed, Goto, TypeOK, Waits
  <1>9. ASSUME NEW w \in Workers, ScanEnds(w)
        PROVE  TypeOK'
    BY <1>9, GoOnType DEF ScanEnds, TypeOK
  <1>10. ASSUME NEW w \in Workers, LoopCancelled(w)
         PROVE  TypeOK'
    <2>1. isRunning' \in [Jobs -> BOOLEAN]
      BY <1>10 DEF LoopCancelled, TypeOK, Executing
    <2> QED
      BY <1>10, <2>1 DEF LoopCancelled, Goto, TypeOK, Waits
  <1>11. CASE UNCHANGED vars
    BY <1>11 DEF vars, TypeOK
  <1> QED
    BY <1>1, <1>2, <1>3, <1>4, <1>5, <1>6, <1>7, <1>8, <1>9, <1>10, <1>11
       DEF Next

\* Every reachable state of the scheduler is type-correct.
THEOREM SchedulerTypeCorrect == Spec => []TypeOK
  BY InitType, NextType, PTL DEF Spec

-----------------------------------------------------------------------------
(***************************************************************************)
(* No overlap.  A step begins an execution only if the job's flag is not   *)
(* set, or if the job is not registered; it resets the flag only together  *)
(* with the one execution there is.                                        *)
(***************************************************************************)
LEMMA InitOverlap == Init => OverlapInv
  BY DEF Init, OverlapInv, ScansNeverOverlap, FlagIsExact, UnusedIdsAreIdle,
         Executing

\* Steps that begin and end no execution.
LEMMA SameExecutions ==
    ASSUME TypeOK, OverlapInv, TypeOK',
           UNCHANGED isRunning, created \subseteq created',
           jobs' \subseteq jobs \cup (created' \ created),
           \A w \in Workers : Executing(w)' <=> Executing(w),
           \A w \in Workers : pc'[w] # "free" => JobOf(w) \in created'
    PROVE  OverlapInv'
  \* A job that is new has no execution, and so far neither flag nor worker.
  <1>1. \A j \in created' \ created : \A w \in Workers :
           JobOf(w) = j => ~Executing(w)
    BY DEF OverlapInv, UnusedIdsAreIdle, Executing
  <1>2. ScansNeverOverlap'
    BY <1>1 DEF OverlapInv, ScansNeverOverlap
  <1>3. FlagIsExact'
    <2> SUFFICES ASSUME NEW j \in jobs'
                 PROVE  isRunning[j] <=>
                          \E w \in Workers : JobOf(w) = j /\ Executing(w)
      BY DEF FlagIsExact
    <2>1. CASE j \in jobs
      BY <2>1 DEF OverlapInv, FlagIsExact
    <2>2. CASE j \in created' \ created
      <3>1. j \in Jobs
        BY <2>2 DEF TypeOK
      <3> QED
        BY <1>1, <2>2, <3>1 DEF OverlapInv, UnusedIdsAreIdle
    <2> QED
      BY <2>1, <2>2
  <1>4. UnusedIdsAreIdle'
    BY DEF OverlapInv, UnusedIdsAreIdle
  <1> QED
    BY <1>2, <1>3, <1>4 DEF OverlapInv

\* An execution begins, or is skipped.
LEMMA SkipOrScanOverlap ==
    ASSUME TypeOK, OverlapInv, TypeOK', NEW w \in Workers, SkipOrScan(w),
           UNCHANGED <<jobs, created>>, ~Executing(w), JobOf(w) \in created
    PROVE  OverlapInv'
  <1>1. CASE Overlap(JobOf(w))
    <2>1. UNCHANGED isRunning /\ pc' = [pc EXCEPT ![w] = "skipping"]
      BY <1>1 DEF SkipOrScan, Goto
    <2>2. \A v \in Workers : Executing(v)' <=> Executing(v)
      BY <2>1 DEF Executing, TypeOK
    <2>3. \A v \in Workers : pc'[v] # "free" => JobOf(v) \in created'
      BY <2>1 DEF OverlapInv, UnusedIdsAreIdle, TypeOK
    <2> QED
      BY <2>1, <2>2, <2>3, SameExecutions
  <1>2. CASE ~Overlap(JobOf(w))
    <2>1. /\ isRunning' = [isRunning EXCEPT ![JobOf(w)] = TRUE]
          /\ pc' = [pc EXCEPT ![w] = "scanning"]
      BY <1>2 DEF SkipOrScan, Goto
    <2>2. /\ Executing(w)'
          /\ \A v \in Workers \ {w} : Executing(v)' <=> Executing(v)
      BY <2>1 DEF Executing, TypeOK
    <2>3. \A v \in Workers : JobOf(v) = JobOf(w) /\ JobOf(w) \in jobs =>
                                ~Executing(v)
      BY <1>2 DEF Overlap, OverlapInv, FlagIsExact
    <2>4. JobOf(w) \in Jobs
      BY WorkersAreLoopsAndCalls
    <2>5. ScansNeverOverlap'
      BY <2>2, <2>3 DEF OverlapInv, ScansNeverOverlap
    <2>6. FlagIsExact'
      BY <2>1, <2>2, <2>4 DEF OverlapInv, FlagIsExact, TypeOK
    <2>7. UnusedIdsAreIdle'
      BY <2>1, <2>4 DEF OverlapInv, UnusedIdsAreIdle, TypeOK
    <2> QED
      BY <2>5, <2>6, <2>7 DEF OverlapInv
  <1> QED
    BY <1>1, <1>2

\* A worker leaves its execution, if it is in one.
LEMMA LeaveOverlap ==
    ASSUME TypeOK, OverlapInv, TypeOK', NEW w \in Workers,
           pc[w] # "free", NEW label \in {"free", "sleeping", "ended"},
           pc' = [pc EXCEPT ![w] = label],
           isRunning' = [isRunning EXCEPT ![JobOf(w)] = @ /\ ~Executing(w)],
           UNCHANGED <<jobs, created>>
    PROVE  OverlapInv'
  <1>1. /\ ~Executing(w)'
        /\ \A v \in Workers \ {w} : Executing(v)' <=> Executing(v)
    BY DEF Executing, TypeOK
  <1>2. JobOf(w) \in Jobs /\ JobOf(w) \in created
    BY WorkersAreLoopsAndCalls DEF OverlapInv, UnusedIdsAreIdle
  <1>3. ScansNeverOverlap'
    BY <1>1 DEF OverlapInv, ScansNeverOverlap
  <1>4. FlagIsExact'
    <2> SUFFICES ASSUME NEW j \in jobs
                 PROVE  isRunning'[j] <=>
                          \E v \in Workers : JobOf(v) = j /\ Executing(v)'
      BY DEF FlagIsExact
    <2>0. j \in Jobs
      BY DEF TypeOK
    <2>1. isRunning[j] <=> \E v \in Workers : JobOf(v) = j /\ Executing(v)
      BY DEF OverlapInv, FlagIsExact
    <2>2. CASE j # JobOf(w)
      BY <1>1, <2>0, <2>1, <2>2 DEF TypeOK
    <2>3. CASE j = JobOf(w) /\ ~Executing(w)
      <3>1. isRunning'[j] <=> isRunning[j]
        BY <1>2, <2>3 DEF TypeOK
      <3> QED
        BY <1>1, <2>1, <2>3, <3>1
    <2>4. CASE j = JobOf(w) /\ Executing(w)
      <3>1. ~isRunning'[j]
        BY <1>2, <2>4 DEF TypeOK
      <3>2. \A v \in Workers : JobOf(v) = j /\ Executing(v) => v = w
        BY <2>4 DEF OverlapInv, ScansNeverOverlap
      <3> QED
        BY <1>1, <3>1, <3>2
    <2> QED
      BY <2>2, <2>3, <2>4
  <1>5. UnusedIdsAreIdle'
    BY <1>2 DEF OverlapInv, UnusedIdsAreIdle, TypeOK
  <1> QED
    BY <1>3, <1>4, <1>5 DEF OverlapInv

\* A number not yet given to a loop is free: only StartLoops changes that,
\* and it gives the number away.
LEMMA InitNewLoops == Init => NewLoopsAreFree
  BY WorkersAreLoopsAndCalls DEF Init, NewLoopsAreFree

LEMMA StartLoopsNew ==
    ASSUME TypeOK, NewLoopsAreFree, NEW J \in SUBSET Jobs, StartLoops(J)
    PROVE  NewLoopsAreFree'
  <1> SUFFICES ASSUME NEW w \in Loops, w[2] > started'[JobOf(w)]
               PROVE  pc'[w] = "free"
    BY DEF NewLoopsAreFree
  <1>1. w \in Workers /\ JobOf(w) \in Jobs /\ w[2] \in Nat
    BY WorkersAreLoopsAndCalls DEF Loops
  <1>2. started[JobOf(w)] \in Nat
    BY <1>1 DEF TypeOK
  <1>3. pc[w] = "free"
    BY <1>1, <1>2 DEF StartLoops, NewLoopsAreFree
  <1> QED
    BY <1>1, <1>2, <1>3 DEF StartLoops

\* A worker that is not free, or is a call, may go anywhere.
LEMMA GotoNew ==
    ASSUME TypeOK, NewLoopsAreFree, NEW w \in Workers,
           pc[w] # "free" \/ w \notin Loops,
           NEW label, pc' = [pc EXCEPT ![w] = label], UNCHANGED started
    PROVE  NewLoopsAreFree'
  BY WorkersAreLoopsAndCalls DEF NewLoopsAreFree, TypeOK

LEMMA NextNewLoops ==
    ASSUME TypeOK, NewLoopsAreFree, [Next]_vars
    PROVE  NewLoopsAreFree'
  <1>1. CASE Start
    BY <1>1, StartLoopsNew DEF Start, TypeOK
  <1>2. ASSUME NEW j \in Jobs, CreateJob(j)
        PROVE  NewLoopsAreFree'
    <2>1. (IF running THEN {j} \cap Scheduled ELSE {}) \in SUBSET Jobs
      OBVIOUS
    <2> QED
      BY <1>2, <2>1, StartLoopsNew DEF CreateJob
  <1>3. ASSUME NEW w \in Workers, Trigger(w)
        PROVE  NewLoopsAreFree'
    <2>1. w \notin Loops
      BY <1>3, SchedulerAssumption DEF Trigger, Calls, Loops
    <2>2. UNCHANGED started
      BY <1>3 DEF Trigger
    <2>3. \/ pc' = [pc EXCEPT ![w] = "skipping"]
          \/ pc' = [pc EXCEPT ![w] = "scanning"]
      BY <1>3 DEF Trigger, SkipOrScan, Goto
    <2> QED
      BY <2>1, <2>2, <2>3, GotoNew
  <1>4. ASSUME NEW w \in Workers,
               \/ Wake(w) \/ Skipped(w) \/ ScanReturns(w) \/ ScanRaises(w)
               \/ ScanEnds(w) \/ LoopCancelled(w)
        PROVE  NewLoopsAreFree'
    <2>1. pc[w] # "free" /\ UNCHANGED started
      BY <1>4 DEF Wake, Skipped, ScanReturns, ScanRaises, Executed, ScanEnds,
                  LoopCancelled
    <2>2. \E label \in Waits : pc' = [pc EXCEPT ![w] = label]
      BY <1>4 DEF Wake, SkipOrScan, Skipped, GoOn, ScanReturns, ScanRaises,
                  Executed, ScanEnds, LoopCancelled, Goto, Waits
    <2> QED
      BY <2>1, <2>2, GotoNew
  <1>5. CASE Stop \/ (\E j \in Jobs : DeleteJob(j)) \/ UNCHANGED vars
    BY <1>5 DEF Stop, DeleteJob, vars, NewLoopsAreFree
  <1> QED
    BY <1>1, <1>2, <1>3, <1>4, <1>5 DEF Next

\* Loops start asleep, on numbers that were free.
LEMMA StartLoopsOverlap ==
    ASSUME TypeOK, OverlapInv, NewLoopsAreFree, TypeOK',
           NEW J \in SUBSET created', StartLoops(J), UNCHANGED isRunning,
           created \subseteq created',
           jobs' \subseteq jobs \cup (created' \ created)
    PROVE  OverlapInv'
  <1>1. J \subseteq Jobs
    BY DEF TypeOK
  <1>2. ASSUME NEW w \in Workers
        PROVE  /\ Executing(w)' <=> Executing(w)
               /\ pc'[w] # "free" => JobOf(w) \in created'
    <2>1. CASE JobOf(w) \in J /\ w[2] = started[JobOf(w)] + 1
      <3>1. pc'[w] = "sleeping"
        BY <2>1 DEF StartLoops
      <3>2. started[JobOf(w)] \in Nat /\ started[JobOf(w)] < MaxLoops
        BY <1>1, <2>1 DEF StartLoops, TypeOK
      <3>3. w \in Loops
        BY <2>1, <3>2, SchedulerAssumption DEF Workers, Loops, JobOf
      <3>4. pc[w] = "free"
        BY <2>1, <3>2, <3>3 DEF NewLoopsAreFree
      <3> QED
        BY <2>1, <3>1, <3>4 DEF Executing
    <2>2. CASE ~(JobOf(w) \in J /\ w[2] = started[JobOf(w)] + 1)
      <3>1. pc'[w] = pc[w]
        BY <2>2 DEF StartLoops
      <3> QED
        BY <3>1 DEF Executing, OverlapInv, UnusedIdsAreIdle
    <2> QED
      BY <2>1, <2>2
  <1> QED
    BY <1>2, SameExecutions

LEMMA NextOverlap ==
    ASSUME TypeOK, OverlapInv, NewLoopsAreFree, [Next]_vars
    PROVE  OverlapInv'
  <1>0. TypeOK'
    BY NextType
  <1>1. CASE Start
    <2>1. jobs \cap Scheduled \in SUBSET created'
      BY <1>1 DEF Start, TypeOK
    <2> QED
      BY <1>0, <1>1, <2>1, StartLoopsOverlap DEF Start
  <1>2. ASSUME NEW j \in Jobs, CreateJob(j)
        PROVE  OverlapInv'
    <2>1. (IF running THEN {j} \cap Scheduled ELSE {}) \in SUBSET created'
      BY <1>2 DEF CreateJob
    <2>2. jobs' \subseteq jobs \cup (created' \ created)
      BY <1>2 DEF CreateJob
    <2> QED
      BY <1>0, <1>2, <2>1, <2>2, StartLoopsOverlap DEF CreateJob
  <1>3. CASE Stop \/ (\E j \in Jobs : DeleteJob(j)) \/ UNCHANGED vars
    <2>1. /\ UNCHANGED <<created, isRunning, pc>>
          /\ jobs' \subseteq jobs
      BY <1>3 DEF Stop, DeleteJob, vars
    <2>2. \A w \in Workers : /\ Executing(w)' <=> Executing(w)
                             /\ pc'[w] # "free" => JobOf(w) \in created'
      BY <2>1 DEF Executing, OverlapInv, UnusedIdsAreIdle
    <2> QED
      BY <1>0, <2>1, <2>2, SameExecutions
  <1>4. ASSUME NEW w \in Workers, Trigger(w)
        PROVE  OverlapInv'
    <2>1. JobOf(w) \in created /\ ~Executing(w)
      BY <1>4 DEF Trigger, TypeOK, Executing
    <2> QED
      BY <1>0, <1>4, <2>1, SkipOrScanOverlap DEF Trigger
  <1>5. ASSUME NEW w \in Workers, Wake(w)
        PROVE  OverlapInv'
    <2>1. JobOf(w) \in created /\ ~Executing(w) /\ pc[w] # "free"
      BY <1>5 DEF Wake, Executing, OverlapInv, UnusedIdsAreIdle
    <2>2. CASE ~running
      <3>1. isRunning' = [isRunning EXCEPT ![JobOf(w)] = @ /\ ~Executing(w)]
        BY <1>5, <2>1, <2>2 DEF Wake, TypeOK
      <3> QED
        BY <1>0, <1>5, <2>1, <2>2, <3>1, LeaveOverlap DEF Wake, Goto
    <2>3. CASE running
      BY <1>0, <1>5, <2>1, <2>3, SkipOrScanOverlap DEF Wake
    <2> QED
      BY <2>2, <2>3
  <1>6. ASSUME NEW w \in Workers,
               Skipped(w) \/ ScanReturns(w) \/ ScanRaises(w)
        PROVE  OverlapInv'
    <2>1. /\ pc[w] # "free"
          /\ UNCHANGED <<jobs, created, isRunning>>
          /\ \E label \in Waits :
                /\ pc' = [pc EXCEPT ![w] = label]
                /\ label \in {"scanning", "reporting", "alerting"}
                     <=> Executing(w)
      BY <1>6 DEF Skipped, GoOn, ScanReturns, ScanRaises, Executed, Goto,
                  Waits, Executing
    <2>2. \A v \in Workers : Executing(v)' <=> Executing(v)
      BY <2>1 DEF Executing, TypeOK
    <2>3. \A v \in Workers : pc'[v] # "free" => JobOf(v) \in created'
      BY <2>1 DEF OverlapInv, UnusedIdsAreIdle, TypeOK
    <2> QED
      BY <1>0, <2>1, <2>2, <2>3, SameExecutions
  <1>7. ASSUME NEW w \in Workers, ScanEnds(w) \/ LoopCancelled(w)
        PROVE  OverlapInv'
    <2>1. /\ pc[w] # "free"
          /\ UNCHANGED <<jobs, created>>
          /\ \E label \in {"free", "sleeping", "ended"} :
                pc' = [pc EXCEPT ![w] = label]
      BY <1>7 DEF ScanEnds, LoopCancelled, GoOn, Goto
    <2>2. isRunning' = [isRunning EXCEPT ![JobOf(w)] = @ /\ ~Executing(w)]
      BY <1>7 DEF ScanEnds, LoopCancelled, Executing
    <2> QED
      BY <1>0, <2>1, <2>2, LeaveOverlap
  <1> QED
    BY <1>1, <1>2, <1>3, <1>4, <1>5, <1>6, <1>7 DEF Next

\* At most one execution of a registered job at any time, for any number of
\* loops and calls, also loops that a second start() has left behind.
THEOREM ScansExclude == Spec => []ScansNeverOverlap
  <1>1. OverlapInv => ScansNeverOverlap
    BY DEF OverlapInv
  <1> QED
    BY <1>1, InitOverlap, InitNewLoops, NextOverlap, NextNewLoops,
       SchedulerTypeCorrect, PTL DEF Spec

-----------------------------------------------------------------------------
(***************************************************************************)
(* Loops.  The number of a registered loop, or of one cancelled, has been  *)
(* given out; the next number is therefore of a loop that is neither.      *)
(***************************************************************************)
NumbersGivenOut ==
    /\ \A j \in Jobs : tasks[j] <= started[j]
    /\ \A w \in cancelled : w[2] <= started[JobOf(w)]

LoopsInv == NumbersGivenOut /\ ScheduledJobsHaveLoops

LEMMA InitLoops == Init => LoopsInv
  <1> SUFFICES ASSUME Init
               PROVE  LoopsInv
    OBVIOUS
  <1>1. TypeOK
    BY InitType
  <1>2. NumbersGivenOut
    BY DEF Init, NumbersGivenOut
  <1>3. ScheduledJobsHaveLoops
    BY <1>1 DEF Init, ScheduledJobsHaveLoops
  <1> QED
    BY <1>2, <1>3 DEF LoopsInv

LEMMA RegisteredLoopIsLoop ==
    ASSUME NEW j \in Jobs, NEW n \in 1 .. MaxLoops
    PROVE  <<j, n>> \in Loops /\ <<j, n>> \in Workers /\ <<j, n>> \notin Calls
  BY SchedulerAssumption DEF Loops, Workers, Calls

\* Loops are started for every job that needs one and has none.
LEMMA StartLoopsLoops ==
    ASSUME TypeOK, TypeOK', LoopsInv, NEW J \in SUBSET Jobs, StartLoops(J),
           UNCHANGED cancelled, jobs' \subseteq Jobs,
           running' =>
             \A j \in (jobs' \cap Scheduled) \ J : running /\ j \in jobs
    PROVE  LoopsInv'
  <1>1. ASSUME NEW j \in Jobs
        PROVE  /\ tasks'[j] <= started'[j]
               /\ started[j] <= started'[j]
               /\ started[j] \in Nat
    BY DEF StartLoops, TypeOK, LoopsInv, NumbersGivenOut
  <1>2. NumbersGivenOut'
    <2>1. ASSUME NEW w \in cancelled
          PROVE  w[2] <= started'[JobOf(w)]
      <3>1. JobOf(w) \in Jobs /\ w[2] \in Nat
        BY WorkersAreLoopsAndCalls DEF TypeOK, Loops
      <3>2. started'[JobOf(w)] \in Nat /\ started[JobOf(w)] \in Nat
        BY <3>1 DEF TypeOK
      <3>3. w[2] <= started[JobOf(w)]
        BY DEF LoopsInv, NumbersGivenOut
      <3> QED
        BY <1>1, <3>1, <3>2, <3>3
    <2> QED
      BY <1>1, <2>1 DEF NumbersGivenOut
  <1>3. ASSUME running', NEW j \in jobs' \cap Scheduled
        PROVE  /\ tasks'[j] \in 1 .. MaxLoops
               /\ pc'[<<j, tasks'[j]>>] \notin {"free", "ended"}
               /\ <<j, tasks'[j]>> \notin cancelled
    <2>1. CASE j \in J
      <3>1. tasks'[j] = started[j] + 1 /\ started[j] < MaxLoops
        BY <2>1 DEF StartLoops
      <3>2. tasks'[j] \in 1 .. MaxLoops
        BY <1>1, <2>1, <3>1, SchedulerAssumption
      <3>3. <<j, tasks'[j]>> \in Workers
        BY <2>1, <3>2, RegisteredLoopIsLoop
      <3>4. pc'[<<j, tasks'[j]>>] = "sleeping"
        BY <2>1, <3>1, <3>3 DEF StartLoops, JobOf
      <3>5. <<j, tasks'[j]>> \notin cancelled
        BY <1>1, <2>1, <3>1 DEF LoopsInv, NumbersGivenOut, JobOf
      <3> QED
        BY <3>2, <3>4, <3>5
    <2>2. CASE j \notin J
      <3>1. /\ tasks[j] \in 1 .. MaxLoops
            /\ pc[<<j, tasks[j]>>] \notin {"free", "ended"}
            /\ <<j, tasks[j]>> \notin cancelled
        BY <1>3, <2>2 DEF LoopsInv, ScheduledJobsHaveLoops
      <3>2. tasks'[j] = tasks[j] /\ j \in Jobs
        BY <1>3, <2>2 DEF StartLoops
      <3>3. <<j, tasks[j]>> \in Workers
        BY <3>1, <3>2, RegisteredLoopIsLoop
      <3>4. pc'[<<j, tasks[j]>>] = pc[<<j, tasks[j]>>]
        BY <2>2, <3>3 DEF StartLoops, JobOf
      <3> QED
        BY <3>1, <3>2, <3>4
    <2> QED
      BY <2>1, <2>2
  <1> QED
    BY <1>2, <1>3 DEF LoopsInv, ScheduledJobsHaveLoops

\* Loops are cancelled only together with their jobs or with all the others.
LEMMA CancelLoopsLoops ==
    ASSUME TypeOK, TypeOK', LoopsInv, NEW J \in SUBSET Jobs, CancelLoops(J),
           UNCHANGED <<started, pc>>, jobs' \subseteq jobs,
           running' => running /\ jobs' \cap J = {}
    PROVE  LoopsInv'
  <1>1. NumbersGivenOut'
    <2>1. \A j \in Jobs : tasks'[j] <= started[j]
      BY DEF CancelLoops, TypeOK, LoopsInv, NumbersGivenOut
    <2>2. ASSUME NEW w \in cancelled'
          PROVE  w[2] <= started[JobOf(w)]
      <3>1. CASE w \in cancelled
        BY <3>1 DEF LoopsInv, NumbersGivenOut
      <3>2. CASE w \in Loops /\ w[2] = tasks[JobOf(w)]
        BY <3>2, WorkersAreLoopsAndCalls DEF LoopsInv, NumbersGivenOut
      <3> QED
        BY <3>1, <3>2 DEF CancelLoops
    <2> QED
      BY <2>1, <2>2 DEF NumbersGivenOut
  <1>2. ASSUME running', NEW j \in jobs' \cap Scheduled
        PROVE  /\ tasks'[j] \in 1 .. MaxLoops
               /\ pc'[<<j, tasks'[j]>>] \notin {"free", "ended"}
               /\ <<j, tasks'[j]>> \notin cancelled'
    <2>1. j \in Jobs /\ j \notin J /\ j \in jobs
      BY <1>2 DEF TypeOK
    <2>2. tasks'[j] = tasks[j]
      BY <2>1 DEF CancelLoops
    <2>3. /\ tasks[j] \in 1 .. MaxLoops
          /\ pc[<<j, tasks[j]>>] \notin {"free", "ended"}
          /\ <<j, tasks[j]>> \notin cancelled
      BY <1>2, <2>1 DEF LoopsInv, ScheduledJobsHaveLoops
    <2>4. <<j, tasks[j]>> \notin cancelled'
      BY <2>1, <2>3 DEF CancelLoops, JobOf
    <2> QED
      BY <2>2, <2>3, <2>4
  <1> QED
    BY <1>1, <1>2 DEF LoopsInv, ScheduledJobsHaveLoops

\* A worker moves on; a registered loop ends only once the scheduler stops.
LEMMA GotoLoops ==
    ASSUME TypeOK, TypeOK', LoopsInv, NEW w \in Workers,
           NEW label \in Waits, pc' = [pc EXCEPT ![w] = label],
           label \in {"free", "ended"} =>
             ~running \/ w \in cancelled \/ w \in Calls,
           UNCHANGED <<jobs, running, tasks, started, cancelled>>
    PROVE  LoopsInv'
  <1>1. NumbersGivenOut'
    BY DEF LoopsInv, NumbersGivenOut
  <1>2. ASSUME running, NEW j \in jobs \cap Scheduled
        PROVE  /\ tasks[j] \in 1 .. MaxLoops
               /\ pc'[<<j, tasks[j]>>] \notin {"free", "ended"}
               /\ <<j, tasks[j]>> \notin cancelled
    <2>1. /\ tasks[j] \in 1 .. MaxLoops
          /\ pc[<<j, tasks[j]>>] \notin {"free", "ended"}
          /\ <<j, tasks[j]>> \notin cancelled
      BY <1>2 DEF LoopsInv, ScheduledJobsHaveLoops
    <2>2. j \in Jobs
      BY DEF TypeOK
    <2>3. <<j, tasks[j]>> \in Workers /\ <<j, tasks[j]>> \notin Calls
      BY <2>1, <2>2, RegisteredLoopIsLoop
    <2>4. pc'[<<j, tasks[j]>>] \notin {"free", "ended"}
      BY <1>2, <2>1, <2>3 DEF TypeOK
    <2> QED
      BY <2>1, <2>4
  <1> QED
    BY <1>1, <1>2 DEF LoopsInv, ScheduledJobsHaveLoops

LEMMA NextLoops ==
    ASSUME TypeOK, LoopsInv, [Next]_vars
    PROVE  LoopsInv'
  <1>0. TypeOK'
    BY NextType
  <1>1. CASE Start
    <2>1. jobs \cap Scheduled \in SUBSET Jobs /\ jobs' \subseteq Jobs
      BY <1>1 DEF Start, TypeOK
    <2> QED
      BY <1>0, <1>1, <2>1, StartLoopsLoops DEF Start
  <1>2. CASE Stop
    BY <1>0, <1>2, CancelLoopsLoops DEF Stop
  <1>3. ASSUME NEW j \in Jobs, CreateJob(j)
        PROVE  LoopsInv'
    <2>1. (IF running THEN {j} \cap Scheduled ELSE {}) \in SUBSET Jobs
      OBVIOUS
    <2>2. jobs' = jobs \cup {j} /\ jobs' \subseteq Jobs /\ UNCHANGED running
      BY <1>3 DEF CreateJob, TypeOK
    <2> QED
      BY <1>0, <1>3, <2>1, <2>2, StartLoopsLoops DEF CreateJob
  <1>4. ASSUME NEW j \in Jobs, DeleteJob(j)
        PROVE  LoopsInv'
    BY <1>0, <1>4, CancelLoopsLoops DEF DeleteJob
  <1>5. ASSUME NEW w \in Workers,
               \/ Trigger(w) \/ Wake(w) \/ Skipped(w) \/ ScanReturns(w)
               \/ ScanRaises(w) \/ ScanEnds(w) \/ LoopCancelled(w)
        PROVE  LoopsInv'
    <2>1. UNCHANGED <<jobs, running, tasks, started, cancelled>>
      BY <1>5 DEF Trigger, Wake, Skipped, ScanReturns, ScanRaises, Executed,
                  ScanEnds, LoopCancelled
    <2>2. \E label \in Waits :
             /\ pc' = [pc EXCEPT ![w] = label]
             /\ label \in {"free", "ended"} =>
                  ~running \/ w \in cancelled \/ w \in Calls
      BY <1>5 DEF Trigger, Wake, SkipOrScan, Skipped, GoOn, ScanReturns,
                  ScanRaises, Executed, ScanEnds, LoopCancelled, Goto, Waits
    <2> QED
      BY <1>0, <2>1, <2>2, GotoLoops
  <1>6. CASE UNCHANGED vars
    BY <1>0, <1>6 DEF vars, LoopsInv, NumbersGivenOut, ScheduledJobsHaveLoops
  <1> QED
    BY <1>1, <1>2, <1>3, <1>4, <1>5, <1>6 DEF Next

\* While the scheduler runs, every registered job with a schedule has a loop
\* that is alive, registered and not cancelled, after any sequence of calls.
THEOREM LoopsAreKept == Spec => []ScheduledJobsHaveLoops
  <1>1. LoopsInv => ScheduledJobsHaveLoops
    BY DEF LoopsInv
  <1> QED
    BY <1>1, InitLoops, NextLoops, SchedulerTypeCorrect, PTL DEF Spec

-----------------------------------------------------------------------------
(***************************************************************************)
(* Results.  The scan a registered job's worker awaits is the latest of    *)
(* the job, since executions do not overlap, and no result is of a later.  *)
(***************************************************************************)
ResultsInv ==
    /\ \A j \in Jobs : lastResult[j] <= scans[j]
    /\ \A w \in Workers : pc[w] = "scanning" /\ JobOf(w) \in jobs =>
                             scan[w] = scans[JobOf(w)]
    /\ \A w \in Workers : scan[w] <= scans[JobOf(w)]

LEMMA InitResults == Init => ResultsInv
  BY WorkersAreLoopsAndCalls DEF Init, ResultsInv

LEMMA SkipOrScanResults ==
    ASSUME TypeOK, ResultsInv, OverlapInv, NEW w \in Workers, SkipOrScan(w),
           UNCHANGED <<jobs, lastResult>>, ~Executing(w)
    PROVE  ResultsInv'
  <1>1. CASE Overlap(JobOf(w))
    BY <1>1, WorkersAreLoopsAndCalls DEF SkipOrScan, Goto, ResultsInv, TypeOK
  <1>2. CASE ~Overlap(JobOf(w))
    <2>1. JobOf(w) \in Jobs
      BY WorkersAreLoopsAndCalls
    <2>2. /\ scans' = [scans EXCEPT ![JobOf(w)] = @ + 1]
          /\ scan' = [scan EXCEPT ![w] = scans[JobOf(w)] + 1]
          /\ pc' = [pc EXCEPT ![w] = "scanning"]
      BY <1>2 DEF SkipOrScan, Goto
    <2>3. \A v \in Workers : JobOf(v) = JobOf(w) /\ JobOf(w) \in jobs =>
                                pc[v] # "scanning"
      BY <1>2 DEF Overlap, OverlapInv, FlagIsExact, Executing
    <2>4. \A j \in Jobs : lastResult[j] <= scans'[j]
      BY <2>1, <2>2 DEF ResultsInv, TypeOK
    <2>5. ASSUME NEW v \in Workers
          PROVE  /\ pc'[v] = "scanning" /\ JobOf(v) \in jobs =>
                      scan'[v] = scans'[JobOf(v)]
                 /\ scan'[v] <= scans'[JobOf(v)]
      <3>1. JobOf(v) \in Jobs
        BY WorkersAreLoopsAndCalls
      <3>2. CASE v = w
        BY <2>1, <2>2, <3>2 DEF TypeOK
      <3>3. CASE v # w
        <4>1. scan'[v] = scan[v] /\ pc'[v] = pc[v]
          BY <2>2, <3>3 DEF TypeOK
        <4>2. CASE JobOf(v) = JobOf(w)
          BY <2>1, <2>2, <2>3, <4>1, <4>2 DEF ResultsInv, TypeOK
        <4>3. CASE JobOf(v) # JobOf(w)
          <5>1. scans'[JobOf(v)] = scans[JobOf(v)]
            BY <2>1, <2>2, <3>1, <4>3 DEF TypeOK
          <5> QED
            BY <4>1, <5>1 DEF ResultsInv
        <4> QED
          BY <4>2, <4>3
      <3> QED
        BY <3>2, <3>3
    <2> QED
      BY <2>4, <2>5 DEF ResultsInv
  <1> QED
    BY <1>1, <1>2

\* A worker ends its scan, or waits for something else.
LEMMA NoScanResults ==
    ASSUME TypeOK, ResultsInv, NEW w \in Workers,
           NEW label \in Waits \ {"scanning"},
           pc' = [pc EXCEPT ![w] = label],
           scan' = [scan EXCEPT ![w] = 0] \/ UNCHANGED scan,
           UNCHANGED <<jobs, scans>>,
           \/ UNCHANGED lastResult
           \/ lastResult' = [lastResult EXCEPT ![JobOf(w)] = scan[w]]
    PROVE  ResultsInv'
  <1>1. JobOf(w) \in Jobs
    BY WorkersAreLoopsAndCalls
  <1>2. \A j \in Jobs : lastResult'[j] <= scans[j]
    BY <1>1 DEF ResultsInv, TypeOK
  <1>3. ASSUME NEW v \in Workers
        PROVE  /\ pc'[v] = "scanning" /\ JobOf(v) \in jobs =>
                    scan'[v] = scans[JobOf(v)]
               /\ scan'[v] <= scans[JobOf(v)]
    <2>1. JobOf(v) \in Jobs /\ scans[JobOf(v)] \in Nat
      BY WorkersAreLoopsAndCalls DEF TypeOK
    <2>2. CASE v = w
      <3>1. pc'[v] = label /\ (scan'[v] = 0 \/ scan'[v] = scan[v])
        BY <2>2 DEF TypeOK
      <3> QED
        BY <2>1, <3>1 DEF ResultsInv
    <2>3. CASE v # w
      <3>1. pc'[v] = pc[v] /\ scan'[v] = scan[v]
        BY <2>3 DEF TypeOK
      <3> QED
        BY <3>1 DEF ResultsInv
    <2> QED
      BY <2>2, <2>3
  <1> QED
    BY <1>2, <1>3 DEF ResultsInv

\* Loops start without a scan.
LEMMA StartLoopsResults ==
    ASSUME TypeOK, ResultsInv, UnusedIdsAreIdle, NEW J \in SUBSET Jobs,
           StartLoops(J), UNCHANGED <<lastResult, scans, scan>>,
           jobs' \subseteq jobs \cup (Jobs \ created)
    PROVE  ResultsInv'
  <1>1. ASSUME NEW w \in Workers, pc'[w] = "scanning", JobOf(w) \in jobs'
        PROVE  scan[w] = scans[JobOf(w)]
    <2>1. pc[w] = "scanning"
      BY <1>1 DEF StartLoops
    <2>2. JobOf(w) \in jobs
      BY <1>1, <2>1 DEF UnusedIdsAreIdle
    <2> QED
      BY <2>1, <2>2 DEF ResultsInv
  <1> QED
    BY <1>1 DEF ResultsInv

LEMMA NextResults ==
    ASSUME TypeOK, ResultsInv, OverlapInv, [Next]_vars
    PROVE  ResultsInv'
  <1>1. CASE Start
    <2>1. jobs \cap Scheduled \in SUBSET Jobs
      BY DEF TypeOK
    <2> QED
      BY <1>1, <2>1, StartLoopsResults DEF Start, OverlapInv
  <1>2. ASSUME NEW j \in Jobs, CreateJob(j)
        PROVE  ResultsInv'
    <2>1. /\ (IF running THEN {j} \cap Scheduled ELSE {}) \in SUBSET Jobs
          /\ jobs' \subseteq jobs \cup (Jobs \ created)
      BY <1>2 DEF CreateJob
    <2> QED
      BY <1>2, <2>1, StartLoopsResults DEF CreateJob, OverlapInv
  <1>3. CASE Stop \/ (\E j \in Jobs : DeleteJob(j)) \/ UNCHANGED vars
    BY <1>3 DEF Stop, DeleteJob, vars, ResultsInv
  <1>4. ASSUME NEW w \in Workers, Trigger(w)
        PROVE  ResultsInv'
    BY <1>4, SkipOrScanResults DEF Trigger, Executing
  <1>5. ASSUME NEW w \in Workers, Wake(w)
        PROVE  ResultsInv'
    <2>1. CASE ~running
      BY <1>5, <2>1, NoScanResults DEF Wake, Goto, Waits
    <2>2. CASE running
      BY <1>5, <2>2, SkipOrScanResults DEF Wake, Executing
    <2> QED
      BY <2>1, <2>2
  <1>6. ASSUME NEW w \in Workers,
               \/ Skipped(w) \/ ScanReturns(w) \/ ScanRaises(w)
               \/ ScanEnds(w) \/ LoopCancelled(w)
        PROVE  ResultsInv'
    <2>1. \E label \in Waits \ {"scanning"} : pc' = [pc EXCEPT ![w] = label]
      BY <1>6 DEF Skipped, GoOn, ScanReturns, ScanRaises, Executed, ScanEnds,
                  LoopCancelled, Goto, Waits
    <2>2. /\ UNCHANGED <<jobs, scans>>
          /\ scan' = [scan EXCEPT ![w] = 0] \/ UNCHANGED scan
          /\ \/ UNCHANGED lastResult
             \/ lastResult' = [lastResult EXCEPT ![JobOf(w)] = scan[w]]
      BY <1>6 DEF Skipped, ScanReturns, ScanRaises, Executed, ScanEnds,
                  LoopCancelled
    <2> QED
      BY <2>1, <2>2, NoScanResults
  <1> QED
    BY <1>1, <1>2, <1>3, <1>4, <1>5, <1>6 DEF Next

\* A step replaces the last result of a registered job only by that of the
\* latest scan of it.
LEMMA StepInOrder ==
    ASSUME TypeOK, ResultsInv, [Next]_vars
    PROVE  \A j \in jobs : lastResult'[j] >= lastResult[j]
  <1> SUFFICES ASSUME NEW j \in jobs
               PROVE  lastResult'[j] >= lastResult[j]
    OBVIOUS
  <1>0. j \in Jobs /\ lastResult[j] \in Nat /\ scans[j] \in Nat
    BY DEF TypeOK
  <1>1. CASE UNCHANGED lastResult
    BY <1>0, <1>1
  <1>2. ASSUME NEW w \in Workers, ScanReturns(w) \/ ScanRaises(w)
        PROVE  lastResult'[j] >= lastResult[j]
    <2>1. /\ pc[w] = "scanning"
          /\ lastResult' = [lastResult EXCEPT ![JobOf(w)] = scan[w]]
      BY <1>2 DEF ScanReturns, ScanRaises, Executed
    <2>2. CASE j = JobOf(w)
      <3>1. lastResult'[j] = scans[j]
        BY <1>0, <2>1, <2>2 DEF ResultsInv, TypeOK
      <3> QED
        BY <1>0, <3>1 DEF ResultsInv
    <2>3. CASE j # JobOf(w)
      BY <1>0, <2>1, <2>3 DEF TypeOK
    <2> QED
      BY <2>2, <2>3
  <1>3. \/ UNCHANGED lastResult
        \/ \E w \in Workers : ScanReturns(w) \/ ScanRaises(w)
    BY DEF Next, Start, Stop, CreateJob, DeleteJob, Trigger, Wake, Skipped,
           ScanEnds, LoopCancelled, vars
  <1> QED
    BY <1>1, <1>2, <1>3

\* The last result of a job that exists is never replaced by that of an
\* earlier scan.
THEOREM ResultsFollowScans == Spec => ResultsInOrder
  <1>1. TypeOK /\ ResultsInv /\ [Next]_vars =>
          [\A j \in jobs : lastResult'[j] >= lastResult[j]]_vars
    BY StepInOrder
  <1> QED
    BY <1>1, InitOverlap, InitNewLoops, NextOverlap, NextNewLoops,
       InitResults, NextResults, SchedulerTypeCorrect, PTL
       DEF Spec, ResultsInOrder
=============================================================================
