CONSTANTS
    j1 = j1
    Jobs <- MCJobs
    Scheduled <- MCScheduled
    MaxLoops = 3
    MaxCalls = 2
    MaxScans = 3
SPECIFICATION Spec
INVARIANTS
    ScansNeverOverlap
    ScheduledJobsHaveLoops
PROPERTIES
    ResultsInOrder
    CancelledLoopsEnd
CHECK_DEADLOCK FALSE
