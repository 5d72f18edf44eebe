-------------------------------- MODULE ScanApi --------------------------------
(***************************************************************************)
(* The router /api/scans of app/api/router_scans.py over its two tables.   *)
(*                                                                         *)
(* Every request has a session of its own (app/db/session.py), so that     *)
(* each SELECT sees what is committed by then, and everything a request    *)
(* writes becomes visible in its commit.  Between the statements of a      *)
(* request all other requests may run.                                     *)
(*                                                                         *)
(* The columns a PUT can set are all treated alike and stand in Settings;  *)
(* croniter's verdict on a schedule is a choice of the environment.        *)
(***************************************************************************)
EXTENDS Integers, FiniteSets

CONSTANTS
    Requests,    \* calls of the router's endpoints, each made once
    Settings,    \* columns a PUT may set: name, schedule, subnet, probing
    Values,      \* values of such a column
    Default,     \* the value they are created with
    MaxJobs,     \* bound: jobs created in all
    PageSize     \* page_size of the lists

ASSUME ScanApiAssumption ==
    /\ Default \in Values
    /\ MaxJobs \in Nat
    /\ PageSize \in Nat \ {0}

VARIABLES
    jobs,        \* scan_jobs: the rows, by id
    created,     \* number of ids given; a later id has a later created_at
    entries,     \* scan_history: [job, by, started], the job, the request
                 \* that triggered it, and its place in the job's history
    request,     \* the requests, with what each session has read
    before       \* history: the entries of its job a request found

vars == <<jobs, created, entries, request, before>>

JobIds == 1 .. MaxJobs
Live == DOMAIN jobs
Job == [status : {"scheduled", "running"}, settings : [Settings -> Values]]

Entry == [job : JobIds, by : Requests, started : Nat]
Asks == UNION {[S -> Values] : S \in SUBSET Settings}

\* A request before it arrives.
Fresh == [at |-> "new"]

EntriesOf(j) == {x \in entries : x.job = j}
Answer(r, code) == request' = [request EXCEPT ![r] = [at |-> "answered", code |-> code]]

Init ==
    /\ jobs = <<>>
    /\ created = 0
    /\ entries = {}
    /\ request = [r \in Requests |-> Fresh]
    /\ before = [r \in Requests |-> {}]

-----------------------------------------------------------------------------
(***************************************************************************)
(* The beginning of a request: POST to create, and the SELECT of the job   *)
(* that every other request on one job begins with.                        *)
(***************************************************************************)

\* create_scan_job with a schedule that validate_cron_schedule accepts.
Create(r) ==
    /\ request[r] = Fresh
    /\ created < MaxJobs
    /\ created' = created + 1
    /\ jobs' = [j \in Live \cup {created'} |->
                    IF j \in Live THEN jobs[j]
                    ELSE [status |-> "scheduled",
                          settings |-> [s \in Settings |-> Default]]]
    /\ request' = [request EXCEPT ![r] = [at |-> "committed", op |-> "create",
                                           job |-> created']]
    /\ UNCHANGED <<entries, before>>

\* validate_cron_schedule refuses the schedule of a POST.
CreateRefused(r) ==
    /\ request[r] = Fresh
    /\ Answer(r, 422)
    /\ UNCHANGED <<jobs, created, entries, before>>

NotFound(r, j) ==
    /\ request[r] = Fresh
    /\ j \notin Live
    /\ Answer(r, 404)
    /\ UNCHANGED <<jobs, created, entries, before>>

Get(r, j) ==
    /\ request[r] = Fresh
    /\ j \in Live
    /\ Answer(r, 200)
    /\ UNCHANGED <<jobs, created, entries, before>>

AlreadyRunning(j) == jobs[j].status = "running"

TriggerConflict(r, j) ==
    /\ request[r] = Fresh
    /\ j \in Live
    /\ AlreadyRunning(j)
    /\ Answer(r, 409)
    /\ UNCHANGED <<jobs, created, entries, before>>

SelectForTrigger(r, j) ==
    /\ request[r] = Fresh
    /\ j \in Live
    /\ ~AlreadyRunning(j)
    /\ request' = [request EXCEPT ![r] = [at |-> "selected", op |-> "trigger",
                                           job |-> j]]
    /\ before' = [before EXCEPT ![r] = EntriesOf(j)]
    /\ UNCHANGED <<jobs, created, entries>>

\* PUT: the row as it was read stays in the session.
SelectForUpdate(r, j, ask) ==
    /\ request[r] = Fresh
    /\ j \in Live
    /\ request' = [request EXCEPT ![r] = [at |-> "selected", op |-> "update",
                                           job |-> j, ask |-> ask,
                                           seen |-> jobs[j]]]
    /\ UNCHANGED <<jobs, created, entries, before>>

\* validate_cron_schedule refuses the schedule of a PUT.
UpdateRefused(r) ==
    /\ request[r].at = "selected"
    /\ request[r].op = "update"
    /\ Answer(r, 422)
    /\ UNCHANGED <<jobs, created, entries, before>>

\* DELETE, up to session.delete, which reads the history for its cascade.
SelectForDelete(r, j) ==
    /\ request[r] = Fresh
    /\ j \in Live
    /\ request' = [request EXCEPT ![r] = [at |-> "selected", op |-> "delete",
                                           job |-> j]]
    /\ UNCHANGED <<jobs, created, entries, before>>

-----------------------------------------------------------------------------
(***************************************************************************)
(* The commits.  An UPDATE that finds no row raises (StaleDataError); the  *)
(* session is rolled back.                                                 *)
(***************************************************************************)
Ready(r, op) == request[r].at = "selected" /\ request[r].op = op

Committed(r) == request' = [request EXCEPT ![r] =
                    [at |-> "committed", op |-> @.op, job |-> @.job]]

CommitTrigger(r) ==
    LET j == request[r].job IN
    /\ Ready(r, "trigger")
    /\ j \in Live
    /\ jobs' = [jobs EXCEPT ![j].status = "running"]
    /\ entries' = entries \cup {[job |-> j, by |-> r,
                              started |-> Cardinality(EntriesOf(j)) + 1]}
    /\ Committed(r)
    /\ UNCHANGED <<created, before>>

\* Mutant: a PUT writes the whole row back as it has read and changed it.
WriteWholeRow(row, seen, ask) ==
    [seen EXCEPT !.settings = [s \in Settings |->
        IF s \in DOMAIN ask THEN ask[s] ELSE seen.settings[s]]]

\* The UPDATE names the columns that the request has given a new value.
WriteChanges(row, seen, ask) ==
    [row EXCEPT !.settings = [s \in Settings |->
        IF s \in DOMAIN ask /\ ask[s] # seen.settings[s]
        THEN ask[s] ELSE row.settings[s]]]

CommitUpdate(r) ==
    LET j == request[r].job IN
    /\ Ready(r, "update")
    /\ j \in Live
    /\ jobs' = [jobs EXCEPT ![j] =
                    WriteChanges(jobs[j], request[r].seen, request[r].ask)]
    /\ Committed(r)
    /\ UNCHANGED <<created, entries, before>>

\* The rows of the history go with the job, those the session has read and,
\* by the foreign key, those it has not.  A row that is gone is no error.
CommitDelete(r) ==
    LET j == request[r].job IN
    /\ Ready(r, "delete")
    /\ jobs' = [k \in Live \ {j} |-> jobs[k]]
    /\ entries' = entries \ EntriesOf(j)
    /\ Answer(r, 204)
    /\ UNCHANGED <<created, before>>

\* A statement or the commit raises, for a lost row or a lost connection, or
\* the refresh after the commit does.
Fails(r) ==
    /\ request[r].at # "answered"
    /\ Answer(r, 500)
    /\ UNCHANGED <<jobs, created, entries, before>>

\* refresh() after the commit reads the row again; if it is gone by then the
\* request fails although it has been carried out.
Refresh(r) ==
    /\ request[r].at = "committed"
    /\ Answer(r, IF request[r].job \in Live THEN 200 ELSE 500)
    /\ UNCHANGED <<jobs, created, entries, before>>

-----------------------------------------------------------------------------
(***************************************************************************)
(* The two lists: a count, then a page, which may be of other rows.        *)
(***************************************************************************)

\* Mutant: the last, incomplete page is not counted.
TotalPagesFloor(total) == IF total < PageSize THEN 1 ELSE total \div PageSize

TotalPages(total) ==
    LET pages == (total + PageSize - 1) \div PageSize
    IN  IF pages > 1 THEN pages ELSE 1

\* Of the rows, newest first: OFFSET (page - 1) * page_size LIMIT page_size.
\* A row is named by its place in the order of created_at or started_at.
Page(rows, page) ==
    LET newer(x) == Cardinality({y \in rows : y > x})
    IN  {x \in rows : /\ newer(x) >= (page - 1) * PageSize
                      /\ newer(x) < page * PageSize}

\* The rows a list is about: the jobs, or the history of one job.
JobRows == Live
HistoryRows(j) == {x.started : x \in EntriesOf(j)}

Rows(r) == IF request[r].op = "list" THEN JobRows ELSE HistoryRows(request[r].job)

CountJobs(r, page) ==
    /\ request[r] = Fresh
    /\ request' = [request EXCEPT ![r] = [at |-> "counted", op |-> "list",
                            page |-> page, total |-> Cardinality(JobRows)]]
    /\ UNCHANGED <<jobs, created, entries, before>>

\* The history asks first whether the job exists.
CountHistory(r, j, page) ==
    /\ request[r] = Fresh
    /\ j \in Live
    /\ request' = [request EXCEPT ![r] = [at |-> "counted", op |-> "history",
                            page |-> page, job |-> j,
                            total |-> Cardinality(HistoryRows(j))]]
    /\ UNCHANGED <<jobs, created, entries, before>>

SelectPage(r) ==
    /\ request[r].at = "counted"
    /\ request' = [request EXCEPT ![r] =
                    [at |-> "answered", code |-> 200,
                     total |-> request[r].total,
                     totalPages |-> TotalPages(request[r].total),
                     items |-> Page(Rows(r), request[r].page)]]
    /\ UNCHANGED <<jobs, created, entries, before>>

-----------------------------------------------------------------------------
Pages == 1 .. MaxJobs

RequestSteps(r) ==
    \/ Create(r) \/ CreateRefused(r)
    \/ \E j \in JobIds :
        \/ NotFound(r, j) \/ Get(r, j)
        \/ TriggerConflict(r, j) \/ SelectForTrigger(r, j)
        \/ \E ask \in Asks : SelectForUpdate(r, j, ask)
        \/ SelectForDelete(r, j)
        \/ \E page \in Pages : CountHistory(r, j, page)
    \/ UpdateRefused(r)
    \/ CommitTrigger(r) \/ CommitUpdate(r) \/ CommitDelete(r)
    \/ Fails(r) \/ Refresh(r)
    \/ \E page \in Pages : CountJobs(r, page)
    \/ SelectPage(r)

Next == \E r \in Requests : RequestSteps(r)

Spec == Init /\ [][Next]_vars

-----------------------------------------------------------------------------
(***************************************************************************)
(* Properties.                                                             *)
(***************************************************************************)
TypeOK ==
    /\ created \in 0 .. MaxJobs
    /\ Live \subseteq 1 .. created
    /\ \A j \in Live : jobs[j] \in Job
    /\ entries \subseteq Entry
    /\ IsFiniteSet(entries)
    /\ before \in [Requests -> SUBSET Entry]

\* The two tables agree, whatever requests overlap: a job is running if and
\* only if a trigger has left an entry in its history, an update of the job
\* that has read it before the trigger does not put the old status back, and
\* no entry outlives its job.  So a trigger that reads the job after another
\* one has been committed is refused: several entries of one job come only
\* from triggers that overlapped (trigger_manual_scan, update_scan_job).
RunningHasHistory ==
    /\ TypeOK
    /\ \A j \in Live : jobs[j].status = "running" <=> EntriesOf(j) # {}
    /\ \A x \in entries : x.job \in Live
    /\ \A x \in entries : before[x.by] = {}

\* Whoever fetches the pages 1 .. total_pages of a table that does not change
\* meanwhile sees every row, each on one page, and no page in vain.
PagesShowEverything ==
    \A rows \in {JobRows} \cup {HistoryRows(j) : j \in Live} :
        LET last == TotalPages(Cardinality(rows)) IN
        /\ \A x \in rows : Cardinality({p \in 1 .. last : x \in Page(rows, p)}) = 1
        /\ rows # {} => Page(rows, last) # {}
=============================================================================
