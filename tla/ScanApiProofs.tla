----------------------------- MODULE ScanApiProofs -----------------------------
(***************************************************************************)
(* Theorems about module ScanApi, for any requests, settings and values,   *)
(* any number of jobs and any page size: status and history of the jobs    *)
(* agree, and the pages of a table show every row once.                    *)
(***************************************************************************)
EXTENDS ScanApi, FiniteSetTheorems, WellFoundedInduction, TLAPS

(***************************************************************************)
(* What the invariant needs to know besides: an update has asked for       *)
(* values there are, and no trigger has found an entry of its job, since   *)
(* it has found the job not running.                                       *)
(***************************************************************************)
RequestsOK ==
    /\ request = [r \in Requests |-> request[r]]
    /\ \A r \in Requests :
          Ready(r, "update") =>
              request[r].ask \in Asks /\ request[r].seen \in Job
    /\ \A r \in Requests : before[r] = {}

TablesInv == RunningHasHistory /\ RequestsOK

\* An answer, or any other state but that of an update, changes nothing.
LEMMA RequestMoves ==
    ASSUME TablesInv, NEW r \in Requests, NEW state,
           request' = [request EXCEPT ![r] = state],
           ~(state.at = "selected" /\ state.op = "update"),
           UNCHANGED before
    PROVE  RequestsOK'
  <1>1. /\ request' = [s \in Requests |-> request'[s]]
        /\ request'[r] = state
        /\ \A s \in Requests \ {r} : request'[s] = request[s]
    BY DEF TablesInv, RequestsOK
  <1>2. \A s \in Requests : Ready(s, "update")' => s # r /\ Ready(s, "update")
    BY <1>1 DEF Ready
  <1> QED
    BY <1>1, <1>2 DEF TablesInv, RequestsOK

LEMMA SameTables ==
    ASSUME RunningHasHistory, UNCHANGED <<jobs, created, entries, before>>
    PROVE  RunningHasHistory'
  BY DEF RunningHasHistory, TypeOK, Live, EntriesOf

\* The requests that read, are refused or fail.
LEMMA Reads ==
    ASSUME TablesInv, NEW r \in Requests,
           \/ CreateRefused(r) \/ UpdateRefused(r) \/ Fails(r) \/ Refresh(r)
           \/ \E page \in Pages : CountJobs(r, page)
           \/ SelectPage(r)
           \/ \E j \in JobIds : NotFound(r, j) \/ Get(r, j) \/ TriggerConflict(r, j)
           \/ \E j \in JobIds : SelectForDelete(r, j)
           \/ \E j \in JobIds, page \in Pages : CountHistory(r, j, page)
    PROVE  TablesInv'
  <1>1. UNCHANGED <<jobs, created, entries, before>>
    BY DEF CreateRefused, UpdateRefused, Fails, Refresh, CountJobs, SelectPage,
           NotFound, Get, TriggerConflict, SelectForDelete, CountHistory
  <1>2. ASSUME NEW code, Answer(r, code)
        PROVE  RequestsOK'
    BY <1>1, <1>2, RequestMoves DEF Answer
  <1>3. CASE CreateRefused(r) \/ UpdateRefused(r) \/ Fails(r) \/ Refresh(r)
    BY <1>1, <1>2, <1>3, SameTables
    DEF CreateRefused, UpdateRefused, Fails, Refresh, TablesInv
  <1>4. CASE \E j \in JobIds : NotFound(r, j) \/ Get(r, j) \/ TriggerConflict(r, j)
    BY <1>1, <1>2, <1>4, SameTables DEF NotFound, Get, TriggerConflict, TablesInv
  <1>5. CASE \E page \in Pages : CountJobs(r, page)
    BY <1>1, <1>5, RequestMoves, SameTables DEF CountJobs, TablesInv
  <1>6. CASE SelectPage(r)
    BY <1>1, <1>6, RequestMoves, SameTables DEF SelectPage, TablesInv
  <1>7. CASE \E j \in JobIds : SelectForDelete(r, j)
    BY <1>1, <1>7, RequestMoves, SameTables DEF SelectForDelete, TablesInv
  <1>8. CASE \E j \in JobIds, page \in Pages : CountHistory(r, j, page)
    BY <1>1, <1>8, RequestMoves, SameTables DEF CountHistory, TablesInv
  <1> QED
    BY <1>3, <1>4, <1>5, <1>6, <1>7, <1>8

LEMMA Creation ==
    ASSUME TablesInv, NEW r \in Requests, Create(r), ScanApiAssumption
    PROVE  TablesInv'
  <1> DEFINE row == [status |-> "scheduled",
                     settings |-> [s \in Settings |-> Default]]
  <1>1. row \in Job
    BY DEF Job, ScanApiAssumption
  <1>2. /\ created \in Nat /\ MaxJobs \in Nat
        /\ created' = created + 1
        /\ created + 1 \in 1 .. MaxJobs
        /\ created + 1 \notin Live
        /\ Live \subseteq 1 .. created
    BY DEF Create, TablesInv, RunningHasHistory, TypeOK, ScanApiAssumption
  <1>3. /\ Live' = Live \cup {created + 1}
        /\ \A j \in Live : jobs'[j] = jobs[j]
        /\ jobs'[created + 1] = row
    BY <1>2 DEF Create, Live
  <1>4. \A j : EntriesOf(j)' = EntriesOf(j)
    BY DEF Create, EntriesOf
  <1>5. EntriesOf(created + 1) = {}
    BY <1>2 DEF TablesInv, RunningHasHistory, EntriesOf
  <1>6. TypeOK'
    <2>1. created' \in 0 .. MaxJobs /\ Live' \subseteq 1 .. created'
      BY <1>2, <1>3 DEF Create
    <2>2. \A j \in Live' : jobs'[j] \in Job
      BY <1>1, <1>3 DEF TablesInv, RunningHasHistory, TypeOK
    <2> QED
      BY <2>1, <2>2 DEF TablesInv, RunningHasHistory, TypeOK, Create
  <1>7. \A j \in Live' : jobs'[j].status = "running" <=> EntriesOf(j)' # {}
    BY <1>3, <1>4, <1>5 DEF TablesInv, RunningHasHistory
  <1>8. RunningHasHistory'
    BY <1>3, <1>6, <1>7 DEF TablesInv, RunningHasHistory, Create
  <1>9. RequestsOK'
    BY RequestMoves DEF Create
  <1> QED
    BY <1>8, <1>9 DEF TablesInv

\* A trigger that goes on has found its job not running, so without entries.
LEMMA TriggerSelects ==
    ASSUME TablesInv, NEW r \in Requests, NEW j \in JobIds, SelectForTrigger(r, j)
    PROVE  TablesInv'
  <1>1. EntriesOf(j) = {}
    BY DEF TablesInv, RunningHasHistory, SelectForTrigger, AlreadyRunning
  <1>2. before' = before
    BY <1>1 DEF TablesInv, RequestsOK, RunningHasHistory, TypeOK, SelectForTrigger
  <1> QED
    BY <1>2, RequestMoves, SameTables DEF SelectForTrigger, TablesInv

LEMMA UpdateSelects ==
    ASSUME TablesInv, NEW r \in Requests, NEW j \in JobIds, NEW ask \in Asks,
           SelectForUpdate(r, j, ask)
    PROVE  TablesInv'
  <1>1. RunningHasHistory'
    BY SameTables DEF SelectForUpdate, TablesInv
  <1>2. /\ request' = [s \in Requests |-> request'[s]]
        /\ request'[r] = [at |-> "selected", op |-> "update", job |-> j,
                          ask |-> ask, seen |-> jobs[j]]
        /\ \A s \in Requests \ {r} : request'[s] = request[s]
    BY DEF SelectForUpdate, TablesInv, RequestsOK
  <1>3. jobs[j] \in Job
    BY DEF SelectForUpdate, TablesInv, RunningHasHistory, TypeOK
  <1>4. \A s \in Requests : Ready(s, "update")' =>
            request'[s].ask \in Asks /\ request'[s].seen \in Job
    BY <1>2, <1>3 DEF TablesInv, RequestsOK, Ready
  <1> QED
    BY <1>1, <1>2, <1>4 DEF TablesInv, RequestsOK, SelectForUpdate

LEMMA TriggerCommits ==
    ASSUME TablesInv, NEW r \in Requests, CommitTrigger(r), ScanApiAssumption
    PROVE  TablesInv'
  <1>0. PICK j : j = request[r].job
    OBVIOUS
  <1> DEFINE entry == [job |-> j, by |-> r,
                       started |-> Cardinality(EntriesOf(j)) + 1]
  <1>1. /\ j \in Live /\ j \in JobIds
        /\ jobs' = [jobs EXCEPT ![j].status = "running"]
        /\ entries' = entries \cup {entry}
        /\ UNCHANGED <<created, before>>
    BY <1>0 DEF CommitTrigger, TablesInv, RunningHasHistory, TypeOK, JobIds,
                ScanApiAssumption
  <1>2. /\ Live' = Live
        /\ jobs'[j].status = "running"
        /\ jobs'[j] = [jobs[j] EXCEPT !.status = "running"]
        /\ \A k \in Live \ {j} : jobs'[k] = jobs[k]
    <2>1. jobs[j] \in Job
      BY <1>1 DEF TablesInv, RunningHasHistory, TypeOK
    <2> QED
      BY <1>1, <2>1 DEF Live, Job
  <1>3. IsFiniteSet(EntriesOf(j)) /\ Cardinality(EntriesOf(j)) \in Nat
    BY FS_Subset, FS_CardinalityType DEF EntriesOf, TablesInv, RunningHasHistory, TypeOK
  <1>4. entry \in Entry
    BY <1>1, <1>3 DEF Entry
  <1>5. TypeOK'
    <2>1. \A k \in Live' : jobs'[k] \in Job
      BY <1>1, <1>2 DEF TablesInv, RunningHasHistory, TypeOK, Job
    <2>2. IsFiniteSet(entries')
      BY <1>1, FS_AddElement DEF TablesInv, RunningHasHistory, TypeOK
    <2> QED
      BY <1>1, <1>2, <1>4, <2>1, <2>2 DEF TablesInv, RunningHasHistory, TypeOK
  <1>6. /\ EntriesOf(j)' # {}
        /\ \A k \in Live \ {j} : EntriesOf(k)' = EntriesOf(k)
    <2>1. entry.job = j
      OBVIOUS
    <2> HIDE DEF entry
    <2> QED
      BY <1>1, <2>1 DEF EntriesOf
  <1>7. RunningHasHistory'
    <2>1. \A x \in entries' : x.job \in Live'
      BY <1>1, <1>2 DEF TablesInv, RunningHasHistory
    <2>2. \A x \in entries' : before'[x.by] = {}
      BY <1>1 DEF TablesInv, RunningHasHistory, RequestsOK
    <2>3. \A k \in Live' : jobs'[k].status = "running" <=> EntriesOf(k)' # {}
      BY <1>2, <1>6 DEF TablesInv, RunningHasHistory
    <2> QED
      BY <1>5, <2>1, <2>2, <2>3 DEF RunningHasHistory
  <1>8. RequestsOK'
    BY RequestMoves DEF CommitTrigger, Committed
  <1> QED
    BY <1>7, <1>8 DEF TablesInv

\* An update writes values only, and none that is no value.
LEMMA WrittenRow ==
    ASSUME NEW row \in Job, NEW seen \in Job, NEW ask \in Asks
    PROVE  /\ WriteChanges(row, seen, ask) \in Job
           /\ WriteChanges(row, seen, ask).status = row.status
  <1>1. PICK S \in SUBSET Settings : ask \in [S -> Values]
    BY DEF Asks
  <1>2. \A s \in DOMAIN ask : ask[s] \in Values
    BY <1>1
  <1> QED
    BY <1>2 DEF WriteChanges, Job

LEMMA UpdateCommits ==
    ASSUME TablesInv, NEW r \in Requests, CommitUpdate(r)
    PROVE  TablesInv'
  <1>0. PICK j : j = request[r].job
    OBVIOUS
  <1> DEFINE row == WriteChanges(jobs[j], request[r].seen, request[r].ask)
  <1>1. /\ j \in Live
        /\ jobs' = [jobs EXCEPT ![j] = row]
        /\ UNCHANGED <<created, entries, before>>
    BY <1>0 DEF CommitUpdate
  <1>2. row \in Job /\ row.status = jobs[j].status
    BY <1>1, WrittenRow
    DEF CommitUpdate, TablesInv, RequestsOK, RunningHasHistory, TypeOK
  <1>3. /\ Live' = Live
        /\ jobs'[j] = row
        /\ \A k \in Live \ {j} : jobs'[k] = jobs[k]
    BY <1>1 DEF Live
  <1>4. \A k : EntriesOf(k)' = EntriesOf(k)
    BY <1>1 DEF EntriesOf
  <1>5. TypeOK'
    BY <1>1, <1>2, <1>3 DEF TablesInv, RunningHasHistory, TypeOK
  <1>6. RunningHasHistory'
    BY <1>1, <1>2, <1>3, <1>4, <1>5 DEF TablesInv, RunningHasHistory
  <1>7. RequestsOK'
    BY RequestMoves DEF CommitUpdate, Committed
  <1> QED
    BY <1>6, <1>7 DEF TablesInv

LEMMA DeletionCommits ==
    ASSUME TablesInv, NEW r \in Requests, CommitDelete(r)
    PROVE  TablesInv'
  <1>0. PICK j : j = request[r].job
    OBVIOUS
  <1>1. /\ jobs' = [k \in Live \ {j} |-> jobs[k]]
        /\ entries' = entries \ EntriesOf(j)
        /\ UNCHANGED <<created, before>>
    BY <1>0 DEF CommitDelete
  <1>2. /\ Live' = Live \ {j}
        /\ \A k \in Live' : jobs'[k] = jobs[k]
    BY <1>1 DEF Live
  <1>3. \A k \in Live' : EntriesOf(k)' = EntriesOf(k)
    BY <1>1, <1>2 DEF EntriesOf
  <1>4. \A x \in entries' : x \in entries /\ x.job \in Live'
    BY <1>1, <1>2 DEF EntriesOf, TablesInv, RunningHasHistory
  <1>5. IsFiniteSet(entries')
    BY <1>1, FS_Subset DEF TablesInv, RunningHasHistory, TypeOK
  <1>6. TypeOK'
    BY <1>1, <1>2, <1>4, <1>5 DEF TablesInv, RunningHasHistory, TypeOK
  <1>7. RunningHasHistory'
    BY <1>1, <1>2, <1>3, <1>4, <1>6 DEF TablesInv, RunningHasHistory
  <1>8. RequestsOK'
    BY RequestMoves DEF CommitDelete, Answer
  <1> QED
    BY <1>7, <1>8 DEF TablesInv

-----------------------------------------------------------------------------
LEMMA TablesInit ==
    ASSUME Init, ScanApiAssumption
    PROVE  TablesInv
  <1>1. Live = {}
    BY DEF Init, Live
  <1>2. TypeOK
    BY <1>1, FS_EmptySet DEF Init, TypeOK, ScanApiAssumption
  <1> QED
    BY <1>1, <1>2 DEF Init, TablesInv, RunningHasHistory, RequestsOK, Ready, Fresh

LEMMA TablesNext ==
    ASSUME TablesInv, [Next]_vars, ScanApiAssumption
    PROVE  TablesInv'
  <1>1. CASE UNCHANGED vars
    BY <1>1, SameTables DEF vars, TablesInv, RequestsOK, Ready
  <1>2. ASSUME NEW r \in Requests, RequestSteps(r)
        PROVE  TablesInv'
    BY <1>2, Reads, Creation, TriggerSelects, UpdateSelects, TriggerCommits,
       UpdateCommits, DeletionCommits DEF RequestSteps
  <1> QED
    BY <1>1, <1>2 DEF Next

\* Whatever requests overlap, a job is running if and only if its history has
\* an entry, and all entries of one job come from triggers that overlapped
\* (trigger_manual_scan, update_scan_job, delete_scan_job).
THEOREM HistoryFollowsStatus == Spec => []RunningHasHistory
  <1>1. Init => TablesInv
    BY TablesInit, ScanApiAssumption
  <1>2. TablesInv /\ [Next]_vars => TablesInv'
    BY TablesNext, ScanApiAssumption
  <1>3. TablesInv => RunningHasHistory
    BY DEF TablesInv
  <1> QED
    BY <1>1, <1>2, <1>3, PTL DEF Spec

-----------------------------------------------------------------------------
(***************************************************************************)
(* The pages, for any table whose rows are named by natural numbers.       *)
(***************************************************************************)
LEMMA LeastRow ==
    ASSUME NEW rows \in SUBSET Nat, rows # {}
    PROVE  \E x \in rows : \A y \in rows : x <= y
  <1>1. PICK x \in rows : \A y \in rows : ~(<<y, x>> \in OpToRel(<, Nat))
    BY NatLessThanWellFounded, WFMin
  <1>2. \A y \in rows : ~(y < x)
    BY <1>1 DEF OpToRel
  <1> QED
    BY <1>2

LEMMA TimesGrows ==
    ASSUME NEW m \in Int, NEW n \in Int, NEW k \in Nat, m <= n
    PROVE  m * k \in Int /\ n * k \in Int /\ m * k <= n * k
  OBVIOUS

LEMMA Quotient ==
    ASSUME NEW n \in Nat, NEW k \in Nat \ {0}
    PROVE  /\ n \div k \in Nat
           /\ (n \div k) * k <= n
           /\ n < (n \div k) * k + k
  OBVIOUS

\* The last of total_pages holds the last of the rows, if there are any.
LEMMA LastPage ==
    ASSUME NEW total \in Nat \ {0}
    PROVE  /\ TotalPages(total) \in Nat \ {0}
           /\ (TotalPages(total) - 1) * PageSize <= total - 1
           /\ total - 1 < TotalPages(total) * PageSize
  <1> DEFINE n == total + PageSize - 1
             last == n \div PageSize
  <1>1. PageSize \in Nat \ {0} /\ n \in Nat
    BY ScanApiAssumption
  <1>2. last \in Nat /\ last * PageSize <= n /\ n < last * PageSize + PageSize
    BY <1>1, Quotient
  <1>3. last # 0
    BY <1>1, <1>2
  <1>4. TotalPages(total) = last
    BY <1>2, <1>3 DEF TotalPages
  <1>5. (last - 1) * PageSize = last * PageSize - PageSize
    BY <1>1, <1>2
  <1> QED
    BY <1>1, <1>2, <1>3, <1>4, <1>5

\* The rows above one of the rows are fewer than there are rows.
LEMMA NewerRows ==
    ASSUME NEW rows \in SUBSET Nat, IsFiniteSet(rows), NEW x \in rows
    PROVE  /\ Cardinality(rows) \in Nat \ {0}
           /\ Cardinality({y \in rows : y > x}) \in Nat
           /\ Cardinality({y \in rows : y > x}) <= Cardinality(rows) - 1
           /\ (\A y \in rows : x <= y) =>
                 Cardinality({y \in rows : y > x}) = Cardinality(rows) - 1
  <1> DEFINE newer == {y \in rows : y > x}
             others == rows \ {x}
  <1>1. /\ IsFiniteSet(others) /\ Cardinality(others) = Cardinality(rows) - 1
        /\ Cardinality(rows) \in Nat /\ Cardinality(others) \in Nat
    BY FS_RemoveElement, FS_CardinalityType
  <1>2. newer \subseteq others
    OBVIOUS
  <1>3. ASSUME \A y \in rows : x <= y
        PROVE  newer = others
    <2>1. \A y \in rows : y > x <=> y # x
      BY <1>3
    <2> QED
      BY <2>1
  <1> HIDE DEF newer, others
  <1>4. IsFiniteSet(newer) /\ Cardinality(newer) <= Cardinality(others)
    BY <1>1, <1>2, FS_Subset
  <1>5. Cardinality(newer) \in Nat
    BY <1>4, FS_CardinalityType
  <1>6. /\ Cardinality(rows) \in Nat \ {0} /\ Cardinality(newer) \in Nat
        /\ Cardinality(newer) <= Cardinality(rows) - 1
        /\ (\A y \in rows : x <= y) =>
              Cardinality(newer) = Cardinality(rows) - 1
    BY <1>1, <1>3, <1>4, <1>5
  <1> QED
    BY <1>6 DEF newer

\* Each row is on one page.
LEMMA RowOnOnePage ==
    ASSUME NEW rows \in SUBSET Nat, IsFiniteSet(rows), NEW x \in rows
    PROVE  Cardinality({p \in 1 .. TotalPages(Cardinality(rows)) :
                          x \in Page(rows, p)}) = 1
  <1> DEFINE total == Cardinality(rows)
             newer == Cardinality({y \in rows : y > x})
             last == TotalPages(total)
             page == (newer \div PageSize) + 1
  <1>1. /\ total \in Nat \ {0} /\ newer \in Nat /\ newer <= total - 1
        /\ PageSize \in Nat \ {0}
    BY NewerRows, ScanApiAssumption
  <1>2. /\ last \in Nat \ {0} /\ total - 1 < last * PageSize
    BY <1>1, LastPage
  <1>3. \A p \in Nat : x \in Page(rows, p) <=>
           /\ newer >= (p - 1) * PageSize
           /\ newer < p * PageSize
    BY DEF Page
  <1>4. /\ page \in Nat \ {0} /\ page - 1 \in Nat
        /\ (page - 1) * PageSize <= newer /\ newer < page * PageSize
    <2>1. /\ newer \div PageSize \in Nat
          /\ (newer \div PageSize) * PageSize <= newer
          /\ newer < (newer \div PageSize) * PageSize + PageSize
      BY <1>1, Quotient
    <2> DEFINE quotient == newer \div PageSize
    <2>2. quotient \in Nat /\ page = quotient + 1
      BY <2>1
    <2> HIDE DEF newer, quotient
    <2>3. (quotient + 1) * PageSize = quotient * PageSize + PageSize
      BY <1>1, <2>2
    <2> HIDE DEF page
    <2> QED
      BY <1>1, <2>1, <2>2, <2>3 DEF quotient
  <1> HIDE DEF newer, last, total, page
  <1>5. ASSUME NEW p \in Nat, NEW q \in Nat, p < q,
               newer < p * PageSize, (q - 1) * PageSize <= newer
        PROVE  FALSE
    <2>1. p * PageSize <= (q - 1) * PageSize /\ p * PageSize \in Int
          /\ (q - 1) * PageSize \in Int
      BY <1>1, <1>5, TimesGrows
    <2> QED
      BY <1>1, <1>5, <2>1
  <1>6. page <= last
    <2>1. CASE last < page
      BY <1>1, <1>2, <1>4, <2>1, TimesGrows
    <2> QED
      BY <1>2, <1>4, <2>1
  <1>7. {p \in 1 .. last : x \in Page(rows, p)} = {page}
    <2>1. page \in 1 .. last /\ x \in Page(rows, page)
      BY <1>2, <1>3, <1>4, <1>6
    <2>2. ASSUME NEW p \in 1 .. last, x \in Page(rows, p)
          PROVE  p = page
      <3>1. p \in Nat /\ (p - 1) * PageSize <= newer /\ newer < p * PageSize
        BY <1>2, <1>3, <2>2
      <3>2. ~(p < page) /\ ~(page < p)
        BY <1>4, <1>5, <3>1
      <3> QED
        BY <1>4, <3>1, <3>2
    <2> QED
      BY <2>1, <2>2
  <1>8. Cardinality({page}) = 1
    BY FS_Singleton
  <1> QED
    BY <1>7, <1>8 DEF last, total

\* The last page has a row, the oldest.
LEMMA NoPageInVain ==
    ASSUME NEW rows \in SUBSET Nat, IsFiniteSet(rows), rows # {}
    PROVE  Page(rows, TotalPages(Cardinality(rows))) # {}
  <1> DEFINE total == Cardinality(rows)
             last == TotalPages(total)
  <1>1. PICK x \in rows : \A y \in rows : x <= y
    BY LeastRow
  <1>2. /\ total \in Nat \ {0}
        /\ Cardinality({y \in rows : y > x}) = total - 1
    BY <1>1, NewerRows
  <1>3. /\ (last - 1) * PageSize <= total - 1
        /\ total - 1 < last * PageSize
    BY <1>2, LastPage
  <1> HIDE DEF total, last
  <1>4. x \in Page(rows, last)
    <2>1. total - 1 >= (last - 1) * PageSize
      BY <1>3
    <2> QED
      BY <1>2, <1>3, <2>1 DEF Page
  <1> QED
    BY <1>4 DEF last, total

LEMMA JobRowsFinite == TypeOK => JobRows \in SUBSET Nat /\ IsFiniteSet(JobRows)
  <1> SUFFICES ASSUME TypeOK
               PROVE  JobRows \in SUBSET Nat /\ IsFiniteSet(JobRows)
    OBVIOUS
  <1>1. created \in Nat /\ JobRows \subseteq 1 .. created
    BY ScanApiAssumption DEF TypeOK, JobRows
  <1>2. IsFiniteSet(1 .. created)
    BY <1>1, FS_Interval
  <1>3. JobRows \in SUBSET Nat
    BY <1>1
  <1>4. IsFiniteSet(JobRows)
    BY <1>1, <1>2, FS_Subset
  <1> QED
    BY <1>3, <1>4

LEMMA HistoryRowsFinite ==
    ASSUME TypeOK, NEW j
    PROVE  HistoryRows(j) \in SUBSET Nat /\ IsFiniteSet(HistoryRows(j))
  <1> DEFINE started == [x \in EntriesOf(j) |-> x.started]
  <1>1. IsFiniteSet(EntriesOf(j))
    BY FS_Subset DEF TypeOK, EntriesOf
  <1>2. HistoryRows(j) \in SUBSET Nat
    BY DEF TypeOK, HistoryRows, EntriesOf, Entry
  <1>3. started \in Surjection(EntriesOf(j), HistoryRows(j))
    BY DEF HistoryRows, Surjection
  <1> HIDE DEF started
  <1>4. IsFiniteSet(HistoryRows(j))
    BY <1>1, <1>3, FS_Surjection
  <1> QED
    BY <1>2, <1>4

\* Whoever fetches all pages of the jobs or of a job's history sees every row
\* on one page, for any page size: total_pages rounds up, and OFFSET and LIMIT
\* of the pages neither overlap nor leave a row out.
THEOREM PagesComplete == Spec => []PagesShowEverything
  <1>1. TypeOK => PagesShowEverything
    <2> SUFFICES ASSUME TypeOK,
                        NEW rows \in {JobRows} \cup {HistoryRows(j) : j \in Live}
                 PROVE  LET last == TotalPages(Cardinality(rows)) IN
                        /\ \A x \in rows :
                              Cardinality({p \in 1 .. last :
                                             x \in Page(rows, p)}) = 1
                        /\ rows # {} => Page(rows, last) # {}
      BY DEF PagesShowEverything
    <2>1. rows \in SUBSET Nat /\ IsFiniteSet(rows)
      BY JobRowsFinite, HistoryRowsFinite
    <2> QED
      BY <2>1, RowOnOnePage, NoPageInVain
  <1> QED
    BY <1>1, HistoryFollowsStatus, PTL DEF RunningHasHistory
=============================================================================
