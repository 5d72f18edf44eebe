------------------------------ MODULE ActiveProber -----------------------------
(***************************************************************************)
(* ActiveProber of app/capture/prober.py: batches of probes that share one *)
(* asyncio.Semaphore, each probe with its attempts, their time limit, and  *)
(* the two callbacks it awaits while it holds its slot.                    *)
(*                                                                         *)
(* A batch is cancelled when the task that awaits it is, as the scheduler  *)
(* does with the loop of a deleted job: gather() cancels every probe, and  *)
(* ends when all of them have.                                             *)
(***************************************************************************)
EXTENDS Integers, Sequences, FiniteSets

CONSTANTS
    Batches,        \* calls of probe_batch
    Size,           \* number of targets of each
    MAX_CONCURRENT, \* slots of the semaphore
    MAX_RETRIES     \* attempts after the first

ASSUME ProberAssumption ==
    /\ IsFiniteSet(Batches)
    /\ Size \in [Batches -> Nat \ {0}]
    /\ MAX_CONCURRENT \in Nat \ {0}
    /\ MAX_RETRIES \in Nat

VARIABLES
    batch,      \* where each call of probe_batch is
    pc,         \* what each probe awaits
    attempt,    \* number of retries each probe has made
    outcome,    \* what its attempt has come to, so far
    result,     \* status of its ProbeResult
    cancelled,  \* probes that have CancelledError to come, or got it
    free,       \* _value of the semaphore
    queue,      \* waiters of the semaphore that have no slot yet
    delivered,  \* history: calls of on_result for each probe
    recorded    \* history: entries of each probe in the scan history

semaphore == <<free, queue>>
records == <<result, delivered, recorded>>
vars == <<batch, pc, attempt, outcome, cancelled, semaphore, records>>

Probes == UNION {{<<b, i>> : i \in 1 .. Size[b]} : b \in Batches}
ProbesOf(b) == {p \in Probes : p[1] = b}

Failures == {"error", "timeout"}
Outcomes == Failures \cup {"none", "identity", "nothing", "cancelled"}
Results == {"none", "identified", "no_identity", "timeout", "error"}
Awaits == {"none", "created", "waiting", "granted", "probing", "closing",
           "answered", "delivering", "recording", "done"}
\* A probe has a slot from the moment the semaphore gives it one.
InSlot == {"granted", "probing", "closing", "answered", "delivering",
           "recording"}
Holders == {p \in Probes : pc[p] \in InSlot}

Init ==
    /\ batch = [b \in Batches |-> "none"]
    /\ pc = [p \in Probes |-> "none"]
    /\ attempt = [p \in Probes |-> 0]
    /\ outcome = [p \in Probes |-> "none"]
    /\ result = [p \in Probes |-> "none"]
    /\ cancelled = {}
    /\ free = MAX_CONCURRENT
    /\ queue = <<>>
    /\ delivered = [p \in Probes |-> 0]
    /\ recorded = [p \in Probes |-> 0]

MoveTo(p, state) == [pc EXCEPT ![p] = state]
Least(m, n) == IF m <= n THEN m ELSE n
SetOutcome(p, value) == outcome' = [outcome EXCEPT ![p] = value]

-----------------------------------------------------------------------------
(***************************************************************************)
(* The semaphore: a slot that becomes free goes to the first waiter, which *)
(* runs later.  A newcomer waits behind those that have not run yet.       *)
(***************************************************************************)
Wake(moved, value) ==
    \/ /\ value > 0 /\ queue # <<>>
       /\ pc' = [moved EXCEPT ![Head(queue)] = "granted"]
       /\ queue' = Tail(queue)
       /\ free' = value - 1
    \/ /\ value = 0 \/ queue = <<>>
       /\ pc' = moved
       /\ free' = value
       /\ UNCHANGED queue

Locked == free = 0 \/ queue # <<>> \/ \E p \in Probes : pc[p] = "granted"

\* Mutant: acquire() and release() around the probe, without a finally.
LeaveOnReturn(p) ==
    /\ IF p \in cancelled
       THEN pc' = MoveTo(p, "done") /\ UNCHANGED semaphore
       ELSE Wake(MoveTo(p, "done"), free + 1)
    /\ SetOutcome(p, "none")
    /\ cancelled' = cancelled \ {p}

\* The block under the semaphore ends, in whichever way.
Leave(p) ==
    /\ Wake(MoveTo(p, "done"), free + 1)
    /\ SetOutcome(p, "none")
    /\ cancelled' = cancelled \ {p}

-----------------------------------------------------------------------------
(***************************************************************************)
(* probe_batch.                                                            *)
(***************************************************************************)
CallBatch(b) ==
    /\ batch[b] = "none"
    /\ batch' = [batch EXCEPT ![b] = "called"]
    /\ pc' = [p \in Probes |-> IF p \in ProbesOf(b) THEN "created" ELSE pc[p]]
    /\ UNCHANGED <<attempt, outcome, cancelled, semaphore, records>>

\* The tasks of a batch start one after the other, with nothing in between:
\* those that find a slot go on, the others wait for one.
StartProbes(b) ==
    /\ batch[b] = "called"
    /\ batch' = [batch EXCEPT ![b] = "running"]
    /\ LET n == IF Locked THEN 0 ELSE Least(free, Size[b])
           waiters == [i \in 1 .. Size[b] - n |-> <<b, n + i>>]
       IN  /\ pc' = [p \in Probes |->
                        IF p[1] # b THEN pc[p]
                        ELSE IF p[2] <= n THEN "probing" ELSE "waiting"]
           /\ queue' = queue \o waiters
           /\ free' = free - n
    /\ UNCHANGED <<attempt, outcome, cancelled, records>>

\* What remains of a queue without the probes of S, in the order they were in.
\* There is one such sequence.
Without(S) ==
    LET kept == {i \in DOMAIN queue : queue[i] \notin S}
        places == 1 .. Cardinality(kept)
        orders == {f \in [places -> kept] :
                      \A i, j \in places : i < j => f[i] < f[j]}
    IN  {[i \in places |-> queue[f[i]]] : f \in orders}

\* A probe whose attempt has just ended may miss the cancellation: wait_for
\* returns what it got.  Tasks that have not started never enter the probe,
\* and waiters are out of the queue at once.
CancelBatch(b) ==
    /\ batch[b] \in {"called", "running"}
    /\ batch' = [batch EXCEPT ![b] = "cancelled"]
    /\ \E missed \in SUBSET {p \in ProbesOf(b) : pc[p] = "answered"} :
          cancelled' = cancelled \cup
              {p \in ProbesOf(b) \ missed : pc[p] # "done"}
    /\ queue' \in Without(ProbesOf(b))
    /\ UNCHANGED <<pc, attempt, outcome, free, records>>

BatchEnds(b) ==
    /\ batch[b] \in {"running", "cancelled"}
    /\ \A p \in ProbesOf(b) : pc[p] = "done"
    /\ batch' = [batch EXCEPT ![b] =
                    IF @ = "running" THEN "returned" ELSE "ended"]
    /\ UNCHANGED <<pc, attempt, outcome, cancelled, semaphore, records>>

\* A waiter that was given a slot runs; it wakes another one if it can.
Enter(p) ==
    /\ pc[p] = "granted"
    /\ p \notin cancelled
    /\ Wake(MoveTo(p, "probing"), free)
    /\ UNCHANGED <<batch, attempt, outcome, cancelled, records>>

-----------------------------------------------------------------------------
(***************************************************************************)
(* _send_probe under wait_for.                                             *)
(***************************************************************************)
\* The connection fails, or there is no request for the protocol.  An error
\* in a ParseResult and an exception are one outcome, as both come to the same.
NotConnected(p) ==
    /\ pc[p] = "probing"
    /\ p \notin cancelled
    /\ pc' = MoveTo(p, "answered")
    /\ SetOutcome(p, "error")
    /\ UNCHANGED <<batch, attempt, cancelled, semaphore, records>>

\* The device's response with its parsing, an empty one, or an exception.
Answered(p) ==
    /\ pc[p] = "probing"
    /\ p \notin cancelled
    /\ pc' = MoveTo(p, "closing")
    /\ \E o \in {"identity", "nothing", "error"} : SetOutcome(p, o)
    /\ UNCHANGED <<batch, attempt, cancelled, semaphore, records>>

\* The time limit cancels _send_probe and waits until it has ended: once it is
\* connected it still closes.  An answer that waits for that to end is lost.
TimesOut(p) ==
    /\ p \notin cancelled
    /\ \/ /\ pc[p] = "probing"
          /\ \E state \in {"closing", "answered"} : pc' = MoveTo(p, state)
       \/ /\ pc[p] = "closing" /\ outcome[p] # "timeout"
          /\ pc' = MoveTo(p, "answered")
    /\ SetOutcome(p, "timeout")
    /\ UNCHANGED <<batch, attempt, cancelled, semaphore, records>>

Closed(p) ==
    /\ pc[p] = "closing"
    /\ \/ /\ p \notin cancelled
          /\ pc' = MoveTo(p, "answered")
          /\ UNCHANGED <<outcome, cancelled, semaphore>>
       \/ /\ outcome[p] = "cancelled"
          /\ Leave(p)
    /\ UNCHANGED <<batch, attempt, records>>

-----------------------------------------------------------------------------
(***************************************************************************)
(* probe_device after an attempt.                                          *)
(***************************************************************************)
Identified(p) ==
    /\ outcome[p] = "identity"
    /\ pc' = MoveTo(p, "delivering")
    /\ result' = [result EXCEPT ![p] = "identified"]
    /\ delivered' = [delivered EXCEPT ![p] = @ + 1]
    /\ UNCHANGED <<attempt, outcome, cancelled, recorded, semaphore>>

NoIdentity(p) ==
    /\ outcome[p] = "nothing"
    /\ Leave(p)
    /\ result' = [result EXCEPT ![p] = "no_identity"]
    /\ UNCHANGED <<attempt, delivered, recorded>>

\* Mutant: each failed attempt is recorded.
RetryRecorded(p) ==
    /\ outcome[p] \in Failures
    /\ attempt[p] < MAX_RETRIES
    /\ attempt' = [attempt EXCEPT ![p] = @ + 1]
    /\ pc' = MoveTo(p, "probing")
    /\ SetOutcome(p, "none")
    /\ recorded' = [recorded EXCEPT ![p] = @ + 1]
    /\ UNCHANGED <<result, delivered, cancelled, semaphore>>

Retry(p) ==
    /\ outcome[p] \in Failures
    /\ attempt[p] < MAX_RETRIES
    /\ attempt' = [attempt EXCEPT ![p] = @ + 1]
    /\ pc' = MoveTo(p, "probing")
    /\ SetOutcome(p, "none")
    /\ UNCHANGED <<records, cancelled, semaphore>>

GiveUp(p) ==
    /\ outcome[p] \in Failures
    /\ attempt[p] = MAX_RETRIES
    /\ pc' = MoveTo(p, "recording")
    /\ result' = [result EXCEPT ![p] =
                     IF outcome[p] = "timeout" THEN "timeout" ELSE "error"]
    /\ recorded' = [recorded EXCEPT ![p] = @ + 1]
    /\ UNCHANGED <<attempt, outcome, cancelled, delivered, semaphore>>

Concludes(p) ==
    /\ pc[p] = "answered"
    /\ p \notin cancelled
    /\ Identified(p) \/ NoIdentity(p) \/ Retry(p) \/ GiveUp(p)
    /\ UNCHANGED batch

\* on_result or on_scan_history returns or raises, which is logged.
CallbackEnds(p) ==
    /\ pc[p] \in {"delivering", "recording"}
    /\ p \notin cancelled
    /\ Leave(p)
    /\ UNCHANGED <<batch, attempt, records>>

\* CancelledError arrives.  No except clause of the prober takes it.
Cancelled(p) ==
    /\ p \in cancelled
    /\ outcome[p] # "cancelled"
    /\ \/ /\ pc[p] \in {"created", "waiting"}
          /\ pc' = MoveTo(p, "done")
          /\ cancelled' = cancelled \ {p}
          /\ UNCHANGED <<outcome, semaphore>>
       \/ /\ pc[p] = "probing"
          /\ pc' = MoveTo(p, "closing")
          /\ SetOutcome(p, "cancelled")
          /\ UNCHANGED <<cancelled, semaphore>>
       \/ /\ pc[p] \in InSlot
          /\ Leave(p)
    /\ UNCHANGED <<batch, attempt, records>>

ProbeStep(p) ==
    \/ Enter(p)
    \/ NotConnected(p)
    \/ Answered(p)
    \/ TimesOut(p)
    \/ Closed(p)
    \/ Concludes(p)
    \/ CallbackEnds(p)
    \/ Cancelled(p)

Next ==
    \/ \E b \in Batches :
        \/ CallBatch(b)
        \/ StartProbes(b)
        \/ CancelBatch(b)
        \/ BatchEnds(b)
    \/ \E p \in Probes : ProbeStep(p)

\* The event loop runs each task that is ready.  What a probe awaits on the
\* network ends by the time limit at the latest, a closed connection is gone
\* in the end, and the callbacks, which write to the database, return.
Fairness ==
    /\ \A b \in Batches : WF_vars(StartProbes(b)) /\ WF_vars(BatchEnds(b))
    /\ \A p \in Probes : WF_vars(ProbeStep(p))

Spec == Init /\ [][Next]_vars /\ Fairness

-----------------------------------------------------------------------------
\* Type correctness.
TypeOK ==
    /\ batch \in [Batches -> {"none", "called", "running", "cancelled",
                              "returned", "ended"}]
    /\ pc \in [Probes -> Awaits]
    /\ attempt \in [Probes -> 0 .. MAX_RETRIES]
    /\ outcome \in [Probes -> Outcomes]
    /\ result \in [Probes -> Results]
    /\ cancelled \subseteq Probes
    /\ free \in Nat
    /\ queue \in Seq(Probes)
    /\ delivered \in [Probes -> Nat]
    /\ recorded \in [Probes -> Nat]

\* Each slot of the semaphore is free or held by one probe, whatever raises,
\* times out or is cancelled, so that never more than MAX_CONCURRENT probes
\* run (probe_batch, Requirement 3.9); and no slot stays free while a probe
\* waits for one with nobody about to wake it.
SlotsExact ==
    /\ TypeOK
    /\ free + Cardinality(Holders) = MAX_CONCURRENT
    /\ free > 0 /\ queue # <<>> => \E p \in Probes : pc[p] = "granted"

\* A probe that fails has one entry in the scan history, however many of its
\* attempts failed; one that succeeds has none, and a fingerprint is passed on
\* once (probe_device, Requirements 3.5 and 3.6).  A batch that returns has a
\* result for every target (probe_batch).
OneVerdict ==
    /\ \A p \in Probes :
        /\ recorded[p] = IF result[p] \in {"timeout", "error"} THEN 1 ELSE 0
        /\ delivered[p] = IF result[p] = "identified" THEN 1 ELSE 0
    /\ \A b \in Batches :
        batch[b] = "returned" => \A p \in ProbesOf(b) : result[p] # "none"

\* Every batch ends, also a cancelled one, and also if it shares the slots
\* with one that was cancelled while it waited (probe_batch).
BatchesEnd ==
    \A b \in Batches :
        batch[b] # "none" ~> batch[b] \in {"returned", "ended"}
=============================================================================
