-------------------------- MODULE DisappearanceCheck --------------------------
(***************************************************************************)
(* Disappeared devices, in ChangeDetector of                               *)
(* app/detection/change_detector.py: check_disappeared_devices over a list *)
(* of the inventory that its caller has read before, against the packets   *)
(* that are handled meanwhile and clear a device's mark.                   *)
(*                                                                         *)
(* No module of the application calls check_disappeared_devices yet.  The  *)
(* callers are those of its documentation and tests: they read the         *)
(* inventory, call, await the result, and do so again; several may do it   *)
(* at once.  Handlers are those of DiscoveryPipeline, without the alerts   *)
(* that are no part of this, and one per device, since clearing a mark     *)
(* twice is clearing it once.                                              *)
(***************************************************************************)
EXTENDS Integers

CONSTANTS
    Devices,
    Checks,      \* callers of check_disappeared_devices
    Timeouts,    \* disappearance_timeout_hours that are tried
    MinTimeout,  \* MIN_DISAPPEARANCE_TIMEOUT_HOURS
    MaxTimeout,  \* MAX_DISAPPEARANCE_TIMEOUT_HOURS
    MaxClock     \* bound: hours that pass

ASSUME DisappearanceAssumption ==
    /\ Timeouts \subseteq Nat
    /\ MinTimeout \in Nat /\ MaxTimeout \in Nat
    /\ MinTimeout <= MaxTimeout
    /\ MaxClock \in Nat

VARIABLES
    hour,        \* the time, in hours
    timeout,     \* _disappearance_timeout_hours
    lastSeen,    \* last_seen of each device in the inventory
    handler,     \* where the handler of a packet of each device is
    marked,      \* _disappeared_alerted
    check,       \* where each caller is
    listed,      \* last_seen of the devices as a caller has read them
    alerts,      \* the devices a call has still to report
    raised,      \* history: the persist handler has raised
    generated,   \* history: alerts about a device since it was re-detected
    reported     \* history: devices reported since they were re-detected

packetVars == <<lastSeen, handler>>
checkVars == <<check, listed, alerts>>
absenceVars == <<hour, timeout, packetVars, marked, checkVars, raised, generated, reported>>

Times == 0 .. MaxClock

\* What is left of a list that a call has gone through.
NoList == [d \in Devices |-> 0]

AbsenceInit ==
    /\ hour = 0
    /\ timeout \in Timeouts \cap MinTimeout .. MaxTimeout
    /\ lastSeen = [d \in Devices |-> 0]
    /\ handler = [d \in Devices |-> "idle"]
    /\ marked = {}
    /\ check = [c \in Checks |-> "idle"]
    /\ listed = [c \in Checks |-> NoList]
    /\ alerts = [c \in Checks |-> {}]
    /\ raised = FALSE
    /\ generated = [d \in Devices |-> 0]
    /\ reported = {}

Tick ==
    /\ hour < MaxClock
    /\ hour' = hour + 1
    /\ UNCHANGED <<timeout, packetVars, marked, checkVars, raised, generated, reported>>

\* The setter refuses what is outside the range.
SetTimeout(t) ==
    /\ t \in MinTimeout .. MaxTimeout
    /\ timeout' = t
    /\ UNCHANGED <<hour, packetVars, marked, checkVars, raised, generated, reported>>

-----------------------------------------------------------------------------
(***************************************************************************)
(* A packet of a device that the inventory knows.                          *)
(***************************************************************************)
HandlerGoes(d, from, to) ==
    /\ handler[d] = from
    /\ handler' = [handler EXCEPT ![d] = to]

Lookup(d) ==
    /\ HandlerGoes(d, "idle", "found")
    /\ UNCHANGED <<hour, timeout, lastSeen, marked, checkVars, raised, generated, reported>>

\* process_fingerprint clears the mark before it awaits anything.
Redetect(d) ==
    /\ HandlerGoes(d, "found", "processed")
    /\ marked' = marked \ {d}
    /\ generated' = [generated EXCEPT ![d] = 0]
    /\ reported' = reported \ {d}
    /\ UNCHANGED <<hour, timeout, lastSeen, checkVars, raised>>

\* clear_disappeared_state, for whoever else knows that the device is back.
ClearState(d) ==
    /\ d \in marked
    /\ marked' = marked \ {d}
    /\ generated' = [generated EXCEPT ![d] = 0]
    /\ reported' = reported \ {d}
    /\ UNCHANGED <<hour, timeout, packetVars, checkVars, raised>>

Upsert(d) ==
    /\ HandlerGoes(d, "processed", "idle")
    /\ lastSeen' = [lastSeen EXCEPT ![d] = hour]
    /\ UNCHANGED <<hour, timeout, marked, checkVars, raised, generated, reported>>

\* A statement of the handler raises.
HandlerRaises(d) ==
    /\ \E state \in {"found", "processed"} : HandlerGoes(d, state, "idle")
    /\ UNCHANGED <<hour, timeout, lastSeen, marked, checkVars, raised, generated, reported>>

-----------------------------------------------------------------------------
(***************************************************************************)
(* check_disappeared_devices.                                              *)
(***************************************************************************)
CheckGoes(c, from, to) ==
    /\ check[c] = from
    /\ check' = [check EXCEPT ![c] = to]

ReadInventory(c) ==
    /\ CheckGoes(c, "idle", "listed")
    /\ listed' = [listed EXCEPT ![c] = lastSeen]
    /\ UNCHANGED <<hour, timeout, packetVars, marked, alerts, raised, generated, reported>>

Overdue(seen) == {d \in Devices : hour - seen[d] > timeout}

\* Mutant: a device is marked when its alert has been dispatched.
CollectUnmarked(c) ==
    LET new == Overdue(listed[c]) \ marked IN
    /\ CheckGoes(c, "listed", "dispatching")
    /\ alerts' = [alerts EXCEPT ![c] = new]
    /\ listed' = [listed EXCEPT ![c] = NoList]
    /\ generated' = [d \in Devices |-> IF d \in new THEN generated[d] + 1 ELSE generated[d]]
    /\ UNCHANGED <<hour, timeout, packetVars, marked, raised, reported>>

\* The loop over the devices, which nothing interrupts: one alert for each
\* device that is overdue by the list and not marked, and its mark.
Collect(c) ==
    LET new == Overdue(listed[c]) \ marked IN
    /\ CheckGoes(c, "listed", "dispatching")
    /\ alerts' = [alerts EXCEPT ![c] = new]
    /\ listed' = [listed EXCEPT ![c] = NoList]
    /\ marked' = marked \cup new
    /\ generated' = [d \in Devices |-> IF d \in new THEN generated[d] + 1 ELSE generated[d]]
    /\ UNCHANGED <<hour, timeout, packetVars, raised, reported>>

\* Mutant: a call reports one device.
DispatchOne(c, d) ==
    /\ check[c] = "dispatching"
    /\ d \in alerts[c]
    /\ reported' = reported \cup {d}
    /\ alerts' = [alerts EXCEPT ![c] = {}]
    /\ UNCHANGED <<hour, timeout, packetVars, marked, check, listed, raised, generated>>

\* The alert is persisted and the callbacks are called, whose exceptions are
\* passed over.  In which order the devices come makes no difference here.
Dispatch(c, d) ==
    /\ check[c] = "dispatching"
    /\ d \in alerts[c]
    /\ reported' = reported \cup {d}
    /\ alerts' = [alerts EXCEPT ![c] = @ \ {d}]
    /\ UNCHANGED <<hour, timeout, packetVars, marked, check, listed, raised, generated>>

\* The persist handler raises: the call ends, and no later one reports the
\* devices it had left, which are marked.
PersistRaises(c) ==
    /\ alerts[c] # {}
    /\ CheckGoes(c, "dispatching", "idle")
    /\ alerts' = [alerts EXCEPT ![c] = {}]
    /\ raised' = TRUE
    /\ UNCHANGED <<hour, timeout, packetVars, marked, listed, generated, reported>>

CheckReturns(c) ==
    /\ alerts[c] = {}
    /\ CheckGoes(c, "dispatching", "idle")
    /\ UNCHANGED <<hour, timeout, packetVars, marked, listed, alerts, raised, generated, reported>>

-----------------------------------------------------------------------------
CheckProceeds(c) ==
    \/ ReadInventory(c) \/ Collect(c) \/ CheckReturns(c)
    \/ \E d \in Devices : Dispatch(c, d)

AbsenceNext ==
    \/ Tick
    \/ \E t \in Timeouts : SetTimeout(t)
    \/ \E d \in Devices : \/ Lookup(d) \/ Redetect(d) \/ ClearState(d)
                          \/ Upsert(d) \/ HandlerRaises(d)
    \/ \E c \in Checks : CheckProceeds(c) \/ PersistRaises(c)

\* Callers call again and again, and what they await returns or raises.
AbsenceSpec ==
    /\ AbsenceInit /\ [][AbsenceNext]_absenceVars
    /\ \A c \in Checks : WF_absenceVars(CheckProceeds(c) \/ PersistRaises(c))

-----------------------------------------------------------------------------
(***************************************************************************)
(* Properties.                                                             *)
(***************************************************************************)
AbsenceTypeOK ==
    /\ hour \in Times
    /\ timeout \in MinTimeout .. MaxTimeout
    /\ lastSeen \in [Devices -> Times]
    /\ handler \in [Devices -> {"idle", "found", "processed"}]
    /\ marked \subseteq Devices
    /\ check \in [Checks -> {"idle", "listed", "dispatching"}]
    /\ listed \in [Checks -> [Devices -> Times]]
    /\ alerts \in [Checks -> SUBSET Devices]
    /\ raised \in BOOLEAN
    /\ generated \in [Devices -> Nat]
    /\ reported \subseteq Devices

\* From one re-detection of a device to the next there is one alert at most
\* that it has disappeared, however many checks overlap and whatever the
\* timeout is set to meanwhile; and a device is passed over as already
\* alerted only if there has been one.
OneAlertPerAbsence ==
    /\ AbsenceTypeOK
    /\ \A d \in Devices : /\ generated[d] <= 1
                          /\ d \in marked => generated[d] = 1

\* A device that is overdue is reported, unless it is seen again or the
\* timeout is raised; only a persist handler that raises can prevent it.
AbsenceReported ==
    \A d \in Devices :
        d \in Overdue(lastSeen) ~>
            \/ d \in reported \/ d \notin Overdue(lastSeen) \/ raised
=============================================================================
