--------------------------- MODULE DiscoveryPipeline ---------------------------
(***************************************************************************)
(* From fingerprint to inventory: _handle_passive_discovery and            *)
(* _handle_active_probe_result of app/discovery_engine.py, with the change *)
(* detector's process_fingerprint and the device repository's upsert.      *)
(*                                                                         *)
(* The sniffer schedules one coroutine per packet and the prober runs its  *)
(* targets as tasks, so that handlers run concurrently; a handler can be   *)
(* overtaken wherever it awaits a statement or a broadcast.  They share    *)
(* one repository and its session, whose identity map holds one object per *)
(* device: what a handler assigns to it, the others see at once.           *)
(*                                                                         *)
(* Nothing in src/ commits or rolls back that session: all handlers write  *)
(* into one open transaction.  A statement that is refused, or a flush     *)
(* that fails, loses all of it, and the session raises from then on.  A    *)
(* statement writes what is pending first (autoflush), unless a flush is   *)
(* under way already; then flush() itself raises.                          *)
(*                                                                         *)
(* firmware stands for vendor, model and device_type too, which the merge  *)
(* treats alike.                                                           *)
(***************************************************************************)
EXTENDS Integers, Sequences, FiniteSets

CONSTANTS
    Handlers,       \* one for each fingerprint that is handled
    Addresses,      \* pairs of a MAC and an IP address
    Protocols,
    Versions,       \* firmware versions
    Unknown,        \* None
    NoDevice,
    Fingerprints,   \* those that arrive: address, protocol and firmware
    Registered,     \* devices that may have been created through the API
    MaxProtocols,   \* MAX_PROTOCOLS_PER_DEVICE
    MaxHistory,     \* MAX_HISTORY_ENTRIES_PER_DEVICE
    MaxMissed,      \* bound: history entries that their own count misses
    MaxDeletions    \* bound: devices deleted through the API

Device == [id : Nat, firmware : Versions \cup {Unknown},
           protocols : {P \in SUBSET Protocols :
                           IsFiniteSet(P) /\ Cardinality(P) <= MaxProtocols}]
Fingerprint == [address : Addresses, protocol : Protocols,
                firmware : Versions \cup {Unknown}]

ASSUME PipelineAssumption ==
    /\ Unknown \notin Versions
    /\ NoDevice \notin Device
    /\ Fingerprints \subseteq Fingerprint
    /\ Registered \subseteq Device
    /\ \A device \in Registered : device.id = 0
    /\ MaxProtocols \in Nat \ {0}
    /\ MaxHistory \in Nat
    /\ MaxMissed \in Nat
    /\ MaxDeletions \in Nat

VARIABLES
    pc,           \* the await each handler is suspended in
    fingerprint,  \* the fingerprint it handles
    toSend,       \* its alerts that are not dispatched yet
    held,         \* id of the device it merges into
    now,          \* last_seen of its merge, as a number in order of time
    field,        \* the field whose history entry it is recording
    excess,       \* number of history entries it has found too many
    doomed,       \* history entries it has chosen to delete
    devices,      \* the device at each address, as the session has it
    history,      \* the history entries of that device
    stored,       \* the device at each address that is committed
    written,      \* addresses whose row the open transaction has written
    usable,       \* the session's transaction has not failed
    ids,          \* number of devices created
    clock,        \* number of merges begun
    deletions,    \* number of devices deleted
    announced,    \* history: protocols in dispatched alerts about the device
                  \* at each address, since the last one there was deleted
    overtaken,    \* history: handlers under way when their device was deleted
    missed        \* history: entries that their own count did not see

merging == <<now, field, excess, doomed>>
tables == <<devices, history, stored, written, usable>>
counters == <<ids, clock, deletions>>
notes == <<announced, overtaken, missed>>
vars == <<pc, fingerprint, toSend, held, merging, tables, counters, notes>>

Entry == [by : Handlers, field : {"firmware", "protocols"}, at : Nat,
          old : SUBSET (Protocols \cup Versions),
          new : SUBSET (Protocols \cup Versions)]
Entries == {E \in SUBSET Entry : IsFiniteSet(E)}
AlertTypes == {"new_device", "firmware_change", "new_protocol"}
Statements == {"lookup", "find", "check", "insert", "count", "select",
               "delete", "flush"}
\* A handler has failed, and what it has added or changed is not written yet.
Unwritten == {"unsaved", "unflushed"}
States == Statements \cup Unwritten \cup {"idle", "alerting", "done", "failed"}

Address(h) == fingerprint[h].address
Here(h) == devices[Address(h)]
EntriesHere(h) == history[Address(h)]
Go(h, state) == pc' = [pc EXCEPT ![h] = state]

\* The device that a handler merges into is still there.
Holds(h) == Here(h) # NoDevice /\ Here(h).id = held[h]

Init ==
    /\ pc = [h \in Handlers |-> "idle"]
    /\ fingerprint \in [Handlers -> Fingerprints]
    /\ toSend = [h \in Handlers |-> <<>>]
    /\ held = [h \in Handlers |-> 0]
    /\ now = [h \in Handlers |-> 0]
    /\ field = [h \in Handlers |-> "protocols"]
    /\ excess = [h \in Handlers |-> 0]
    /\ doomed = [h \in Handlers |-> {}]
    /\ devices \in [Addresses -> Registered \cup {NoDevice}]
    /\ history = [a \in Addresses |-> {}]
    /\ stored = devices
    /\ written = {}
    /\ usable = TRUE
    /\ ids = 0
    /\ clock = 0
    /\ deletions = 0
    /\ announced = [a \in Addresses |->
                      IF devices[a] = NoDevice THEN {}
                                               ELSE devices[a].protocols]
    /\ overtaken = {}
    /\ missed = {}

-----------------------------------------------------------------------------
(***************************************************************************)
(* The session.                                                            *)
(***************************************************************************)

\* h awaits a statement that the session can execute.
Awaits(h, statement) == usable /\ pc[h] = statement

\* Its statement may run into the flush of another handler's.
Overlapped(h) == \E g \in Handlers \ {h} : pc[g] \in Statements

Write(h) == written' = written \cup {Address(h)}

\* All that the handlers have written is rolled back, or lost at the end.
TransactionLost(h) ==
    /\ devices' = stored
    /\ history' = [a \in Addresses |-> {}]
    /\ written' = {}
    /\ usable' = FALSE
    /\ Go(h, "failed")

-----------------------------------------------------------------------------
(***************************************************************************)
(* The change detector.                                                    *)
(***************************************************************************)
FirmwareChange(h) ==
    IF /\ fingerprint[h].firmware # Unknown
       /\ Here(h).firmware # Unknown
       /\ fingerprint[h].firmware # Here(h).firmware
    THEN <<"firmware_change">> ELSE <<>>

NewProtocol(h) ==
    IF fingerprint[h].protocol \notin Here(h).protocols
    THEN <<"new_protocol">> ELSE <<>>

\* Mutant: a fingerprint has one alert at most.
FirstAlertFor(h) ==
    IF Here(h) = NoDevice THEN <<"new_device">>
    ELSE IF FirmwareChange(h) # <<>> THEN FirmwareChange(h) ELSE NewProtocol(h)

\* The alerts that process_fingerprint makes of the looked up device.
AlertsFor(h) ==
    IF Here(h) = NoDevice THEN <<"new_device">>
    ELSE FirmwareChange(h) \o NewProtocol(h)

\* The next alert goes to the broadcast, which is awaited; after the last one
\* upsert_device looks the device up once more.
SendNext(h, alerts) ==
    \/ /\ alerts # <<>>
       /\ toSend' = [toSend EXCEPT ![h] = Tail(alerts)]
       /\ announced' =
            IF Head(alerts) = "firmware_change" THEN announced
            ELSE [announced EXCEPT ![Address(h)] =
                                      @ \cup {fingerprint[h].protocol}]
       /\ Go(h, "alerting")
    \/ /\ alerts = <<>>
       /\ Go(h, "find")
       /\ UNCHANGED <<toSend, announced>>

Arrive(h) ==
    /\ pc[h] = "idle"
    /\ Go(h, "lookup")
    /\ UNCHANGED <<fingerprint, toSend, held, merging, tables, counters,
                   notes>>

LookedUp(h) ==
    /\ Awaits(h, "lookup")
    /\ SendNext(h, AlertsFor(h))
    /\ UNCHANGED <<fingerprint, held, merging, tables, counters, overtaken,
                   missed>>

AlertSent(h) ==
    /\ pc[h] = "alerting"
    /\ SendNext(h, toSend[h])
    /\ UNCHANGED <<fingerprint, held, merging, tables, counters, overtaken,
                   missed>>

-----------------------------------------------------------------------------
(***************************************************************************)
(* _merge_device.  Between the test of a field for None and its assignment *)
(* stand the statements of _record_history; the protocols are read,        *)
(* extended and assigned before theirs.                                    *)
(***************************************************************************)

\* _record_history adds the entry, and the count writes it to the table.
Record(h, entries, f, old, new) ==
    /\ history' = [history EXCEPT ![Address(h)] = entries \cup
                     {[by |-> h, field |-> f, at |-> now'[h],
                       old |-> old, new |-> new]}]
    /\ field' = [field EXCEPT ![h] = f]
    /\ Go(h, "count")

Merged(h, device) == device.protocols \cup {fingerprint[h].protocol}

TooMany(protocols) == Cardinality(protocols) > MaxProtocols

\* Mutant: the old value is read after the assignment.
OldProtocolsLate(h, device) == Merged(h, device)

OldProtocols(h, device) == device.protocols

\* The last part of the merge, on a device and its entries as the earlier
\* parts have left them.
MergeProtocols(h, device, entries) ==
    \/ /\ \/ Merged(h, device) = device.protocols /\ Go(h, "flush")
          \/ /\ Merged(h, device) # device.protocols
             /\ TooMany(Merged(h, device))
             /\ Go(h, "unflushed")
       /\ devices' = [devices EXCEPT ![Address(h)] = device]
       /\ history' = [history EXCEPT ![Address(h)] = entries]
       /\ UNCHANGED field
    \/ /\ Merged(h, device) # device.protocols
       /\ ~TooMany(Merged(h, device))
       /\ devices' = [devices EXCEPT ![Address(h)] =
                        [device EXCEPT !.protocols = Merged(h, device)]]
       /\ Record(h, entries, "protocols", OldProtocols(h, device),
                 Merged(h, device))

\* upsert_device has found the device.
Merge(h) ==
    /\ clock' = clock + 1
    /\ now' = [now EXCEPT ![h] = clock']
    /\ held' = [held EXCEPT ![h] = Here(h).id]
    /\ \/ /\ Here(h).firmware = Unknown
          /\ fingerprint[h].firmware # Unknown
          /\ Record(h, EntriesHere(h), "firmware", {},
                    {fingerprint[h].firmware})
          /\ UNCHANGED devices
       \/ /\ \/ Here(h).firmware # Unknown
             \/ fingerprint[h].firmware = Unknown
          /\ MergeProtocols(h, Here(h), EntriesHere(h))
    /\ UNCHANGED <<excess, doomed>>

\* _record_history returns; the field is assigned, if that is still to do.
HistoryRecorded(h, entries) ==
    /\ UNCHANGED now
    /\ \/ /\ field[h] = "firmware"
          /\ MergeProtocols(h, [Here(h) EXCEPT !.firmware =
                                                 fingerprint[h].firmware],
                            entries)
       \/ /\ field[h] = "protocols"
          /\ history' = [history EXCEPT ![Address(h)] = entries]
          /\ Go(h, "flush")
          /\ UNCHANGED <<devices, field>>
-----------------------------------------------------------------------------
(***************************************************************************)
(* The statements of upsert_device and create_device.                      *)
(***************************************************************************)

\* upsert_device's lookup.
Found(h) ==
    /\ Awaits(h, "find")
    /\ \/ /\ Here(h) # NoDevice
          /\ Merge(h)
       \/ /\ Here(h) = NoDevice
          /\ Go(h, "check")
          /\ UNCHANGED <<held, merging, devices, history, clock>>
    /\ UNCHANGED <<fingerprint, toSend, stored, written, usable, ids,
                   deletions, notes>>

\* Mutant: create_device returns the device it finds.
CheckedAndReturned(h) ==
    /\ Awaits(h, "check")
    /\ \/ /\ Here(h) # NoDevice
          /\ held' = [held EXCEPT ![h] = Here(h).id]
          /\ Go(h, "done")
       \/ /\ Here(h) = NoDevice
          /\ Go(h, "insert")
          /\ UNCHANGED held
    /\ UNCHANGED <<fingerprint, toSend, merging, tables, counters, notes>>

\* create_device's lookup.  A device found now is a DuplicateDeviceError.
Checked(h) ==
    /\ Awaits(h, "check")
    /\ \/ Here(h) # NoDevice /\ Go(h, "failed")
       \/ Here(h) = NoDevice /\ Go(h, "insert")
    /\ UNCHANGED <<fingerprint, toSend, held, merging, tables, counters,
                   notes>>

\* The new device is written by the flush of its handler, or by a later
\* statement if that flush was refused.  A device that is there already
\* violates the unique constraint.
Inserted(h) ==
    /\ usable
    /\ pc[h] \in {"insert", "unsaved"}
    /\ \/ /\ Here(h) # NoDevice
          /\ TransactionLost(h)
          /\ UNCHANGED <<ids, held>>
       \/ /\ Here(h) = NoDevice
          /\ ids' = ids + 1
          /\ held' = [held EXCEPT ![h] = ids']
          /\ devices' = [devices EXCEPT ![Address(h)] =
                           [id |-> ids', firmware |-> fingerprint[h].firmware,
                            protocols |-> {fingerprint[h].protocol}]]
          /\ Write(h)
          /\ Go(h, IF pc[h] = "insert" THEN "done" ELSE "failed")
          /\ UNCHANGED <<history, usable>>
    /\ UNCHANGED <<fingerprint, toSend, merging, stored, clock, deletions,
                   notes>>

(***************************************************************************)
(* The statements of _enforce_history_limit, and the flush of the merge.   *)
(***************************************************************************)

\* Mutant: the entry just added is not counted.
AboveLimitBefore(n) == n - 1 - MaxHistory

AboveLimit(n) == n - MaxHistory

\* The entry that h has recorded last.
Latest(h) == {e \in EntriesHere(h) : e.by = h /\ e.field = field[h]}

\* Entries that are perhaps not written when a statement of h is executed:
\* those still to be counted by the handlers that have recorded them, and
\* those that were not seen when they were.
Unseen(h) == (missed \cap EntriesHere(h))
                \cup UNION {Latest(g) : g \in {f \in Handlers \ {h} :
                                Address(f) = Address(h) /\ pc[f] = "count"}}

\* The count writes the merge and the new entry, unless it is overlapped: then
\* it may not see its own.
Counted(h) ==
    /\ Awaits(h, "count")
    /\ Holds(h)
    /\ \E own \in {{}, Latest(h)}, unseen \in SUBSET Unseen(h) :
          LET n == AboveLimit(Cardinality(EntriesHere(h) \ (own \cup unseen)))
          IN  /\ \/ own = {} /\ Write(h)
                 \/ /\ own # {} /\ Overlapped(h)
                    /\ Cardinality(missed) < MaxMissed
                    /\ UNCHANGED written
              /\ missed' = missed \cup own
              /\ \/ /\ n > 0
                    /\ excess' = [excess EXCEPT ![h] = n]
                    /\ Go(h, "select")
                    /\ UNCHANGED <<devices, history, field, now>>
                 \/ /\ n <= 0
                    /\ HistoryRecorded(h, EntriesHere(h))
                    /\ UNCHANGED excess
    /\ UNCHANGED <<fingerprint, toSend, held, doomed, stored, usable, counters,
                   announced, overtaken>>

\* The oldest entries, as many as were found too many, or all there are.
Oldest(entries, n) ==
    {S \in SUBSET entries :
        /\ Cardinality(S) = n \/ (S = entries /\ Cardinality(S) < n)
        /\ \A e \in S : \A f \in entries \ S : e.at <= f.at}

Selected(h) ==
    /\ Awaits(h, "select")
    /\ Holds(h)
    /\ excess' = [excess EXCEPT ![h] = 0]
    /\ \E unseen \in SUBSET Unseen(h) :
       \E S \in Oldest(EntriesHere(h) \ unseen, excess[h]) :
          \/ /\ S # {}
             /\ doomed' = [doomed EXCEPT ![h] = S]
             /\ Go(h, "delete")
             /\ UNCHANGED <<devices, history, field, now>>
          \/ /\ S = {}
             /\ HistoryRecorded(h, EntriesHere(h))
             /\ UNCHANGED doomed
    /\ UNCHANGED <<fingerprint, toSend, held, stored, written, usable,
                   counters, notes>>

Removed(h) ==
    /\ Awaits(h, "delete")
    /\ Holds(h)
    /\ HistoryRecorded(h, EntriesHere(h) \ doomed[h])
    /\ doomed' = [doomed EXCEPT ![h] = {}]
    /\ UNCHANGED <<fingerprint, toSend, held, excess, stored, written, usable,
                   counters, notes>>

\* The merge is written by its flush, or by a later statement.
Flushed(h) ==
    /\ usable
    /\ pc[h] \in {"flush", "unflushed"}
    /\ Holds(h)
    /\ Write(h)
    /\ Go(h, IF pc[h] = "flush" THEN "done" ELSE "failed")
    /\ UNCHANGED <<fingerprint, toSend, held, merging, devices, history,
                   stored, usable, counters, notes>>

\* "Session is already flushing": the handler fails, and what it has added
\* or changed stays in the session.
FlushRefused(h) ==
    /\ Overlapped(h)
    /\ \/ Awaits(h, "insert") /\ Go(h, "unsaved")
       \/ Awaits(h, "flush") /\ Go(h, "unflushed")
    /\ UNCHANGED <<fingerprint, toSend, held, merging, tables, counters,
                   notes>>

-----------------------------------------------------------------------------
(***************************************************************************)
(* What ends a transaction, and what follows.                              *)
(***************************************************************************)

\* The merge of a device that was deleted meanwhile: the UPDATE finds no row,
\* or an entry no device it may refer to.
MergeOfDeleted(h) ==
    /\ usable
    /\ pc[h] \in {"count", "select", "delete", "flush", "unflushed"}
    /\ ~Holds(h)
    /\ TransactionLost(h)
    /\ UNCHANGED <<fingerprint, toSend, held, merging, stored, counters,
                   notes>>

\* The database refuses a statement, or the connection is lost.
StatementRefused(h) ==
    /\ usable
    /\ pc[h] \in Statements
    /\ TransactionLost(h)
    /\ UNCHANGED <<fingerprint, toSend, held, merging, stored, counters,
                   notes>>

\* PendingRollbackError.  The handler logs it and drops the fingerprint.
StatementRaises(h) ==
    /\ ~usable
    /\ pc[h] \in Statements
    /\ Go(h, "failed")
    /\ UNCHANGED <<fingerprint, toSend, held, merging, tables, counters,
                   notes>>

\* It has looked its device up and not returned.
Underway(h) == pc[h] \notin {"idle", "lookup", "done", "failed"}

\* DELETE /api/devices/{id} in a session of its own, with the history that
\* goes with the device.  It waits for the lock of a row that the open
\* transaction has written, and finds none that it has not committed.
DeleteDevice(a) ==
    /\ deletions < MaxDeletions
    /\ stored[a] # NoDevice
    /\ a \notin written
    /\ deletions' = deletions + 1
    /\ stored' = [stored EXCEPT ![a] = NoDevice]
    /\ devices' = [devices EXCEPT ![a] = NoDevice]
    /\ history' = [history EXCEPT ![a] = {}]
    /\ announced' = [announced EXCEPT ![a] = {}]
    /\ overtaken' = overtaken \cup
                       {h \in Handlers : Address(h) = a /\ Underway(h)}
    /\ UNCHANGED <<pc, fingerprint, toSend, held, merging, written, usable,
                   ids, clock, missed>>

Next ==
    \/ \E h \in Handlers : \/ Arrive(h)
                           \/ LookedUp(h)
                           \/ AlertSent(h)
                           \/ Found(h)
                           \/ Checked(h)
                           \/ Inserted(h)
                           \/ Counted(h)
                           \/ Selected(h)
                           \/ Removed(h)
                           \/ Flushed(h)
                           \/ FlushRefused(h)
                           \/ MergeOfDeleted(h)
                           \/ StatementRefused(h)
                           \/ StatementRaises(h)
    \/ \E a \in Addresses : DeleteDevice(a)

Spec == Init /\ [][Next]_vars

-----------------------------------------------------------------------------
\* Among the types: no device has more protocols than allowed, however many
\* handlers add some to it.
TypeOK ==
    /\ pc \in [Handlers -> States]
    /\ fingerprint \in [Handlers -> Fingerprint]
    /\ toSend \in [Handlers -> Seq(AlertTypes)]
    /\ held \in [Handlers -> Nat]
    /\ now \in [Handlers -> Nat]
    /\ field \in [Handlers -> {"firmware", "protocols"}]
    /\ excess \in [Handlers -> Nat]
    /\ doomed \in [Handlers -> SUBSET Entry]
    /\ devices \in [Addresses -> Device \cup {NoDevice}]
    /\ history \in [Addresses -> Entries]
    /\ stored \in [Addresses -> Device \cup {NoDevice}]
    /\ written \subseteq Addresses
    /\ usable \in BOOLEAN
    /\ ids \in Nat
    /\ clock \in Nat
    /\ deletions \in 0 .. MaxDeletions
    /\ announced \in [Addresses -> SUBSET Protocols]
    /\ overtaken \subseteq Handlers
    /\ missed \in Entries

Present(a) == devices[a] # NoDevice

\* Protocols of which an alert about the device now at a has told, and those
\* brought by handlers whose device was deleted while they were under way:
\* they insert it anew after the alerts about the old one, if any.
Explained(a) == announced[a]
    \cup {fingerprint[h].protocol : h \in {g \in overtaken : Address(g) = a}}

\* Whatever the handlers bring into the inventory was announced by an alert
\* about the device that is there now, and not about one that was deleted.
\* Exempt is what an overtaken handler brings, which inserts the device anew
\* with no alert (_handle_passive_discovery).  Alerts about devices that were
\* there before belong to an earlier run.
NothingUnannounced ==
    \A a \in Addresses : Present(a) => devices[a].protocols \subseteq Explained(a)

\* As long as no flush and no statement of the session has failed, whatever
\* was handled is in the inventory, if its device still is.
HandledIsRecorded ==
    /\ TypeOK
    /\ usable => \A h \in Handlers :
          pc[h] = "done" /\ Holds(h) =>
              /\ fingerprint[h].protocol \in Here(h).protocols
              /\ fingerprint[h].firmware # Unknown => Here(h).firmware # Unknown

\* The audit history of the protocols tells one story: each change starts
\* from what the ones before it, or more of them, have led to, and the last
\* leads to what is stored.
AuditIsLinear ==
    \A a \in Addresses :
        LET changes == {e \in history[a] : e.field = "protocols"}
        IN  /\ \A e \in changes :
                  /\ e.old # e.new /\ e.old \subseteq e.new
                  /\ Present(a) /\ e.new \subseteq devices[a].protocols
            /\ \A e, f \in changes : e # f =>
                  e.new \subseteq f.old \/ f.new \subseteq e.old

\* The entries above the limit are those whose count is not done, or did not
\* see them.
Trimming(a) ==
    {h \in Handlers :
        Address(h) = a /\ pc[h] \in {"count", "select", "delete"}}

HistoryBounded ==
    \A a \in Addresses :
        Trimming(a) = {} =>
            Cardinality(history[a]) <= MaxHistory + Cardinality(missed)

-----------------------------------------------------------------------------
(***************************************************************************)
(* What documents say and the code violates.                               *)
(***************************************************************************)

\* _merge_device: "Updates last_seen, fills null fields only, never overwrites
\* non-null."
NeverOverwritten ==
    [][\A a \in Addresses :
          Present(a) /\ Present(a)' /\ devices[a].id = devices'[a].id
            /\ devices[a].firmware # Unknown
          => devices'[a].firmware = devices[a].firmware]_vars

\* create_device: "If a device with the same MAC+IP already exists, raises
\* DuplicateDeviceError"; it is not inserted then, which would lose the whole
\* transaction.
DuplicatesAreRefused ==
    \A h \in Handlers : pc[h] = "insert" => Here(h) = NoDevice

\* _handle_passive_discovery: "commit within 500ms of receipt".  What was
\* handled is there, whatever becomes of other handlers' statements.
HandledStays ==
    \A h \in Handlers : pc[h] = "done" /\ deletions = 0 => Here(h) # NoDevice
=============================================================================
