------------------------ MODULE DiscoveryPipelineProofs -----------------------
(***************************************************************************)
(* Theorems about module DiscoveryPipeline, for any number of handlers,    *)
(* any addresses, protocols, versions, limits and bounds: its type         *)
(* invariant with the limit of protocols, that nothing enters the          *)
(* inventory unannounced but what a handler brings that a deletion has     *)
(* overtaken, that the audit history of the protocols is linear, that what *)
(* was handled is in the inventory until the shared transaction is lost,   *)
(* and that the history of a device is trimmed to its limit.  The last     *)
(* part is about the other task of the change detector, module             *)
(* DisappearanceCheck, for any devices, callers and timeouts: one alert    *)
(* per absence.                                                            *)
(***************************************************************************)
EXTENDS DiscoveryPipeline, DisappearanceCheck, FiniteSetTheorems, TLAPS

(***************************************************************************)
(* The states in which a handler has dispatched its alerts.                *)
(***************************************************************************)
PastAlerts == (Statements \ {"lookup"}) \cup Unwritten

AlertedInv ==
    \A h \in Handlers :
        /\ pc[h] \in PastAlerts =>
              fingerprint[h].protocol \in Explained(Address(h))
        /\ pc[h] = "alerting" =>
              \/ toSend[h] = <<"new_protocol">>
              \/ /\ toSend[h] = <<>>
                 /\ fingerprint[h].protocol \in Explained(Address(h))

\* What is committed was announced, too.
CommittedInv ==
    \A a \in Addresses :
        stored[a] # NoDevice => stored[a].protocols \subseteq Explained(a)

PipelineInv ==
    TypeOK /\ NothingUnannounced /\ AlertedInv /\ AuditIsLinear /\ CommittedInv

InventoryInv == NothingUnannounced /\ AuditIsLinear /\ CommittedInv

\* A step that neither commits nor deletes nor announces anything.
Settled == UNCHANGED <<fingerprint, stored, announced, overtaken>>

\* What a step leaves typed that changes handler h only.
StepTypes ==
    /\ pc' \in [Handlers -> States]
    /\ field' \in [Handlers -> {"firmware", "protocols"}]
    /\ devices' \in [Addresses -> Device \cup {NoDevice}]
    /\ history' \in [Addresses -> Entries]

LEMMA AddressType ==
    ASSUME TypeOK, NEW h \in Handlers
    PROVE  /\ Address(h) \in Addresses
           /\ fingerprint[h].protocol \in Protocols
           /\ fingerprint[h].firmware \in Versions \cup {Unknown}
           /\ Here(h) \in Device \cup {NoDevice}
           /\ EntriesHere(h) \in Entries
           /\ Here(h) # NoDevice => Here(h) \in Device
  BY DEF TypeOK, Fingerprint, Address, Here, EntriesHere

LEMMA SettledExplained ==
    ASSUME Settled
    PROVE  \A a \in Addresses : Explained(a)' = Explained(a)
  BY DEF Settled, Explained, Address

LEMMA SettledCommitted ==
    ASSUME Settled, CommittedInv
    PROVE  CommittedInv'
  BY SettledExplained DEF CommittedInv, Settled

-----------------------------------------------------------------------------
(***************************************************************************)
(* The inventory, one kind of change after the other.                      *)
(***************************************************************************)

\* An entry is added, for a field other than the protocols.
LEMMA OtherEntry ==
    ASSUME TypeOK, InventoryInv, NEW a \in Addresses, NEW device \in Device,
           NEW entries \in Entries, Present(a),
           device.protocols = devices[a].protocols,
           \A e \in entries : e.field = "protocols" => e \in history[a],
           devices' = [devices EXCEPT ![a] = device],
           history' = [history EXCEPT ![a] = entries],
           Settled
    PROVE  InventoryInv'
  <1>1. Present(a)' /\ devices'[a] = device /\ history'[a] = entries
    BY PipelineAssumption DEF TypeOK, Present
  <1>2. \A b \in Addresses : b # a => devices'[b] = devices[b]
                                        /\ history'[b] = history[b]
    BY DEF TypeOK
  <1>3. NothingUnannounced'
    BY <1>1, <1>2, SettledExplained DEF InventoryInv, NothingUnannounced, Present
  <1>4. AuditIsLinear'
    BY <1>1, <1>2 DEF InventoryInv, AuditIsLinear, Present
  <1> QED
    BY <1>3, <1>4, SettledCommitted DEF InventoryInv

\* A protocol is added, with its entry.
LEMMA ProtocolEntry ==
    ASSUME TypeOK, InventoryInv, NEW a \in Addresses, NEW device \in Device,
           NEW kept \in SUBSET history[a], Present(a),
           NEW p \in Explained(a), NEW entry,
           device.protocols = devices[a].protocols \cup {p},
           p \notin devices[a].protocols,
           entry.old = devices[a].protocols,
           entry.new = device.protocols,
           devices' = [devices EXCEPT ![a] = device],
           history' = [history EXCEPT ![a] = kept \cup {entry}],
           Settled
    PROVE  InventoryInv'
  <1>1. Present(a)' /\ devices'[a] = device
          /\ history'[a] = kept \cup {entry}
    BY PipelineAssumption DEF TypeOK, Present
  <1>2. \A b \in Addresses : b # a => devices'[b] = devices[b]
                                        /\ history'[b] = history[b]
    BY DEF TypeOK
  <1>3. NothingUnannounced'
    BY <1>1, <1>2, SettledExplained DEF InventoryInv, NothingUnannounced, Present
  <1>4. ASSUME NEW b \in Addresses,
               NEW e \in history'[b], e.field = "protocols"
        PROVE  /\ e.old # e.new /\ e.old \subseteq e.new
               /\ Present(b)' /\ e.new \subseteq devices'[b].protocols
    BY <1>1, <1>2, <1>4 DEF InventoryInv, AuditIsLinear, Present
  <1>5. ASSUME NEW b \in Addresses,
               NEW e \in history'[b], e.field = "protocols",
               NEW f \in history'[b], f.field = "protocols", e # f
        PROVE  e.new \subseteq f.old \/ f.new \subseteq e.old
    BY <1>1, <1>2, <1>5 DEF InventoryInv, AuditIsLinear, Present
  <1>6. AuditIsLinear'
    BY <1>4, <1>5 DEF AuditIsLinear
  <1> QED
    BY <1>3, <1>6, SettledCommitted DEF InventoryInv

\* Nothing is stored at an address, or nothing any more.
LEMMA NoEntries ==
    ASSUME TypeOK, InventoryInv, NEW a \in Addresses,
           NEW device \in Device \cup {NoDevice},
           device = NoDevice \/ device.protocols \subseteq Explained(a),
           \A e \in history'[a] : e.field # "protocols",
           devices' = [devices EXCEPT ![a] = device],
           \A b \in Addresses : b # a => history'[b] = history[b],
           Settled
    PROVE  InventoryInv'
  <1>1. devices'[a] = device
          /\ \A b \in Addresses : b # a => devices'[b] = devices[b]
    BY DEF TypeOK
  <1>2. NothingUnannounced'
    BY <1>1, SettledExplained DEF InventoryInv, NothingUnannounced, Present
  <1>3. AuditIsLinear'
    BY <1>1 DEF InventoryInv, AuditIsLinear, Present
  <1> QED
    BY <1>2, <1>3, SettledCommitted DEF InventoryInv

LEMMA SameInventory ==
    ASSUME InventoryInv, UNCHANGED <<devices, history, stored>>,
           \A a \in Addresses : Explained(a) \subseteq Explained(a)'
    PROVE  InventoryInv'
  <1>1. NothingUnannounced' /\ AuditIsLinear'
    BY DEF InventoryInv, NothingUnannounced, AuditIsLinear, Present
  <1>2. CommittedInv'
    BY DEF InventoryInv, CommittedInv
  <1> QED
    BY <1>1, <1>2 DEF InventoryInv

-----------------------------------------------------------------------------
(***************************************************************************)
(* The parts of a merge.                                                   *)
(***************************************************************************)
EntryAdded(h, entries, f, old, new) ==
    \E entry \in Entry :
        /\ entry.field = f /\ entry.old = old /\ entry.new = new
        /\ entries \cup {entry} \in Entries
        /\ history' = [history EXCEPT ![Address(h)] = entries \cup {entry}]
        /\ history' \in [Addresses -> Entries]
        /\ field' \in [Handlers -> {"firmware", "protocols"}]
        /\ pc' = [pc EXCEPT ![h] = "count"]

LEMMA NewEntry ==
    ASSUME TypeOK, NEW h \in Handlers, NEW entries \in Entries,
           NEW f \in {"firmware", "protocols"},
           NEW old \in SUBSET (Protocols \cup Versions),
           NEW new \in SUBSET (Protocols \cup Versions),
           now' \in [Handlers -> Nat],
           Record(h, entries, f, old, new)
    PROVE  EntryAdded(h, entries, f, old, new)
  <1> DEFINE entry == [by |-> h, field |-> f, at |-> now'[h],
                       old |-> old, new |-> new]
  <1>1. entry \in Entry
    BY DEF Entry
  <1>2. entries \cup {entry} \in Entries
    BY <1>1, FS_AddElement DEF Entries
  <1>3. history' = [history EXCEPT ![Address(h)] = entries \cup {entry}]
    BY DEF Record
  <1>4. history' \in [Addresses -> Entries]
    BY <1>2, <1>3, AddressType DEF TypeOK
  <1>5. /\ field' \in [Handlers -> {"firmware", "protocols"}]
        /\ pc' = [pc EXCEPT ![h] = "count"]
    BY DEF Record, Go, TypeOK
  <1>6. entry.field = f /\ entry.old = old /\ entry.new = new
    OBVIOUS
  <1> HIDE DEF entry
  <1> QED
    BY <1>1, <1>2, <1>3, <1>4, <1>5, <1>6 DEF EntryAdded

LEMMA MergedType ==
    ASSUME TypeOK, NEW h \in Handlers, NEW device \in Device,
           ~TooMany(Merged(h, device))
    PROVE  [device EXCEPT !.protocols = Merged(h, device)] \in Device
  <1> DEFINE merged == Merged(h, device)
  <1>1. IsFiniteSet(device.protocols) /\ device.protocols \in SUBSET Protocols
    BY DEF Device
  <1>2. IsFiniteSet(merged) /\ merged \in SUBSET Protocols
    BY <1>1, FS_AddElement, AddressType DEF Merged
  <1>3. Cardinality(merged) \in Nat
    BY <1>2, FS_CardinalityType
  <1>4. Cardinality(merged) <= MaxProtocols
    BY <1>3, PipelineAssumption DEF TooMany
  <1> HIDE DEF merged
  <1> QED
    BY <1>2, <1>4 DEF Device, merged

\* What the last part of the merge leaves, wherever it is reached from.
LEMMA MergeStep ==
    ASSUME TypeOK, InventoryInv, NEW h \in Handlers, NEW device \in Device,
           NEW entries \in Entries, Here(h) # NoDevice,
           device.protocols = Here(h).protocols,
           entries \subseteq EntriesHere(h),
           fingerprint[h].protocol \in Explained(Address(h)),
           now' \in [Handlers -> Nat], Settled,
           MergeProtocols(h, device, entries)
    PROVE  /\ StepTypes
           /\ InventoryInv'
           /\ pc' \in {[pc EXCEPT ![h] = "flush"], [pc EXCEPT ![h] = "count"],
                       [pc EXCEPT ![h] = "unflushed"]}
  <1> DEFINE a == Address(h)
             p == fingerprint[h].protocol
             merged == Merged(h, device)
             larger == [device EXCEPT !.protocols = merged]
  <1>1. a \in Addresses /\ p \in Protocols /\ Present(a)
        /\ device.protocols = devices[a].protocols
        /\ entries \subseteq history[a]
    BY AddressType DEF Here, EntriesHere, Present
  <1>2. CASE /\ devices' = [devices EXCEPT ![a] = device]
             /\ history' = [history EXCEPT ![a] = entries]
             /\ UNCHANGED field
             /\ pc' \in {[pc EXCEPT ![h] = "flush"],
                         [pc EXCEPT ![h] = "unflushed"]}
    <2>1. StepTypes
      BY <1>1, <1>2 DEF StepTypes, TypeOK, States, Statements, Unwritten
    <2>2. InventoryInv'
      BY <1>1, <1>2, OtherEntry
    <2> QED
      BY <1>2, <2>1, <2>2
  <1>3. CASE /\ merged # device.protocols
             /\ ~TooMany(merged)
             /\ devices' = [devices EXCEPT ![a] = larger]
             /\ Record(h, entries, "protocols", OldProtocols(h, device), merged)
    <2>1. larger \in Device
      BY <1>3, MergedType
    <2>2. /\ device.protocols \in SUBSET (Protocols \cup Versions)
          /\ merged \in SUBSET (Protocols \cup Versions)
          /\ Record(h, entries, "protocols", device.protocols, merged)
      BY <1>1, <1>3 DEF Device, Merged, OldProtocols
    <2> HIDE DEF merged
    <2>e. EntryAdded(h, entries, "protocols", device.protocols, merged)
      BY <2>2, NewEntry
    <2>3. PICK entry \in Entry :
             /\ entry.field = "protocols" /\ entry.old = device.protocols
             /\ entry.new = merged
             /\ history' = [history EXCEPT ![a] = entries \cup {entry}]
             /\ history' \in [Addresses -> Entries]
             /\ field' \in [Handlers -> {"firmware", "protocols"}]
             /\ pc' = [pc EXCEPT ![h] = "count"]
      BY <2>e DEF EntryAdded
    <2>4. StepTypes
      BY <1>1, <1>3, <2>1, <2>3 DEF StepTypes, TypeOK, States, Statements, Unwritten
    <2>5. /\ larger.protocols = devices[a].protocols \cup {p}
          /\ larger.protocols = merged
          /\ p \notin devices[a].protocols
      BY <1>1, <1>3 DEF merged, Merged, Device
    <2> HIDE DEF larger
    <2>6. InventoryInv'
      BY <1>1, <1>3, <2>1, <2>3, <2>5, ProtocolEntry
    <2> QED
      BY <2>3, <2>4, <2>6
  <1> QED
    BY <1>2, <1>3 DEF MergeProtocols, Go

LEMMA RecordedStep ==
    ASSUME TypeOK, InventoryInv, NEW h \in Handlers, NEW entries \in Entries,
           Here(h) # NoDevice, entries \subseteq EntriesHere(h),
           fingerprint[h].protocol \in Explained(Address(h)),
           Settled,
           HistoryRecorded(h, entries),
           pc[h] \in {"count", "select", "delete"}
    PROVE  /\ StepTypes
           /\ InventoryInv'
           /\ pc' \in {[pc EXCEPT ![h] = "flush"], [pc EXCEPT ![h] = "count"],
                       [pc EXCEPT ![h] = "unflushed"]}
  <1>0. now' \in [Handlers -> Nat]
    BY DEF HistoryRecorded, TypeOK
  <1>1. CASE MergeProtocols(h, [Here(h) EXCEPT !.firmware =
                                                 fingerprint[h].firmware],
                            entries)
    <2> DEFINE device == [Here(h) EXCEPT !.firmware = fingerprint[h].firmware]
    <2>1. device \in Device /\ device.protocols = Here(h).protocols
      BY AddressType DEF Device
    <2> HIDE DEF device
    <2> QED
      BY <1>0, <1>1, <2>1, MergeStep DEF device
  <1>2. CASE /\ history' = [history EXCEPT ![Address(h)] = entries]
             /\ Go(h, "flush")
             /\ UNCHANGED <<devices, field>>
    <2>1. /\ devices' = [devices EXCEPT ![Address(h)] = Here(h)]
          /\ pc' = [pc EXCEPT ![h] = "flush"]
      BY <1>2 DEF Go, TypeOK, Here
    <2>2. StepTypes
      BY <1>2, <2>1, AddressType DEF StepTypes, TypeOK, States, Statements, Unwritten
    <2>3. Here(h) \in Device /\ Address(h) \in Addresses
          /\ Here(h) = devices[Address(h)] /\ Present(Address(h))
          /\ entries \subseteq history[Address(h)]
      BY AddressType DEF Here, EntriesHere, Present
    <2>4. InventoryInv'
      BY <1>2, <2>1, <2>3, OtherEntry
    <2> QED
      BY <2>1, <2>2, <2>4
  <1> QED
    BY <1>1, <1>2 DEF HistoryRecorded

LEMMA MergeBegins ==
    ASSUME TypeOK, InventoryInv, NEW h \in Handlers, Here(h) # NoDevice,
           fingerprint[h].protocol \in Explained(Address(h)),
           Settled, Merge(h)
    PROVE  /\ StepTypes
           /\ now' \in [Handlers -> Nat] /\ held' \in [Handlers -> Nat]
           /\ clock' \in Nat
           /\ InventoryInv'
           /\ pc' \in {[pc EXCEPT ![h] = "flush"], [pc EXCEPT ![h] = "count"],
                       [pc EXCEPT ![h] = "unflushed"]}
  <1>1. Here(h) \in Device /\ Address(h) \in Addresses
        /\ Here(h) = devices[Address(h)] /\ Present(Address(h))
        /\ EntriesHere(h) = history[Address(h)]
        /\ EntriesHere(h) \in Entries
    BY AddressType DEF Here, EntriesHere, Present
  <1>2. /\ now' \in [Handlers -> Nat] /\ held' \in [Handlers -> Nat]
        /\ clock' \in Nat
    BY <1>1 DEF Merge, TypeOK, Device
  <1>3. CASE MergeProtocols(h, Here(h), EntriesHere(h))
    BY <1>1, <1>2, <1>3, MergeStep
  <1>4. CASE /\ fingerprint[h].firmware # Unknown
             /\ Record(h, EntriesHere(h), "firmware", {},
                       {fingerprint[h].firmware})
             /\ UNCHANGED devices
    <2>1. /\ {} \in SUBSET (Protocols \cup Versions)
          /\ {fingerprint[h].firmware} \in SUBSET (Protocols \cup Versions)
      BY <1>4, AddressType
    <2>2. EntryAdded(h, EntriesHere(h), "firmware", {},
                     {fingerprint[h].firmware})
      BY <1>1, <1>2, <1>4, <2>1, NewEntry
    <2>3. PICK entry \in Entry :
             /\ entry.field = "firmware"
             /\ EntriesHere(h) \cup {entry} \in Entries
             /\ history' = [history EXCEPT ![Address(h)] =
                               EntriesHere(h) \cup {entry}]
             /\ history' \in [Addresses -> Entries]
             /\ field' \in [Handlers -> {"firmware", "protocols"}]
             /\ pc' = [pc EXCEPT ![h] = "count"]
      BY <2>2 DEF EntryAdded
    <2>4. StepTypes
      BY <1>1, <1>4, <2>3 DEF StepTypes, TypeOK, States, Statements, Unwritten
    <2>5. devices' = [devices EXCEPT ![Address(h)] = Here(h)]
      BY <1>1, <1>4 DEF TypeOK
    <2>6. \A e \in EntriesHere(h) \cup {entry} :
             e.field = "protocols" => e \in history[Address(h)]
      BY <1>1, <2>3
    <2>7. InventoryInv'
      BY <1>1, <2>3, <2>5, <2>6, OtherEntry
    <2> QED
      BY <1>2, <2>3, <2>4, <2>7
  <1> QED
    BY <1>2, <1>3, <1>4 DEF Merge

-----------------------------------------------------------------------------
(***************************************************************************)
(* One lemma per kind of step.                                             *)
(***************************************************************************)
LEMMA NewDevice ==
    ASSUME NEW n \in Nat, NEW f \in Versions \cup {Unknown},
           NEW p \in Protocols
    PROVE  [id |-> n, firmware |-> f, protocols |-> {p}] \in Device
  <1>1. IsFiniteSet({p}) /\ Cardinality({p}) = 1
    BY FS_Singleton
  <1>2. Cardinality({p}) <= MaxProtocols
    BY <1>1, PipelineAssumption
  <1> DEFINE protocols == {p}
  <1>3. protocols \in {P \in SUBSET Protocols :
                         IsFiniteSet(P) /\ Cardinality(P) <= MaxProtocols}
    BY <1>1, <1>2
  <1> HIDE DEF protocols
  <1>4. [id |-> n, firmware |-> f, protocols |-> protocols] \in Device
    BY <1>3 DEF Device
  <1> QED
    BY <1>4 DEF protocols

LEMMA InitPipeline == Init => PipelineInv
  <1> SUFFICES ASSUME Init
               PROVE  PipelineInv
    OBVIOUS
  <1>2. devices \in [Addresses -> Device \cup {NoDevice}]
    BY PipelineAssumption DEF Init
  <1>3. {} \in Entries
    BY FS_EmptySet DEF Entries
  <1>4. announced \in [Addresses -> SUBSET Protocols]
    BY <1>2 DEF Init, Device
  <1>5. TypeOK
    <2>1. /\ pc \in [Handlers -> States]
          /\ held \in [Handlers -> Nat] /\ now \in [Handlers -> Nat]
          /\ field \in [Handlers -> {"firmware", "protocols"}]
          /\ excess \in [Handlers -> Nat]
          /\ doomed \in [Handlers -> SUBSET Entry]
          /\ ids \in Nat /\ clock \in Nat
      BY DEF Init, States
    <2>2. fingerprint \in [Handlers -> Fingerprint]
      BY PipelineAssumption DEF Init
    <2>3. toSend \in [Handlers -> Seq(AlertTypes)]
      BY DEF Init
    <2>4. history \in [Addresses -> Entries] /\ missed \in Entries
      BY <1>3 DEF Init
    <2>5. /\ deletions \in 0 .. MaxDeletions
          /\ written \subseteq Addresses /\ usable \in BOOLEAN
          /\ overtaken \subseteq Handlers
          /\ stored \in [Addresses -> Device \cup {NoDevice}]
      BY <1>2, PipelineAssumption DEF Init
    <2> QED
      BY <1>2, <1>4, <2>1, <2>2, <2>3, <2>4, <2>5 DEF TypeOK
  <1>6. NothingUnannounced /\ CommittedInv
    BY DEF Init, NothingUnannounced, CommittedInv, Present, Explained
  <1>7. AlertedInv
    BY DEF Init, AlertedInv, PastAlerts, Statements, Unwritten
  <1>8. AuditIsLinear
    BY DEF Init, AuditIsLinear
  <1> QED
    BY <1>5, <1>6, <1>7, <1>8 DEF PipelineInv

\* A handler that has dispatched its alerts goes on.
LEMMA StillAlerted ==
    ASSUME TypeOK, AlertedInv, NEW h \in Handlers, NEW state,
           state # "alerting",
           state \in PastAlerts =>
               fingerprint[h].protocol \in Explained(Address(h)),
           pc' = [pc EXCEPT ![h] = state],
           Settled, UNCHANGED toSend
    PROVE  AlertedInv'
  BY SettledExplained, AddressType DEF AlertedInv, TypeOK, Address, Settled

LEMMA BothAlerts ==
    <<"firmware_change">> \o <<"new_protocol">>
      = <<"firmware_change", "new_protocol">>
  <1> DEFINE both == <<"firmware_change">> \o <<"new_protocol">>
  <1>1. /\ Len(both) = 2
        /\ both[1] = "firmware_change" /\ both[2] = "new_protocol"
    OBVIOUS
  <1>2. both \in Seq({"firmware_change", "new_protocol"})
    OBVIOUS
  <1> HIDE DEF both
  <1>3. both = [i \in 1 .. 2 |-> both[i]]
    BY <1>1, <1>2
  <1>4. both = [i \in 1 .. 2 |-> <<"firmware_change", "new_protocol">>[i]]
    BY <1>1, <1>3
  <1>5. both = <<"firmware_change", "new_protocol">>
    BY <1>4
  <1> QED
    BY <1>5 DEF both

\* The alerts of the change detector name every protocol that is new.
LEMMA AlertLists ==
    ASSUME TypeOK, NothingUnannounced, NEW h \in Handlers
    PROVE  \/ AlertsFor(h) \in {<<"new_device">>, <<"new_protocol">>,
                                <<"firmware_change", "new_protocol">>}
           \/ /\ AlertsFor(h) \in {<<>>, <<"firmware_change">>}
              /\ fingerprint[h].protocol \in Explained(Address(h))
  <1>1. CASE Here(h) = NoDevice
    BY <1>1 DEF AlertsFor
  <1>2. CASE Here(h) # NoDevice
    <2>1. AlertsFor(h) = FirmwareChange(h) \o NewProtocol(h)
      BY <1>2 DEF AlertsFor
    <2>2. FirmwareChange(h) \in {<<>>, <<"firmware_change">>}
      BY DEF FirmwareChange
    <2>3. \/ NewProtocol(h) = <<"new_protocol">>
          \/ /\ NewProtocol(h) = <<>>
             /\ fingerprint[h].protocol \in Here(h).protocols
      BY DEF NewProtocol
    <2>4. fingerprint[h].protocol \in Here(h).protocols =>
             fingerprint[h].protocol \in Explained(Address(h))
      BY <1>2, AddressType DEF NothingUnannounced, Present, Here
    <2>5. /\ <<>> \o <<"new_protocol">> = <<"new_protocol">>
          /\ <<>> \o <<>> = <<>>
          /\ <<"firmware_change">> \o <<>> = <<"firmware_change">>
      OBVIOUS
    <2>6. <<"firmware_change">> \o <<"new_protocol">>
             = <<"firmware_change", "new_protocol">>
      BY BothAlerts
    <2> QED
      BY <2>1, <2>2, <2>3, <2>4, <2>5, <2>6
  <1> QED
    BY <1>1, <1>2

\* The lists of alerts that a handler can have in front of it.
Lists == {<<>>, <<"new_device">>, <<"firmware_change">>, <<"new_protocol">>,
          <<"firmware_change", "new_protocol">>}

LEMMA NextAlert ==
    ASSUME NEW list \in Lists, list # <<>>
    PROVE  /\ Tail(list) \in {<<>>, <<"new_protocol">>}
           /\ Tail(list) \in Seq(AlertTypes)
           /\ Tail(list) = <<>> =>
                 Head(list) # "firmware_change" \/ list = <<"firmware_change">>
  <1>1. /\ Tail(<<"new_device">>) = <<>>
        /\ Tail(<<"firmware_change">>) = <<>>
        /\ Tail(<<"new_protocol">>) = <<>>
        /\ Tail(<<"firmware_change", "new_protocol">>) = <<"new_protocol">>
        /\ Head(<<"new_device">>) = "new_device"
        /\ Head(<<"new_protocol">>) = "new_protocol"
    OBVIOUS
  <1>2. <<>> \in Seq(AlertTypes) /\ <<"new_protocol">> \in Seq(AlertTypes)
    BY DEF AlertTypes
  <1>3. <<>> # <<"new_protocol">>
    OBVIOUS
  <1>4. Tail(list) \in {<<>>, <<"new_protocol">>}
    BY <1>1 DEF Lists
  <1>5. Tail(list) \in Seq(AlertTypes)
    BY <1>2, <1>4
  <1>6. Tail(list) = <<>> =>
           Head(list) # "firmware_change" \/ list = <<"firmware_change">>
    BY <1>1, <1>3 DEF Lists
  <1> QED
    BY <1>4, <1>5, <1>6

LEMMA DistinctLists ==
    /\ <<"new_device">> \notin {<<>>, <<"firmware_change">>}
    /\ <<"new_protocol">> \notin {<<>>, <<"firmware_change">>}
    /\ <<"firmware_change", "new_protocol">>
         \notin {<<>>, <<"firmware_change">>}
  OBVIOUS

LEMMA SendStep ==
    ASSUME PipelineInv, NEW h \in Handlers, NEW list \in Lists,
           list \in {<<>>, <<"firmware_change">>} =>
               fingerprint[h].protocol \in Explained(Address(h)),
           SendNext(h, list),
           UNCHANGED <<fingerprint, held, merging, tables, counters,
                       overtaken, missed>>
    PROVE  PipelineInv'
  <1> DEFINE a == Address(h)
             p == fingerprint[h].protocol
  <1>1. a \in Addresses /\ p \in Protocols
    BY AddressType DEF PipelineInv
  <1>2. CASE list # <<>>
    <2>1. /\ toSend' = [toSend EXCEPT ![h] = Tail(list)]
          /\ pc' = [pc EXCEPT ![h] = "alerting"]
          /\ announced' = IF Head(list) = "firmware_change" THEN announced
                          ELSE [announced EXCEPT ![a] = @ \cup {p}]
      BY <1>2 DEF SendNext, Go
    <2>2. /\ Tail(list) \in {<<>>, <<"new_protocol">>}
          /\ Tail(list) = <<>> =>
                Head(list) # "firmware_change" \/ list = <<"firmware_change">>
      BY <1>2, NextAlert
    <2>3. Tail(list) \in Seq(AlertTypes)
      BY <1>2, NextAlert
    <2>4. announced' \in [Addresses -> SUBSET Protocols]
      BY <1>1, <2>1 DEF PipelineInv, TypeOK
    <2>5. \A b \in Addresses : announced[b] \subseteq announced'[b]
      BY <1>1, <2>1 DEF PipelineInv, TypeOK
    <2>e. \A b \in Addresses : Explained(b) \subseteq Explained(b)'
      BY <2>5 DEF Explained, Address
    <2>6. Tail(list) = <<>> => p \in Explained(a)'
      <3>1. announced'[a] \subseteq Explained(a)'
        BY DEF Explained, Address
      <3>2. CASE Head(list) # "firmware_change"
        BY <1>1, <2>1, <3>1, <3>2 DEF PipelineInv, TypeOK
      <3>3. CASE list = <<"firmware_change">>
        <4>1. p \in Explained(a)
          BY <3>3
        <4>2. Explained(a) \subseteq Explained(a)'
          BY <1>1, <2>e DEF Address
        <4> QED
          BY <4>1, <4>2
      <3> QED
        BY <2>2, <3>2, <3>3
    <2>7. TypeOK'
      BY <2>1, <2>3, <2>4
         DEF PipelineInv, TypeOK, merging, tables, counters, States
    <2>8. InventoryInv'
      BY <2>e, SameInventory DEF PipelineInv, InventoryInv, tables
    <2>9. AlertedInv'
      <3> SUFFICES ASSUME NEW g \in Handlers
                   PROVE  /\ pc'[g] \in PastAlerts =>
                                fingerprint[g].protocol
                                  \in Explained(Address(g))'
                          /\ pc'[g] = "alerting" =>
                                \/ toSend'[g] = <<"new_protocol">>
                                \/ /\ toSend'[g] = <<>>
                                   /\ fingerprint[g].protocol
                                        \in Explained(Address(g))'
        BY DEF AlertedInv, Address
      <3>1. CASE g = h
        BY <2>1, <2>2, <2>6, <3>1
           DEF PipelineInv, TypeOK, PastAlerts, Statements, Unwritten
      <3>2. CASE g # h
        <4>1. pc'[g] = pc[g] /\ toSend'[g] = toSend[g]
          BY <2>1, <3>2 DEF PipelineInv, TypeOK
        <4>2. Address(g) \in Addresses
          BY AddressType DEF PipelineInv
        <4> QED
          BY <2>e, <4>1, <4>2 DEF PipelineInv, AlertedInv, Address
      <3> QED
        BY <3>1, <3>2
    <2> QED
      BY <2>7, <2>8, <2>9 DEF PipelineInv, InventoryInv
  <1>3. CASE list = <<>>
    <2>1. /\ pc' = [pc EXCEPT ![h] = "find"]
          /\ UNCHANGED <<toSend, announced>>
      BY <1>3 DEF SendNext, Go
    <2>2. TypeOK'
      BY <2>1
         DEF PipelineInv, TypeOK, merging, tables, counters, States, Statements
    <2>5. Settled
      BY <2>1 DEF Settled, tables
    <2>3. InventoryInv'
      BY <2>5, SettledExplained, SameInventory
         DEF PipelineInv, InventoryInv, tables
    <2>4. AlertedInv'
      BY <1>3, <2>1, <2>5, StillAlerted DEF PipelineInv
    <2> QED
      BY <2>2, <2>3, <2>4 DEF PipelineInv, InventoryInv
  <1> QED
    BY <1>2, <1>3

\* The variables that are only typed.
OtherTypes ==
    /\ held' \in [Handlers -> Nat] /\ now' \in [Handlers -> Nat]
    /\ excess' \in [Handlers -> Nat] /\ doomed' \in [Handlers -> SUBSET Entry]
    /\ ids' \in Nat /\ clock' \in Nat /\ deletions' \in 0 .. MaxDeletions
    /\ written' \subseteq Addresses /\ usable' \in BOOLEAN
    /\ missed' \in Entries

\* A step of a handler that is not about its alerts.
LEMMA HandlerStep ==
    ASSUME PipelineInv, NEW h \in Handlers, NEW state \in States,
           state # "alerting",
           state \in PastAlerts =>
               fingerprint[h].protocol \in Explained(Address(h)),
           pc' = [pc EXCEPT ![h] = state],
           Settled, UNCHANGED toSend,
           StepTypes, OtherTypes, InventoryInv'
    PROVE  PipelineInv'
  <1>1. TypeOK'
    BY DEF PipelineInv, TypeOK, StepTypes, OtherTypes, Settled
  <1>2. AlertedInv'
    BY StillAlerted DEF PipelineInv
  <1> QED
    BY <1>1, <1>2 DEF PipelineInv, InventoryInv

\* A step of a handler that changes nothing else, or writes its row.
LEMMA QuietStep ==
    ASSUME PipelineInv, NEW h \in Handlers, NEW state \in States,
           state # "alerting",
           state \in PastAlerts =>
               fingerprint[h].protocol \in Explained(Address(h)),
           pc' = [pc EXCEPT ![h] = state],
           UNCHANGED <<fingerprint, toSend, held, merging, devices, history,
                       stored, usable, counters, notes>>,
           written' \subseteq Addresses
    PROVE  PipelineInv'
  <1>1. StepTypes
    BY DEF PipelineInv, TypeOK, StepTypes, merging
  <1>2. OtherTypes
    BY DEF PipelineInv, TypeOK, OtherTypes, merging, counters, notes
  <1>4. Settled
    BY DEF Settled, notes
  <1>3. InventoryInv'
    BY <1>4, SettledExplained, SameInventory DEF PipelineInv, InventoryInv
  <1> QED
    BY <1>1, <1>2, <1>3, <1>4, HandlerStep

LEMMA ArriveStep ==
    ASSUME PipelineInv, NEW h \in Handlers, Arrive(h)
    PROVE  PipelineInv'
  <1>1. "lookup" \in States /\ "lookup" \notin PastAlerts
    BY DEF States, Statements, PastAlerts, Unwritten
  <1>2. pc' = [pc EXCEPT ![h] = "lookup"]
    BY DEF Arrive, Go
  <1>3. written' \subseteq Addresses
    BY DEF Arrive, tables, PipelineInv, TypeOK
  <1> QED
    BY <1>1, <1>2, <1>3, QuietStep DEF Arrive, tables

LEMMA LookedUpStep ==
    ASSUME PipelineInv, NEW h \in Handlers, LookedUp(h)
    PROVE  PipelineInv'
  <1>1. \/ AlertsFor(h) \in {<<"new_device">>, <<"new_protocol">>,
                             <<"firmware_change", "new_protocol">>}
        \/ /\ AlertsFor(h) \in {<<>>, <<"firmware_change">>}
           /\ fingerprint[h].protocol \in Explained(Address(h))
    BY AlertLists DEF PipelineInv
  <1>2. AlertsFor(h) \in Lists
    BY <1>1 DEF Lists
  <1>3. AlertsFor(h) \in {<<>>, <<"firmware_change">>} =>
           fingerprint[h].protocol \in Explained(Address(h))
    BY <1>1, DistinctLists
  <1> QED
    BY <1>2, <1>3, SendStep DEF LookedUp

LEMMA AlertSentStep ==
    ASSUME PipelineInv, NEW h \in Handlers, AlertSent(h)
    PROVE  PipelineInv'
  <1>1. pc[h] = "alerting"
    BY DEF AlertSent
  <1>2. \/ toSend[h] = <<"new_protocol">>
        \/ /\ toSend[h] = <<>>
           /\ fingerprint[h].protocol \in Explained(Address(h))
    BY <1>1 DEF PipelineInv, AlertedInv
  <1>3. toSend[h] \in Lists
    BY <1>2 DEF Lists
  <1>4. toSend[h] \in {<<>>, <<"firmware_change">>} =>
           fingerprint[h].protocol \in Explained(Address(h))
    BY <1>2, DistinctLists
  <1> QED
    BY <1>3, <1>4, SendStep DEF AlertSent

\* Where a handler that has dispatched its alerts is.
LEMMA Alerted ==
    ASSUME PipelineInv, NEW h \in Handlers, pc[h] \in PastAlerts
    PROVE  fingerprint[h].protocol \in Explained(Address(h))
  BY DEF PipelineInv, AlertedInv

\* What is left to show of a step that may go to three states.
LEMMA MergingStep ==
    ASSUME PipelineInv, NEW h \in Handlers, pc[h] \in PastAlerts,
           pc' \in {[pc EXCEPT ![h] = "flush"], [pc EXCEPT ![h] = "count"],
                    [pc EXCEPT ![h] = "unflushed"]},
           Settled, UNCHANGED toSend,
           StepTypes, OtherTypes, InventoryInv'
    PROVE  PipelineInv'
  <1>1. \A state \in {"flush", "count", "unflushed"} :
           state \in States /\ state # "alerting"
    BY DEF States, Statements, Unwritten
  <1>2. PICK state \in {"flush", "count", "unflushed"} :
           pc' = [pc EXCEPT ![h] = state]
    OBVIOUS
  <1> QED
    BY <1>1, <1>2, Alerted, HandlerStep

LEMMA FoundStep ==
    ASSUME PipelineInv, NEW h \in Handlers, Found(h)
    PROVE  PipelineInv'
  <1>1. pc[h] = "find" /\ pc[h] \in PastAlerts
    BY DEF Found, Awaits, PastAlerts, Statements
  <1>s. Settled
    BY DEF Found, Settled, notes
  <1>2. fingerprint[h].protocol \in Explained(Address(h))
    BY <1>1, Alerted
  <1>3. CASE Here(h) # NoDevice /\ Merge(h)
    <2>1. /\ StepTypes /\ InventoryInv'
          /\ now' \in [Handlers -> Nat] /\ held' \in [Handlers -> Nat]
          /\ clock' \in Nat
          /\ pc' \in {[pc EXCEPT ![h] = "flush"], [pc EXCEPT ![h] = "count"],
                      [pc EXCEPT ![h] = "unflushed"]}
      BY <1>s, <1>2, <1>3, MergeBegins DEF PipelineInv, InventoryInv
    <2>2. UNCHANGED <<excess, doomed>>
      BY <1>3 DEF Merge
    <2>3. OtherTypes
      BY <2>1, <2>2 DEF Found, PipelineInv, TypeOK, OtherTypes, notes
    <2> QED
      BY <1>s, <1>1, <2>1, <2>3, MergingStep DEF Found
  <1>4. CASE /\ Go(h, "check")
             /\ UNCHANGED <<held, merging, devices, history, clock>>
    <2>1. "check" \in States /\ pc' = [pc EXCEPT ![h] = "check"]
      BY <1>4 DEF States, Statements, Go
    <2>2. written' \subseteq Addresses
      BY DEF Found, PipelineInv, TypeOK
    <2> QED
      BY <1>2, <1>4, <2>1, <2>2, QuietStep DEF Found, counters
  <1> QED
    BY <1>3, <1>4 DEF Found

LEMMA CheckedStep ==
    ASSUME PipelineInv, NEW h \in Handlers, Checked(h)
    PROVE  PipelineInv'
  <1>1. pc[h] \in PastAlerts
    BY DEF Checked, Awaits, PastAlerts, Statements
  <1>2. PICK state \in {"failed", "insert"} : pc' = [pc EXCEPT ![h] = state]
    BY DEF Checked, Go
  <1>3. state \in States /\ state # "alerting"
    BY DEF States, Statements
  <1>4. written' \subseteq Addresses
    BY DEF Checked, tables, PipelineInv, TypeOK
  <1> QED
    BY <1>1, <1>2, <1>3, <1>4, Alerted, QuietStep DEF Checked, tables

\* What is left of a lost transaction is what was committed.
LEMMA LostStep ==
    ASSUME PipelineInv, NEW h \in Handlers, TransactionLost(h),
           UNCHANGED <<fingerprint, toSend, held, merging, stored, counters,
                       notes>>
    PROVE  PipelineInv'
  <1>1. /\ "failed" \in States /\ "failed" \notin PastAlerts
        /\ pc' = [pc EXCEPT ![h] = "failed"]
    BY DEF TransactionLost, Go, States, Statements, PastAlerts, Unwritten
  <1>2. {} \in Entries
    BY FS_EmptySet DEF Entries
  <1>3. StepTypes
    BY <1>1, <1>2
       DEF TransactionLost, PipelineInv, TypeOK, StepTypes, merging
  <1>4. OtherTypes
    BY DEF TransactionLost, PipelineInv, TypeOK, OtherTypes, merging,
           counters, notes
  <1>5. Settled
    BY DEF Settled, notes
  <1>6. NothingUnannounced'
    BY <1>5, SettledExplained
       DEF TransactionLost, PipelineInv, CommittedInv, NothingUnannounced,
           Present
  <1>7. AuditIsLinear'
    BY DEF TransactionLost, AuditIsLinear
  <1>8. InventoryInv'
    BY <1>5, <1>6, <1>7, SettledCommitted DEF PipelineInv, InventoryInv
  <1> QED
    BY <1>1, <1>3, <1>4, <1>5, <1>8, HandlerStep

LEMMA InsertedStep ==
    ASSUME PipelineInv, NEW h \in Handlers, Inserted(h)
    PROVE  PipelineInv'
  <1>1. pc[h] \in PastAlerts
    BY DEF Inserted, PastAlerts, Statements, Unwritten
  <1>2. CASE TransactionLost(h) /\ UNCHANGED <<ids, held>>
    BY <1>2, LostStep DEF Inserted, counters
  <1>3. CASE /\ Here(h) = NoDevice
             /\ ids' = ids + 1
             /\ held' = [held EXCEPT ![h] = ids']
             /\ devices' = [devices EXCEPT ![Address(h)] =
                   [id |-> ids', firmware |-> fingerprint[h].firmware,
                    protocols |-> {fingerprint[h].protocol}]]
             /\ Write(h)
             /\ Go(h, IF pc[h] = "insert" THEN "done" ELSE "failed")
             /\ UNCHANGED <<history, usable>>
    <2> DEFINE device == [id |-> ids', firmware |-> fingerprint[h].firmware,
                          protocols |-> {fingerprint[h].protocol}]
    <2>1. /\ ids' \in Nat
          /\ Address(h) \in Addresses
          /\ fingerprint[h].protocol \in Protocols
          /\ fingerprint[h].firmware \in Versions \cup {Unknown}
      BY <1>3, AddressType DEF PipelineInv, TypeOK
    <2>2. device \in Device
      BY <2>1, NewDevice
    <2>s. Settled
      BY DEF Inserted, Settled, notes
    <2>3. device.protocols \subseteq Explained(Address(h))
      BY <1>1, Alerted
    <2>4. devices' = [devices EXCEPT ![Address(h)] = device]
      BY <1>3
    <2> HIDE DEF device
    <2>5. ~Present(Address(h))
      BY <1>3 DEF Here, Present
    <2>6. \A e \in history'[Address(h)] : e.field # "protocols"
      BY <1>3, <2>1, <2>5 DEF PipelineInv, AuditIsLinear
    <2>7. InventoryInv'
      BY <1>3, <2>s, <2>1, <2>2, <2>3, <2>4, <2>6, NoEntries
         DEF PipelineInv, InventoryInv
    <2>8. PICK state \in {"done", "failed"} : pc' = [pc EXCEPT ![h] = state]
      BY <1>3 DEF Go
    <2>t. state \in States /\ state # "alerting"
      BY DEF States
    <2>9. StepTypes
      BY <1>3, <2>1, <2>2, <2>4, <2>8, <2>t
         DEF Inserted, PipelineInv, TypeOK, StepTypes, merging
    <2>10. OtherTypes
      BY <1>3, <2>1
         DEF Inserted, PipelineInv, TypeOK, OtherTypes, merging, notes, Write
    <2> QED
      BY <1>1, <2>s, <2>7, <2>8, <2>t, <2>9, <2>10, Alerted, HandlerStep
         DEF Inserted
  <1> QED
    BY <1>2, <1>3 DEF Inserted

-----------------------------------------------------------------------------
(***************************************************************************)
(* The steps of _enforce_history_limit.                                    *)
(***************************************************************************)

\* History is recorded with fewer entries or as many.
LEMMA TrimmedStep ==
    ASSUME PipelineInv, NEW h \in Handlers, Holds(h),
           pc[h] \in {"count", "select", "delete"},
           NEW entries \in SUBSET EntriesHere(h),
           HistoryRecorded(h, entries),
           excess' \in [Handlers -> Nat],
           doomed' \in [Handlers -> SUBSET Entry],
           written' \subseteq Addresses, missed' \in Entries,
           UNCHANGED <<fingerprint, toSend, held, stored, usable, counters,
                       announced, overtaken>>
    PROVE  PipelineInv'
  <1>1. pc[h] \in PastAlerts
    BY DEF PastAlerts, Statements
  <1>2. entries \in Entries
    BY AddressType, FS_Subset DEF PipelineInv, Entries
  <1>s. Settled
    BY DEF Settled
  <1>3. /\ StepTypes /\ InventoryInv'
        /\ pc' \in {[pc EXCEPT ![h] = "flush"], [pc EXCEPT ![h] = "count"],
                    [pc EXCEPT ![h] = "unflushed"]}
    BY <1>s, <1>1, <1>2, Alerted, RecordedStep
       DEF PipelineInv, InventoryInv, Holds
  <1>4. OtherTypes
    BY DEF HistoryRecorded, PipelineInv, TypeOK, OtherTypes, counters
  <1> QED
    BY <1>s, <1>1, <1>3, <1>4, MergingStep

\* A step that only fills or empties excess and doomed.
LEMMA TrimmingStep ==
    ASSUME PipelineInv, NEW h \in Handlers,
           pc[h] \in {"count", "select", "delete"},
           NEW state \in {"select", "delete"},
           pc' = [pc EXCEPT ![h] = state],
           excess' \in [Handlers -> Nat],
           doomed' \in [Handlers -> SUBSET Entry],
           written' \subseteq Addresses, missed' \in Entries,
           UNCHANGED <<fingerprint, toSend, held, now, field, devices,
                       history, stored, usable, counters, announced,
                       overtaken>>
    PROVE  PipelineInv'
  <1>1. pc[h] \in PastAlerts
    BY DEF PastAlerts, Statements
  <1>2. state \in States /\ state # "alerting"
    BY DEF States, Statements
  <1>3. StepTypes
    BY <1>2 DEF PipelineInv, TypeOK, StepTypes
  <1>4. OtherTypes
    BY DEF PipelineInv, TypeOK, OtherTypes, counters
  <1>s. Settled
    BY DEF Settled
  <1>5. InventoryInv'
    BY <1>s, SettledExplained, SameInventory DEF PipelineInv, InventoryInv
  <1> QED
    BY <1>s, <1>1, <1>2, <1>3, <1>4, <1>5, Alerted, HandlerStep

LEMMA CountedStep ==
    ASSUME PipelineInv, NEW h \in Handlers, Counted(h)
    PROVE  PipelineInv'
  <1>1. pc[h] = "count" /\ Holds(h)
    BY DEF Counted, Awaits
  <1>2. PICK own \in {{}, Latest(h)}, unseen \in SUBSET Unseen(h) :
          LET n == AboveLimit(Cardinality(EntriesHere(h) \ (own \cup unseen)))
          IN  /\ Write(h) \/ UNCHANGED written
              /\ missed' = missed \cup own
              /\ \/ /\ n > 0
                    /\ excess' = [excess EXCEPT ![h] = n]
                    /\ Go(h, "select")
                    /\ UNCHANGED <<devices, history, field, now>>
                 \/ /\ HistoryRecorded(h, EntriesHere(h))
                    /\ UNCHANGED excess
    BY DEF Counted
  <1> DEFINE seen == EntriesHere(h) \ (own \cup unseen)
             n == AboveLimit(Cardinality(seen))
  <1>3. IsFiniteSet(EntriesHere(h)) /\ EntriesHere(h) \subseteq Entry
    BY AddressType DEF PipelineInv, Entries
  <1>4. IsFiniteSet(seen)
    BY <1>3, FS_Subset
  <1>5. n \in Int
    BY <1>4, FS_CardinalityType, PipelineAssumption DEF AboveLimit
  <1>6. own \subseteq EntriesHere(h)
    BY DEF Latest
  <1>7. missed' \in Entries
    <2>1. IsFiniteSet(own) /\ own \subseteq Entry
      BY <1>3, <1>6, FS_Subset
    <2>2. IsFiniteSet(missed \cup own)
      BY <2>1, FS_Union DEF PipelineInv, TypeOK, Entries
    <2> QED
      BY <1>2, <2>1, <2>2 DEF PipelineInv, TypeOK, Entries
  <1>8. written' \subseteq Addresses /\ doomed' \in [Handlers -> SUBSET Entry]
    BY <1>2, AddressType DEF Write, Counted, PipelineInv, TypeOK
  <1> HIDE DEF seen
  <1>9. CASE /\ n > 0
             /\ excess' = [excess EXCEPT ![h] = n]
             /\ Go(h, "select")
             /\ UNCHANGED <<devices, history, field, now>>
    <2>1. excess' \in [Handlers -> Nat]
      BY <1>5, <1>9 DEF PipelineInv, TypeOK
    <2>2. pc' = [pc EXCEPT ![h] = "select"]
      BY <1>9 DEF Go
    <2> HIDE DEF n
    <2> QED
      BY <1>1, <1>7, <1>8, <1>9, <2>1, <2>2, TrimmingStep DEF Counted
  <1>10. CASE HistoryRecorded(h, EntriesHere(h)) /\ UNCHANGED excess
    <2>1. excess' \in [Handlers -> Nat]
      BY <1>10 DEF PipelineInv, TypeOK
    <2> HIDE DEF n
    <2> QED
      BY <1>1, <1>7, <1>8, <1>10, <2>1, TrimmedStep DEF Counted
  <1> QED
    BY <1>2, <1>9, <1>10 DEF seen

LEMMA SelectedStep ==
    ASSUME PipelineInv, NEW h \in Handlers, Selected(h)
    PROVE  PipelineInv'
  <1>1. pc[h] = "select" /\ Holds(h)
        /\ excess' = [excess EXCEPT ![h] = 0]
    BY DEF Selected, Awaits
  <1>2. /\ excess' \in [Handlers -> Nat]
        /\ written' \subseteq Addresses /\ missed' \in Entries
    BY <1>1 DEF Selected, PipelineInv, TypeOK, notes
  <1>u. PICK unseen \in SUBSET Unseen(h) :
           \E S \in Oldest(EntriesHere(h) \ unseen, excess[h]) :
              \/ /\ doomed' = [doomed EXCEPT ![h] = S]
                 /\ Go(h, "delete")
                 /\ UNCHANGED <<devices, history, field, now>>
              \/ /\ HistoryRecorded(h, EntriesHere(h))
                 /\ UNCHANGED doomed
    BY DEF Selected
  <1>3. PICK S \in Oldest(EntriesHere(h) \ unseen, excess[h]) :
           \/ /\ doomed' = [doomed EXCEPT ![h] = S]
              /\ Go(h, "delete")
              /\ UNCHANGED <<devices, history, field, now>>
           \/ /\ HistoryRecorded(h, EntriesHere(h))
              /\ UNCHANGED doomed
    BY <1>u
  <1>4. S \subseteq Entry
    BY AddressType DEF Oldest, PipelineInv, Entries
  <1>5. CASE /\ doomed' = [doomed EXCEPT ![h] = S]
             /\ Go(h, "delete")
             /\ UNCHANGED <<devices, history, field, now>>
    <2>1. doomed' \in [Handlers -> SUBSET Entry]
      BY <1>4, <1>5 DEF PipelineInv, TypeOK
    <2>2. pc' = [pc EXCEPT ![h] = "delete"]
      BY <1>5 DEF Go
    <2> QED
      BY <1>1, <1>2, <1>5, <2>1, <2>2, TrimmingStep DEF Selected, notes
  <1>6. CASE HistoryRecorded(h, EntriesHere(h)) /\ UNCHANGED doomed
    <2>1. doomed' \in [Handlers -> SUBSET Entry]
      BY <1>6 DEF PipelineInv, TypeOK
    <2> QED
      BY <1>1, <1>2, <1>6, <2>1, TrimmedStep DEF Selected, notes
  <1> QED
    BY <1>3, <1>5, <1>6

LEMMA RemovedStep ==
    ASSUME PipelineInv, NEW h \in Handlers, Removed(h)
    PROVE  PipelineInv'
  <1>1. pc[h] = "delete" /\ Holds(h)
        /\ HistoryRecorded(h, EntriesHere(h) \ doomed[h])
    BY DEF Removed, Awaits
  <1>2. /\ excess' \in [Handlers -> Nat]
        /\ doomed' \in [Handlers -> SUBSET Entry]
        /\ written' \subseteq Addresses /\ missed' \in Entries
    BY DEF Removed, PipelineInv, TypeOK, notes
  <1>3. EntriesHere(h) \ doomed[h] \in SUBSET EntriesHere(h)
    OBVIOUS
  <1> QED
    BY <1>1, <1>2, <1>3, TrimmedStep DEF Removed, notes

-----------------------------------------------------------------------------
(***************************************************************************)
(* The steps that end a handler or its transaction.                        *)
(***************************************************************************)
LEMMA FlushStep ==
    ASSUME PipelineInv, NEW h \in Handlers, Flushed(h) \/ FlushRefused(h)
    PROVE  PipelineInv'
  <1>1. pc[h] \in PastAlerts
    BY DEF Flushed, FlushRefused, Awaits, PastAlerts, Statements, Unwritten
  <1>2. PICK state \in {"done", "failed", "unsaved", "unflushed"} :
           pc' = [pc EXCEPT ![h] = state]
    BY DEF Flushed, FlushRefused, Go
  <1>3. state \in States /\ state # "alerting"
    BY DEF States, Unwritten
  <1>4. written' \subseteq Addresses
    BY AddressType DEF Flushed, FlushRefused, Write, tables, PipelineInv, TypeOK
  <1> QED
    BY <1>1, <1>2, <1>3, <1>4, Alerted, QuietStep
       DEF Flushed, FlushRefused, tables

LEMMA RaisesStep ==
    ASSUME PipelineInv, NEW h \in Handlers, StatementRaises(h)
    PROVE  PipelineInv'
  <1>1. /\ "failed" \in States /\ "failed" \notin PastAlerts
        /\ pc' = [pc EXCEPT ![h] = "failed"]
    BY DEF StatementRaises, Go, States, Statements, PastAlerts, Unwritten
  <1>2. written' \subseteq Addresses
    BY DEF StatementRaises, tables, PipelineInv, TypeOK
  <1> QED
    BY <1>1, <1>2, QuietStep DEF StatementRaises, tables

\* The device's alerts are forgotten with it; the handlers under way at its
\* address explain what they bring.
LEMMA DeleteStep ==
    ASSUME PipelineInv, NEW a \in Addresses, DeleteDevice(a)
    PROVE  PipelineInv'
  <1>1. {} \in Entries
    BY FS_EmptySet DEF Entries
  <1>2. deletions' \in 0 .. MaxDeletions
    BY PipelineAssumption DEF DeleteDevice, PipelineInv, TypeOK
  <1>3. TypeOK'
    BY <1>1, <1>2 DEF DeleteDevice, PipelineInv, TypeOK, merging
  <1>4. /\ devices'[a] = NoDevice /\ stored'[a] = NoDevice
        /\ history'[a] = {}
        /\ \A b \in Addresses : b # a =>
              /\ history'[b] = history[b] /\ devices'[b] = devices[b]
              /\ stored'[b] = stored[b] /\ announced'[b] = announced[b]
    BY DEF DeleteDevice, PipelineInv, TypeOK
  <1>5. \A b \in Addresses : b # a => Explained(b) \subseteq Explained(b)'
    BY <1>4 DEF DeleteDevice, Explained, Address
  <1>6. NothingUnannounced' /\ CommittedInv'
    BY <1>4, <1>5 DEF PipelineInv, NothingUnannounced, CommittedInv, Present
  <1>7. AuditIsLinear'
    BY <1>4 DEF PipelineInv, AuditIsLinear, Present
  <1>8. ASSUME NEW h \in Handlers, Address(h) = a, Underway(h)
        PROVE  fingerprint[h].protocol \in Explained(a)'
    BY <1>8 DEF DeleteDevice, Explained, Address
  <1>9. ASSUME NEW h \in Handlers, pc[h] \in PastAlerts
        PROVE  fingerprint[h].protocol \in Explained(Address(h))'
    <2>1. Underway(h)
      BY <1>9 DEF Underway, PastAlerts, Statements, Unwritten
    <2>2. Address(h) \in Addresses /\ Address(h)' = Address(h)
      BY AddressType DEF PipelineInv, DeleteDevice, Address
    <2> QED
      BY <1>5, <1>8, <1>9, <2>1, <2>2, Alerted
  <1>10. ASSUME NEW h \in Handlers, pc[h] = "alerting"
         PROVE  \/ toSend[h] = <<"new_protocol">>
                \/ /\ toSend[h] = <<>>
                   /\ fingerprint[h].protocol \in Explained(Address(h))'
    <2>1. Underway(h)
      BY <1>10 DEF Underway
    <2>2. Address(h) \in Addresses /\ Address(h)' = Address(h)
      BY AddressType DEF PipelineInv, DeleteDevice, Address
    <2> QED
      BY <1>5, <1>8, <1>10, <2>1, <2>2 DEF PipelineInv, AlertedInv
  <1>11. AlertedInv'
    BY <1>9, <1>10 DEF DeleteDevice, AlertedInv
  <1> QED
    BY <1>3, <1>6, <1>7, <1>11 DEF PipelineInv

-----------------------------------------------------------------------------
(***************************************************************************)
(* The invariant, and the theorems.                                        *)
(***************************************************************************)
LEMMA NextPipeline == PipelineInv /\ [Next]_vars => PipelineInv'
  <1> SUFFICES ASSUME PipelineInv, [Next]_vars
               PROVE  PipelineInv'
    OBVIOUS
  <1>1. ASSUME NEW h \in Handlers,
               \/ Arrive(h) \/ LookedUp(h) \/ AlertSent(h) \/ Found(h)
               \/ Checked(h) \/ Inserted(h)
        PROVE  PipelineInv'
    BY <1>1, ArriveStep, LookedUpStep, AlertSentStep, FoundStep, CheckedStep,
       InsertedStep
  <1>2. ASSUME NEW h \in Handlers,
               \/ Counted(h) \/ Selected(h) \/ Removed(h) \/ Flushed(h)
               \/ FlushRefused(h) \/ StatementRaises(h)
        PROVE  PipelineInv'
    BY <1>2, CountedStep, SelectedStep, RemovedStep, FlushStep, RaisesStep
  <1>l. ASSUME NEW h \in Handlers, MergeOfDeleted(h) \/ StatementRefused(h)
        PROVE  PipelineInv'
    BY <1>l, LostStep DEF MergeOfDeleted, StatementRefused
  <1>3. ASSUME NEW a \in Addresses, DeleteDevice(a)
        PROVE  PipelineInv'
    BY <1>3, DeleteStep
  <1>4. CASE UNCHANGED vars
    <2>1. TypeOK'
      BY <1>4 DEF PipelineInv, TypeOK, vars, merging, tables, counters, notes
    <2>4. Settled /\ UNCHANGED <<devices, history, pc, toSend>>
      BY <1>4 DEF Settled, vars, tables, notes
    <2>2. InventoryInv'
      BY <2>4, SettledExplained, SameInventory
         DEF PipelineInv, InventoryInv, Settled
    <2>3. AlertedInv'
      BY <2>4, SettledExplained, AddressType
         DEF PipelineInv, AlertedInv, Address, Settled
    <2> QED
      BY <2>1, <2>2, <2>3 DEF PipelineInv, InventoryInv
  <1> QED
    BY <1>1, <1>2, <1>l, <1>3, <1>4 DEF Next

LEMMA PipelineInvariant == Spec => []PipelineInv
  BY InitPipeline, NextPipeline, PTL DEF Spec

\* However many handlers merge into a device at once, it never has more than
\* MAX_PROTOCOLS_PER_DEVICE protocols, and every variable has its type:
\* _merge_device tests the limit and assigns with no await in between.
THEOREM ProtocolsLimited == Spec => []TypeOK
  BY PipelineInvariant, PTL DEF PipelineInv

\* Whatever protocols a device has, an alert about this very device was
\* dispatched before it got them, or a handler brought them that was under
\* way when the API deleted the device at its address: between the change
\* detector's lookup and the repository's nothing else gets in unannounced.
THEOREM NothingEntersUnannounced == Spec => []NothingUnannounced
  BY PipelineInvariant, PTL DEF PipelineInv

\* The audit entries about a device's protocols are in one line that ends in
\* what is stored, although merges are interleaved and the oldest entries
\* are trimmed.
THEOREM AuditStaysLinear == Spec => []AuditIsLinear
  BY PipelineInvariant, PTL DEF PipelineInv

-----------------------------------------------------------------------------
(***************************************************************************)
(* What was handled is there, as long as the transaction is.  A device     *)
(* only gains protocols and never loses its firmware, and an id is never   *)
(* given out twice: so what a handler has merged into a device, or is sure *)
(* to, is there as long as the device is the one it holds.                 *)
(***************************************************************************)
Stored(h) ==
    /\ fingerprint[h].protocol \in Here(h).protocols
    /\ fingerprint[h].firmware # Unknown => Here(h).firmware # Unknown

Recording == {"count", "select", "delete"}

IdsGivenOut ==
    /\ \A a \in Addresses : Present(a) => devices[a].id <= ids
    /\ \A h \in Handlers : held[h] <= ids

\* What holds of a handler once it holds a device.
HandledBy(h) ==
    /\ pc[h] \in {"flush", "done"} /\ Holds(h) => Stored(h)
    /\ pc[h] \in Recording /\ field[h] = "protocols" /\ Holds(h) => Stored(h)
    /\ pc[h] \in Recording /\ field[h] = "firmware" =>
          fingerprint[h].firmware # Unknown

HandledInv == IdsGivenOut /\ \A h \in Handlers : HandledBy(h)

\* Each device of the next state is new, or has what it had.
Grows ==
    \A a \in Addresses : Present(a)' =>
        \/ ids < devices'[a].id
        \/ /\ Present(a)
           /\ devices'[a].id = devices[a].id
           /\ devices[a].protocols \subseteq devices'[a].protocols
           /\ devices[a].firmware # Unknown => devices'[a].firmware # Unknown

\* A step of one handler.
OthersStay(h) ==
    \A g \in Handlers \ {h} : /\ pc'[g] = pc[g] /\ field'[g] = field[g]
                              /\ held'[g] = held[g]

LEMMA InitHandled == Init => HandledInv
  <1> SUFFICES ASSUME Init
               PROVE  HandledInv
    OBVIOUS
  <1>1. \A h \in Handlers : pc[h] = "idle" /\ held[h] = 0
    BY DEF Init
  <1>2. \A a \in Addresses : Present(a) => devices[a].id = 0
    BY PipelineAssumption DEF Init, Present
  <1> QED
    BY <1>1, <1>2 DEF Init, HandledInv, IdsGivenOut, HandledBy, Recording

\* What a handler that does not move has stored stays.
LEMMA StillHandled ==
    ASSUME TypeOK, HandledInv, Grows, UNCHANGED fingerprint,
           NEW h \in Handlers, pc'[h] = pc[h], field'[h] = field[h],
           held'[h] = held[h]
    PROVE  HandledBy(h)'
  <1>1. /\ Address(h) \in Addresses /\ Address(h)' = Address(h)
        /\ Here(h) = devices[Address(h)] /\ Here(h)' = devices'[Address(h)]
    BY AddressType DEF Address, Here
  <1>2. HandledBy(h) /\ held[h] <= ids /\ held[h] \in Nat /\ ids \in Nat
    BY DEF HandledInv, IdsGivenOut, TypeOK
  <1>3. CASE Holds(h)'
    <2>1. Present(Address(h))' /\ devices'[Address(h)].id = held[h]
      BY <1>1, <1>3 DEF Holds, Present
    <2>2. /\ Present(Address(h))
          /\ devices'[Address(h)].id = devices[Address(h)].id
          /\ devices[Address(h)].protocols \subseteq devices'[Address(h)].protocols
          /\ devices[Address(h)].firmware # Unknown =>
                devices'[Address(h)].firmware # Unknown
      BY <1>1, <1>2, <2>1 DEF Grows
    <2>3. Holds(h)
      BY <1>1, <2>1, <2>2 DEF Holds, Present
    <2>4. Stored(h) => Stored(h)'
      BY <1>1, <2>2 DEF Stored
    <2> QED
      BY <1>2, <2>3, <2>4 DEF HandledBy
  <1>4. CASE ~Holds(h)'
    BY <1>2, <1>4 DEF HandledBy
  <1> QED
    BY <1>3, <1>4

LEMMA HandlerHandled ==
    ASSUME TypeOK, TypeOK', HandledInv, NEW h \in Handlers, OthersStay(h),
           Grows, UNCHANGED fingerprint, ids <= ids',
           \A a \in Addresses : Present(a)' => devices'[a].id <= ids',
           held'[h] <= ids', HandledBy(h)'
    PROVE  HandledInv'
  <1>1. ASSUME NEW g \in Handlers \ {h}
        PROVE  HandledBy(g)' /\ held'[g] <= ids'
    <2>1. held[g] <= ids /\ held[g] \in Nat /\ ids \in Nat /\ ids' \in Nat
      BY DEF HandledInv, IdsGivenOut, TypeOK
    <2> QED
      BY <2>1, StillHandled DEF OthersStay
  <1> QED
    BY <1>1 DEF HandledInv, IdsGivenOut

\* A step that changes neither devices nor ids.
LEMMA SameDevices ==
    ASSUME TypeOK, HandledInv, UNCHANGED <<devices, ids>>
    PROVE  /\ Grows
           /\ ids <= ids'
           /\ \A a \in Addresses : Present(a)' => devices'[a].id <= ids'
           /\ \A h \in Handlers : held[h] <= ids'
  BY DEF Grows, HandledInv, IdsGivenOut, TypeOK, Present

\* A handler moves on, before its merge or after it fails.
LEMMA OutsideHandled ==
    ASSUME TypeOK, TypeOK', HandledInv, NEW h \in Handlers,
           NEW state \in States \ (Recording \cup {"flush", "done"}),
           pc' = [pc EXCEPT ![h] = state],
           UNCHANGED <<fingerprint, held, field, devices, ids>>
    PROVE  HandledInv'
  <1>1. OthersStay(h) /\ pc'[h] = state
    BY DEF OthersStay, TypeOK
  <1>2. HandledBy(h)'
    BY <1>1 DEF HandledBy
  <1> QED
    BY <1>1, <1>2, SameDevices, HandlerHandled

\* A device of the inventory is replaced by one with more in it.
LEMMA LargerDevice ==
    ASSUME TypeOK, HandledInv, NEW h \in Handlers, Here(h) # NoDevice,
           NEW device \in Device,
           devices' = [devices EXCEPT ![Address(h)] = device],
           device.id = Here(h).id,
           Here(h).protocols \subseteq device.protocols,
           Here(h).firmware # Unknown => device.firmware # Unknown,
           UNCHANGED <<fingerprint, ids>>
    PROVE  /\ Grows
           /\ ids <= ids'
           /\ \A a \in Addresses : Present(a)' => devices'[a].id <= ids'
           /\ Here(h)' = device
  <1>1. Address(h) \in Addresses /\ Here(h) = devices[Address(h)]
        /\ Here(h)' = devices'[Address(h)] /\ Present(Address(h))
    BY AddressType DEF Address, Here, Present
  <1>2. /\ devices'[Address(h)] = device
        /\ \A a \in Addresses \ {Address(h)} : devices'[a] = devices[a]
    BY <1>1 DEF TypeOK
  <1>3. ids \in Nat
    BY DEF TypeOK
  <1> QED
    BY <1>1, <1>2, <1>3 DEF Grows, HandledInv, IdsGivenOut, Present

\* The last part of the merge stores what the handler brings, or fails.
LEMMA MergeStores ==
    ASSUME TypeOK, HandledInv, NEW h \in Handlers, Here(h) # NoDevice,
           NEW device \in Device, NEW entries,
           device.id = Here(h).id, device.protocols = Here(h).protocols,
           Here(h).firmware # Unknown => device.firmware # Unknown,
           fingerprint[h].firmware # Unknown => device.firmware # Unknown,
           MergeProtocols(h, device, entries),
           UNCHANGED <<fingerprint, ids>>
    PROVE  /\ Grows
           /\ ids <= ids'
           /\ \A a \in Addresses : Present(a)' => devices'[a].id <= ids'
           /\ HandledBy(h)'
           /\ \A g \in Handlers \ {h} : pc'[g] = pc[g] /\ field'[g] = field[g]
  <1>1. CASE /\ devices' = [devices EXCEPT ![Address(h)] = device]
             /\ UNCHANGED field
             /\ \/ /\ Merged(h, device) = device.protocols
                   /\ pc' = [pc EXCEPT ![h] = "flush"]
                \/ pc' = [pc EXCEPT ![h] = "unflushed"]
    <2>1. /\ Grows /\ ids <= ids' /\ Here(h)' = device
          /\ \A a \in Addresses : Present(a)' => devices'[a].id <= ids'
      BY <1>1, LargerDevice
    <2>2. \/ pc'[h] = "unflushed"
          \/ pc'[h] = "flush" /\ fingerprint[h].protocol \in device.protocols
      BY <1>1 DEF Merged, TypeOK
    <2>3. HandledBy(h)'
      BY <2>1, <2>2 DEF HandledBy, Recording, Stored
    <2> QED
      BY <1>1, <2>1, <2>3 DEF TypeOK
  <1>2. CASE /\ ~TooMany(Merged(h, device))
             /\ devices' = [devices EXCEPT ![Address(h)] =
                              [device EXCEPT !.protocols = Merged(h, device)]]
             /\ field' = [field EXCEPT ![h] = "protocols"]
             /\ pc' = [pc EXCEPT ![h] = "count"]
    <2> DEFINE larger == [device EXCEPT !.protocols = Merged(h, device)]
    <2>1. larger \in Device
      BY <1>2, MergedType
    <2>2. /\ larger.id = device.id /\ larger.firmware = device.firmware
          /\ larger.protocols = device.protocols \cup {fingerprint[h].protocol}
      BY DEF Merged, Device
    <2>3. devices' = [devices EXCEPT ![Address(h)] = larger]
      BY <1>2
    <2> HIDE DEF larger
    <2>4. /\ Grows /\ ids <= ids' /\ Here(h)' = larger
          /\ \A a \in Addresses : Present(a)' => devices'[a].id <= ids'
      BY <2>1, <2>2, <2>3, LargerDevice
    <2>5. pc'[h] = "count" /\ field'[h] = "protocols"
      BY <1>2 DEF TypeOK
    <2>6. HandledBy(h)'
      BY <2>2, <2>4, <2>5 DEF HandledBy, Stored
    <2> QED
      BY <1>2, <2>4, <2>6 DEF TypeOK
  <1> QED
    BY <1>1, <1>2 DEF MergeProtocols, Record, Go

LEMMA FoundHandled ==
    ASSUME TypeOK, TypeOK', HandledInv, NEW h \in Handlers, Found(h)
    PROVE  HandledInv'
  <1>1. CASE Here(h) # NoDevice /\ Merge(h)
    <2>1. /\ Here(h) \in Device /\ Address(h) \in Addresses
          /\ Here(h) = devices[Address(h)] /\ Present(Address(h))
      BY <1>1, AddressType DEF Here, Present
    <2>2. held' = [held EXCEPT ![h] = Here(h).id]
          /\ UNCHANGED <<fingerprint, ids>>
      BY <1>1 DEF Merge, Found
    <2>3. held'[h] <= ids'
          /\ \A g \in Handlers \ {h} : held'[g] = held[g]
      BY <2>1, <2>2 DEF TypeOK, HandledInv, IdsGivenOut
    <2>4. CASE /\ \/ Here(h).firmware # Unknown
                  \/ fingerprint[h].firmware = Unknown
               /\ MergeProtocols(h, Here(h), EntriesHere(h))
      <3>1. /\ Grows /\ ids <= ids' /\ HandledBy(h)'
            /\ \A a \in Addresses : Present(a)' => devices'[a].id <= ids'
            /\ \A g \in Handlers \ {h} : pc'[g] = pc[g] /\ field'[g] = field[g]
        BY <1>1, <2>1, <2>2, <2>4, MergeStores
      <3>2. OthersStay(h)
        BY <2>3, <3>1 DEF OthersStay
      <3> QED
        BY <2>2, <2>3, <3>1, <3>2, HandlerHandled
    <2>5. CASE /\ fingerprint[h].firmware # Unknown
               /\ field' = [field EXCEPT ![h] = "firmware"]
               /\ pc' = [pc EXCEPT ![h] = "count"]
               /\ UNCHANGED devices
      <3>1. OthersStay(h) /\ pc'[h] = "count" /\ field'[h] = "firmware"
        BY <2>3, <2>5 DEF OthersStay, TypeOK
      <3>2. HandledBy(h)'
        BY <2>2, <2>5, <3>1 DEF HandledBy
      <3> QED
        BY <2>2, <2>3, <2>5, <3>1, <3>2, SameDevices, HandlerHandled
    <2> QED
      BY <1>1, <2>4, <2>5 DEF Merge, Record, Go
  <1>2. CASE Go(h, "check") /\ UNCHANGED <<held, merging, devices>>
    <2>1. "check" \in States \ (Recording \cup {"flush", "done"})
      BY DEF States, Statements, Recording
    <2> QED
      BY <1>2, <2>1, OutsideHandled DEF Found, Go, merging
  <1> QED
    BY <1>1, <1>2 DEF Found

LEMMA InsertedHandled ==
    ASSUME TypeOK, TypeOK', HandledInv, NEW h \in Handlers, Inserted(h),
           usable'
    PROVE  HandledInv'
  <1>1. /\ ids' = ids + 1
        /\ held' = [held EXCEPT ![h] = ids']
        /\ devices' = [devices EXCEPT ![Address(h)] =
              [id |-> ids', firmware |-> fingerprint[h].firmware,
               protocols |-> {fingerprint[h].protocol}]]
        /\ pc' \in {[pc EXCEPT ![h] = "done"], [pc EXCEPT ![h] = "failed"]}
    BY DEF Inserted, TransactionLost, Go
  <1> DEFINE device == [id |-> ids', firmware |-> fingerprint[h].firmware,
                        protocols |-> {fingerprint[h].protocol}]
  <1>2. Address(h) \in Addresses /\ Here(h)' = devices'[Address(h)]
        /\ UNCHANGED <<fingerprint, field>>
    BY AddressType DEF Address, Here, Inserted, merging
  <1>3. /\ devices'[Address(h)] = device
        /\ \A a \in Addresses \ {Address(h)} : devices'[a] = devices[a]
    BY <1>1, <1>2 DEF TypeOK
  <1>4. ids \in Nat /\ ids < ids' /\ ids <= ids' /\ device.id = ids'
    BY <1>1 DEF TypeOK
  <1>5. /\ device.protocols = {fingerprint[h].protocol}
        /\ device.firmware = fingerprint[h].firmware
    OBVIOUS
  <1> HIDE DEF device
  <1>6. /\ Grows
        /\ \A a \in Addresses : Present(a)' => devices'[a].id <= ids'
    <2>1. ASSUME NEW a \in Addresses, Present(a)', a # Address(h)
          PROVE  /\ Present(a) /\ devices'[a] = devices[a]
                 /\ devices[a].id \in Nat /\ devices[a].id <= ids
      BY <1>3, <2>1 DEF Present, TypeOK, Device, HandledInv, IdsGivenOut
    <2> QED
      BY <1>1, <1>3, <1>4, <2>1 DEF Grows
  <1>7. OthersStay(h) /\ pc'[h] \in {"done", "failed"}
        /\ held'[h] = ids' /\ ids' <= ids'
    BY <1>1, <1>2, <1>4 DEF OthersStay, TypeOK
  <1>8. HandledBy(h)'
    BY <1>2, <1>3, <1>5, <1>7 DEF HandledBy, Recording, Stored
  <1> QED
    BY <1>2, <1>4, <1>6, <1>7, <1>8, HandlerHandled

\* _record_history returns.
LEMMA RecordedHandled ==
    ASSUME TypeOK, TypeOK', HandledInv, NEW h \in Handlers, Holds(h),
           pc[h] \in Recording, NEW entries, HistoryRecorded(h, entries),
           UNCHANGED <<fingerprint, held, ids>>
    PROVE  HandledInv'
  <1>1. Here(h) \in Device /\ Here(h) # NoDevice
    BY AddressType DEF Holds
  <1>2. held'[h] <= ids' /\ \A g \in Handlers \ {h} : held'[g] = held[g]
    BY DEF HandledInv, IdsGivenOut
  <1>3. CASE /\ field[h] = "firmware"
             /\ MergeProtocols(h, [Here(h) EXCEPT !.firmware =
                                                   fingerprint[h].firmware],
                               entries)
    <2> DEFINE device == [Here(h) EXCEPT !.firmware = fingerprint[h].firmware]
    <2>1. fingerprint[h].firmware # Unknown
      BY <1>3 DEF HandledInv, HandledBy
    <2>2. /\ device \in Device /\ device.id = Here(h).id
          /\ device.protocols = Here(h).protocols
          /\ device.firmware = fingerprint[h].firmware
      BY <1>1, AddressType DEF Device
    <2>3. MergeProtocols(h, device, entries)
      BY <1>3
    <2> HIDE DEF device
    <2>4. /\ Grows /\ ids <= ids' /\ HandledBy(h)'
          /\ \A a \in Addresses : Present(a)' => devices'[a].id <= ids'
          /\ \A g \in Handlers \ {h} : pc'[g] = pc[g] /\ field'[g] = field[g]
      BY <1>1, <2>1, <2>2, <2>3, MergeStores
    <2>5. OthersStay(h)
      BY <1>2, <2>4 DEF OthersStay
    <2> QED
      BY <1>2, <2>4, <2>5, HandlerHandled
  <1>4. CASE /\ field[h] = "protocols"
             /\ pc' = [pc EXCEPT ![h] = "flush"]
             /\ UNCHANGED <<devices, field>>
    <2>1. OthersStay(h) /\ pc'[h] = "flush"
      BY <1>4 DEF OthersStay, TypeOK
    <2>2. Stored(h) /\ Here(h)' = Here(h)
      BY <1>4 DEF HandledInv, HandledBy, Here, Address
    <2>3. HandledBy(h)'
      BY <2>1, <2>2 DEF HandledBy, Recording, Stored
    <2> QED
      BY <1>2, <1>4, <2>1, <2>3, SameDevices, HandlerHandled
  <1> QED
    BY <1>3, <1>4 DEF HistoryRecorded, Go

\* A statement in between: the handler still records the same field.
LEMMA TrimmingHandled ==
    ASSUME TypeOK, TypeOK', HandledInv, NEW h \in Handlers,
           pc[h] \in Recording, NEW state \in {"select", "delete"},
           pc' = [pc EXCEPT ![h] = state],
           UNCHANGED <<fingerprint, held, field, devices, ids>>
    PROVE  HandledInv'
  <1>1. OthersStay(h) /\ pc'[h] = state
    BY DEF OthersStay, TypeOK
  <1>2. (Holds(h)' <=> Holds(h)) /\ (Stored(h)' <=> Stored(h))
    BY DEF Holds, Stored, Here, Address
  <1>3. HandledBy(h)'
    BY <1>1, <1>2 DEF HandledInv, HandledBy, Recording
  <1> QED
    BY <1>1, <1>3, SameDevices, HandlerHandled

\* A merge is flushed, by its own flush or after that was refused.
LEMMA FlushHandled ==
    ASSUME TypeOK, TypeOK', HandledInv, NEW h \in Handlers,
           Flushed(h) \/ FlushRefused(h)
    PROVE  HandledInv'
  <1>1. UNCHANGED <<fingerprint, held, field, devices, ids>>
    BY DEF Flushed, FlushRefused, merging, tables, counters
  <1>2. CASE \E state \in {"failed", "unsaved", "unflushed"} :
                pc' = [pc EXCEPT ![h] = state]
    <2>1. \A state \in {"failed", "unsaved", "unflushed"} :
             state \in States \ (Recording \cup {"flush", "done"})
      BY DEF States, Statements, Unwritten, Recording
    <2> QED
      BY <1>1, <1>2, <2>1, OutsideHandled
  <1>3. CASE pc[h] = "flush" /\ pc' = [pc EXCEPT ![h] = "done"]
    <2>1. OthersStay(h) /\ pc'[h] = "done"
      BY <1>1, <1>3 DEF OthersStay, TypeOK
    <2>2. (Holds(h)' <=> Holds(h)) /\ (Stored(h)' <=> Stored(h))
      BY <1>1 DEF Holds, Stored, Here, Address
    <2>3. HandledBy(h)'
      BY <1>3, <2>1, <2>2 DEF HandledInv, HandledBy, Recording
    <2> QED
      BY <1>1, <2>1, <2>3, SameDevices, HandlerHandled
  <1> QED
    BY <1>2, <1>3 DEF Flushed, FlushRefused, Awaits, Go

LEMMA NextHandled ==
    ASSUME TypeOK, TypeOK', HandledInv, [Next]_vars, usable'
    PROVE  HandledInv'
  <1>1. ASSUME NEW h \in Handlers,
               \/ Arrive(h) \/ LookedUp(h) \/ AlertSent(h) \/ Checked(h)
               \/ StatementRaises(h)
        PROVE  HandledInv'
    <2>1. UNCHANGED <<fingerprint, held, field, devices, ids>>
      BY <1>1
         DEF Arrive, LookedUp, AlertSent, Checked, StatementRaises, merging,
             tables, counters
    <2>2. PICK state \in {"lookup", "alerting", "find", "failed", "insert"} :
             pc' = [pc EXCEPT ![h] = state]
      BY <1>1
         DEF Arrive, LookedUp, AlertSent, Checked, StatementRaises, SendNext, Go
    <2>3. state \in States \ (Recording \cup {"flush", "done"})
      BY DEF States, Statements, Recording
    <2> QED
      BY <2>1, <2>2, <2>3, OutsideHandled
  <1>2. ASSUME NEW h \in Handlers, Found(h) \/ Inserted(h)
        PROVE  HandledInv'
    BY <1>2, FoundHandled, InsertedHandled
  <1>3. ASSUME NEW h \in Handlers, Counted(h) \/ Selected(h) \/ Removed(h)
        PROVE  HandledInv'
    <2>1. /\ pc[h] \in Recording /\ Holds(h)
          /\ UNCHANGED <<fingerprint, held, ids>>
      BY <1>3 DEF Counted, Selected, Removed, Awaits, Recording, counters
    <2>2. \/ \E entries : HistoryRecorded(h, entries)
          \/ /\ \E state \in {"select", "delete"} :
                   pc' = [pc EXCEPT ![h] = state]
             /\ UNCHANGED <<devices, field>>
      BY <1>3 DEF Counted, Selected, Removed, Go
    <2> QED
      BY <2>1, <2>2, RecordedHandled, TrimmingHandled
  <1>4. ASSUME NEW h \in Handlers, Flushed(h) \/ FlushRefused(h)
        PROVE  HandledInv'
    BY <1>4, FlushHandled
  <1>l. ASSUME NEW h \in Handlers, MergeOfDeleted(h) \/ StatementRefused(h)
        PROVE  HandledInv'
    BY <1>l DEF MergeOfDeleted, StatementRefused, TransactionLost
  <1>5. ASSUME NEW a \in Addresses, DeleteDevice(a)
        PROVE  HandledInv'
    <2>1. /\ UNCHANGED <<pc, fingerprint, held, field, ids>>
          /\ devices' = [devices EXCEPT ![a] = NoDevice]
      BY <1>5 DEF DeleteDevice, merging
    <2>2. \A b \in Addresses : Present(b)' =>
             Present(b) /\ devices'[b] = devices[b]
      BY <2>1 DEF Present, TypeOK
    <2>3. Grows
      BY <2>2 DEF Grows
    <2>4. \A h \in Handlers : HandledBy(h)'
      BY <2>1, <2>3, StillHandled
    <2>5. IdsGivenOut'
      BY <2>1, <2>2 DEF HandledInv, IdsGivenOut
    <2> QED
      BY <2>4, <2>5 DEF HandledInv
  <1>6. CASE UNCHANGED vars
    <2>1. UNCHANGED <<pc, fingerprint, held, field, devices, ids>>
      BY <1>6 DEF vars, merging, tables, counters
    <2>2. Grows
      BY <2>1, SameDevices
    <2>3. \A h \in Handlers : HandledBy(h)'
      BY <2>1, <2>2, StillHandled
    <2>4. IdsGivenOut'
      BY <2>1 DEF HandledInv, IdsGivenOut, Present
    <2> QED
      BY <2>3, <2>4 DEF HandledInv
  <1> QED
    BY <1>1, <1>2, <1>3, <1>4, <1>l, <1>5, <1>6 DEF Next

\* A session that has failed once is not used again.
LEMMA NeverUsableAgain ==
    ASSUME [Next]_vars, usable'
    PROVE  usable
  <1>1. ASSUME NEW h \in Handlers,
               \/ Arrive(h) \/ LookedUp(h) \/ AlertSent(h) \/ Found(h)
               \/ Checked(h) \/ Inserted(h) \/ Counted(h)
        PROVE  usable
    BY <1>1 DEF Arrive, LookedUp, AlertSent, Found, Checked, Inserted, Counted,
       TransactionLost, Awaits, tables
  <1>2. ASSUME NEW h \in Handlers,
               \/ Selected(h) \/ Removed(h) \/ Flushed(h) \/ FlushRefused(h)
               \/ MergeOfDeleted(h) \/ StatementRefused(h)
               \/ StatementRaises(h)
        PROVE  usable
    BY <1>2 DEF Selected, Removed, Flushed, FlushRefused, MergeOfDeleted,
       StatementRefused, StatementRaises, TransactionLost, Awaits, tables
  <1>3. ASSUME NEW a \in Addresses, DeleteDevice(a)
        PROVE  usable
    BY <1>3 DEF DeleteDevice
  <1>4. CASE UNCHANGED vars
    BY <1>4 DEF vars, tables
  <1> QED
    BY <1>1, <1>2, <1>3, <1>4 DEF Next

HandledUnlessLost == usable => HandledInv

\* As long as the shared transaction is not lost, whatever a handler that is
\* done has brought is in the inventory while its device is, whichever
\* handlers merge into the device at the same time: the merge only fills in
\* and adds, and no handler that found nothing overwrites another's device.
THEOREM HandledStaysRecorded == Spec => []HandledIsRecorded
  <1>1. Init => HandledUnlessLost
    BY InitHandled DEF HandledUnlessLost
  <1>2. TypeOK /\ TypeOK' /\ HandledUnlessLost /\ [Next]_vars
           => HandledUnlessLost'
    BY NeverUsableAgain, NextHandled DEF HandledUnlessLost
  <1>3. TypeOK /\ HandledUnlessLost => HandledIsRecorded
    BY DEF HandledUnlessLost, HandledInv, HandledBy, HandledIsRecorded, Stored
  <1> QED
    BY <1>1, <1>2, <1>3, ProtocolsLimited, PTL DEF Spec

-----------------------------------------------------------------------------
(***************************************************************************)
(* The limit of the history.  The handlers that have added an entry count  *)
(* the entries and remove the oldest, as many as they found too many,      *)
(* while others add theirs and remove some too.  As long as one of them    *)
(* has still to count, there is nothing to say.  The last to count sees    *)
(* all entries but those that are missed; from then on there are few       *)
(* enough of them, or one of the handlers is going to leave few enough.    *)
(***************************************************************************)
Counting(a) == {h \in Handlers : Address(h) = a /\ pc[h] = "count"}

\* How many of these entries a handler leaves that goes on now.
Remaining(state, n, chosen, entries) ==
    IF state = "delete" THEN Cardinality(entries \ chosen)
    ELSE IF n <= Cardinality(entries) THEN Cardinality(entries) - n ELSE 0

RemainingAfter(h, entries) ==
    Remaining(pc[h], excess[h], doomed[h], entries)

Limit == MaxHistory + Cardinality(missed)

TrimmedAt(a) ==
    Counting(a) = {} =>
        \/ Cardinality(history[a]) <= Limit
        \/ \E h \in Trimming(a) : RemainingAfter(h, history[a]) <= Limit

\* Of a lost transaction there is no entry.
TrimmedInv ==
    /\ \A a \in Addresses : TrimmedAt(a)
    /\ ~usable => \A a \in Addresses : history[a] = {}

LEMMA LimitType ==
    ASSUME TypeOK
    PROVE  /\ Limit \in Nat /\ MaxHistory \in Nat
           /\ Cardinality(missed) \in Nat /\ IsFiniteSet(missed)
           /\ \A a \in Addresses :
                 IsFiniteSet(history[a]) /\ Cardinality(history[a]) \in Nat
  <1>1. IsFiniteSet(missed) /\ \A a \in Addresses : IsFiniteSet(history[a])
    BY DEF TypeOK, Entries
  <1> QED
    BY <1>1, FS_CardinalityType, PipelineAssumption DEF Limit

LEMMA LimitTypeAfter ==
    ASSUME TypeOK'
    PROVE  Limit' \in Nat
  <1>1. IsFiniteSet(missed')
    BY DEF TypeOK, Entries
  <1> QED
    BY <1>1, FS_CardinalityType, PipelineAssumption DEF Limit

LEMMA NothingAbove ==
    ASSUME TypeOK, NEW a \in Addresses, history[a] = {}
    PROVE  TrimmedAt(a)
  BY LimitType, FS_EmptySet DEF TrimmedAt

\* Of fewer entries no more remain.
LEMMA FewerRemain ==
    ASSUME NEW state, NEW n \in Nat, NEW chosen, NEW entries,
           IsFiniteSet(entries), NEW kept \in SUBSET entries
    PROVE  /\ Remaining(state, n, chosen, kept) \in Nat
           /\ Remaining(state, n, chosen, entries) \in Nat
           /\ Remaining(state, n, chosen, kept) <=
                Remaining(state, n, chosen, entries)
  <1>1. IsFiniteSet(kept) /\ Cardinality(kept) <= Cardinality(entries)
    BY FS_Subset
  <1>2. IsFiniteSet(entries \ chosen) /\ kept \ chosen \subseteq entries \ chosen
    BY FS_Difference
  <1>3. /\ IsFiniteSet(kept \ chosen)
        /\ Cardinality(kept \ chosen) <= Cardinality(entries \ chosen)
    BY <1>2, FS_Subset
  <1>4. /\ Cardinality(kept) \in Nat /\ Cardinality(entries) \in Nat
        /\ Cardinality(kept \ chosen) \in Nat
        /\ Cardinality(entries \ chosen) \in Nat
    BY <1>1, <1>2, <1>3, FS_CardinalityType
  <1> QED
    BY <1>1, <1>3, <1>4 DEF Remaining

\* Entries that are not seen.
LEMMA AllButUnseen ==
    ASSUME NEW entries, IsFiniteSet(entries), NEW unseen, IsFiniteSet(unseen)
    PROVE  /\ Cardinality(entries) \in Nat /\ Cardinality(unseen) \in Nat
           /\ Cardinality(entries \ unseen) \in Nat
           /\ Cardinality(entries \ unseen) <= Cardinality(entries)
           /\ Cardinality(entries) <=
                Cardinality(entries \ unseen) + Cardinality(unseen)
  <1>1. /\ IsFiniteSet(entries \ unseen)
        /\ Cardinality(entries \ unseen) =
             Cardinality(entries) - Cardinality(entries \cap unseen)
    BY FS_Difference
  <1>2. /\ IsFiniteSet(entries \cap unseen)
        /\ Cardinality(entries \cap unseen) <= Cardinality(unseen)
    BY FS_Intersection
  <1>3. /\ Cardinality(entries) \in Nat /\ Cardinality(unseen) \in Nat
        /\ Cardinality(entries \ unseen) \in Nat
        /\ Cardinality(entries \cap unseen) \in Nat
    BY <1>1, <1>2, FS_CardinalityType
  <1> QED
    BY <1>1, <1>2, <1>3

\* When nobody is going to count, only what is missed is not seen.
LEMMA OnlyMissed ==
    ASSUME NEW h \in Handlers, Counting(Address(h)) \subseteq {h},
           NEW unseen \in SUBSET Unseen(h)
    PROVE  unseen \subseteq missed
  BY DEF Counting, Unseen

-----------------------------------------------------------------------------
(***************************************************************************)
(* One kind of step after the other.                                       *)
(***************************************************************************)

\* A step of one handler.
OthersWait(h) ==
    \A g \in Handlers \ {h} : /\ pc'[g] = pc[g]
                              /\ excess'[g] = excess[g]
                              /\ doomed'[g] = doomed[g]

LEMMA OthersCounting ==
    ASSUME TypeOK, NEW h \in Handlers, OthersWait(h), UNCHANGED fingerprint
    PROVE  /\ Address(h) \in Addresses /\ Address(h)' = Address(h)
           /\ \A a \in Addresses : /\ Counting(a)' \ {h} = Counting(a) \ {h}
                                   /\ Trimming(a)' \ {h} = Trimming(a) \ {h}
           /\ \A a \in Addresses : a # Address(h) =>
                 h \notin Counting(a) /\ h \notin Trimming(a)
                   /\ h \notin Counting(a)' /\ h \notin Trimming(a)'
  <1>1. Address(h) \in Addresses
    BY AddressType
  <1>2. \A g \in Handlers : Address(g)' = Address(g)
    BY DEF Address
  <1> QED
    BY <1>1, <1>2 DEF OthersWait, Counting, Trimming

LEMMA TrimmedElsewhere ==
    ASSUME TypeOK, TypeOK', NEW h \in Handlers, OthersWait(h),
           UNCHANGED fingerprint, Limit <= Limit',
           NEW a \in Addresses, a # Address(h),
           history'[a] = history[a], TrimmedAt(a)
    PROVE  TrimmedAt(a)'
  <1>s. /\ Counting(a)' \ {h} = Counting(a) \ {h}
        /\ Trimming(a)' \ {h} = Trimming(a) \ {h}
        /\ h \notin Counting(a) /\ h \notin Trimming(a)
        /\ h \notin Counting(a)' /\ h \notin Trimming(a)'
    BY OthersCounting
  <1>1. Counting(a)' = Counting(a) /\ Trimming(a)' = Trimming(a)
        /\ h \notin Trimming(a)
    BY <1>s
  <1>2. \A g \in Trimming(a) : RemainingAfter(g, history[a])' =
                                 RemainingAfter(g, history[a])
    BY <1>1 DEF OthersWait, Trimming, RemainingAfter
  <1>3. \A g \in Trimming(a) : RemainingAfter(g, history[a]) \in Nat
    BY LimitType, FewerRemain DEF Trimming, RemainingAfter, TypeOK
  <1>4. /\ Limit \in Nat /\ Limit' \in Nat
        /\ Cardinality(history[a]) \in Nat
    BY LimitType, LimitTypeAfter
  <1> QED
    BY <1>1, <1>2, <1>3, <1>4 DEF TrimmedAt

LEMMA HandlerTrims ==
    ASSUME TypeOK, TypeOK', TrimmedInv, NEW h \in Handlers, OthersWait(h),
           UNCHANGED <<fingerprint, usable>>, usable \/ UNCHANGED history,
           Limit <= Limit',
           \A a \in Addresses \ {Address(h)} : history'[a] = history[a],
           TrimmedAt(Address(h))'
    PROVE  TrimmedInv'
  <1>1. Address(h)' = Address(h)
    BY DEF Address
  <1>2. ASSUME NEW a \in Addresses, a # Address(h)
        PROVE  TrimmedAt(a)'
    BY <1>2, TrimmedElsewhere DEF TrimmedInv
  <1> QED
    BY <1>1, <1>2 DEF TrimmedInv

\* A step that is not about the history.
LEMMA OutsideTrims ==
    ASSUME TypeOK, TrimmedInv, NEW h \in Handlers, NEW state \in States,
           pc' = [pc EXCEPT ![h] = state],
           pc[h] \notin Recording, state \notin Recording,
           UNCHANGED <<fingerprint, excess, doomed, history, missed, usable>>
    PROVE  TrimmedInv'
  <1>1. \A g \in Handlers : /\ Address(g)' = Address(g)
                            /\ pc'[g] \in Recording <=> pc[g] \in Recording
                            /\ pc'[g] = "count" <=> pc[g] = "count"
                            /\ pc[g] \in Recording => pc'[g] = pc[g]
    BY DEF TypeOK, Address, Recording
  <1>2. \A a \in Addresses : /\ Counting(a)' = Counting(a)
                             /\ Trimming(a)' = Trimming(a)
    BY <1>1 DEF Counting, Trimming, Recording
  <1>3. \A a \in Addresses : \A g \in Trimming(a) :
           RemainingAfter(g, history[a])' = RemainingAfter(g, history[a])
    BY <1>1 DEF Trimming, RemainingAfter, Recording
  <1>4. Limit' = Limit
    BY DEF Limit
  <1>5. \A a \in Addresses : TrimmedAt(a) => TrimmedAt(a)'
    BY <1>2, <1>3, <1>4 DEF TrimmedAt
  <1> QED
    BY <1>5 DEF TrimmedInv

\* The transaction is lost, or was before.
LEMMA LostTrims ==
    ASSUME TypeOK', \A a \in Addresses : history'[a] = {}
    PROVE  TrimmedInv'
  <1>1. ASSUME NEW a \in Addresses
        PROVE  TrimmedAt(a)'
    <2>1. Cardinality(history'[a]) = 0
      BY FS_EmptySet
    <2>2. IsFiniteSet(missed')
      BY DEF TypeOK, Entries
    <2>3. Cardinality(missed') \in Nat
      BY <2>2, FS_CardinalityType
    <2> QED
      BY <2>1, <2>3, PipelineAssumption DEF TrimmedAt, Limit
  <1> QED
    BY <1>1 DEF TrimmedInv

\* What is to be shown of a handler h that leaves these entries, when nobody
\* else is going to count: there are few enough, or another leaves few enough.
FewEnough(h, entries, limit) ==
    Counting(Address(h)) \subseteq {h} =>
        \/ Cardinality(entries) <= limit
        \/ \E g \in Trimming(Address(h)) \ {h} :
              RemainingAfter(g, EntriesHere(h)) <= limit

\* The last part of a merge, after what it has recorded before is trimmed.
LEMMA MergeTrims ==
    ASSUME TypeOK, TypeOK', TrimmedInv, NEW h \in Handlers, OthersWait(h),
           UNCHANGED <<fingerprint, usable>>, usable, Limit <= Limit',
           NEW entries \in SUBSET EntriesHere(h),
           FewEnough(h, entries, Limit'),
           \A a \in Addresses \ {Address(h)} : history'[a] = history[a],
           \/ pc'[h] = "count"
           \/ pc'[h] \notin Recording /\ history'[Address(h)] = entries
    PROVE  TrimmedInv'
  <1> DEFINE a == Address(h)
  <1>1. /\ a \in Addresses /\ Address(h)' = a
        /\ Counting(a)' \ {h} = Counting(a) \ {h}
        /\ Trimming(a)' \ {h} = Trimming(a) \ {h}
        /\ EntriesHere(h) = history[a]
    BY OthersCounting DEF EntriesHere
  <1>2. CASE pc'[h] = "count"
    <2>1. h \in Counting(a)'
      BY <1>1, <1>2 DEF Counting
    <2> QED
      BY <1>1, <2>1, HandlerTrims DEF TrimmedAt
  <1>3. CASE pc'[h] \notin Recording /\ history'[a] = entries
    <2>1. ASSUME Counting(a)' = {}
          PROVE  \/ Cardinality(history'[a]) <= Limit'
                 \/ \E g \in Trimming(a)' : RemainingAfter(g, history[a])' <= Limit'
      <3>1. \/ Cardinality(entries) <= Limit'
            \/ \E g \in Trimming(a) \ {h} :
                  RemainingAfter(g, history[a]) <= Limit'
        BY <1>1, <2>1 DEF FewEnough
      <3>2. ASSUME NEW g \in Trimming(a) \ {h},
                   RemainingAfter(g, history[a]) <= Limit'
            PROVE  g \in Trimming(a)' /\ RemainingAfter(g, history[a])' <= Limit'
        <4>1. g \in Trimming(a)' /\ g \in Handlers
          BY <1>1 DEF Trimming
        <4>2. RemainingAfter(g, history[a])' = RemainingAfter(g, entries)
          BY <1>1, <1>3, <4>1 DEF OthersWait, RemainingAfter
        <4>3. /\ RemainingAfter(g, entries) \in Nat
              /\ RemainingAfter(g, history[a]) \in Nat
              /\ RemainingAfter(g, entries) <= RemainingAfter(g, history[a])
          BY <1>1, <4>1, LimitType, FewerRemain DEF RemainingAfter, TypeOK
        <4>4. Limit' \in Nat
          BY LimitTypeAfter
        <4> QED
          BY <3>2, <4>1, <4>2, <4>3, <4>4
      <3> QED
        BY <1>3, <3>1, <3>2
    <2>2. TrimmedAt(a)'
      BY <1>1, <2>1 DEF TrimmedAt
    <2> QED
      BY <1>1, <2>2, HandlerTrims
  <1> QED
    BY <1>2, <1>3

\* What the last part of a merge leaves in the end.
LEMMA MergeLeaves ==
    ASSUME TypeOK, NEW h \in Handlers, NEW device, NEW entries,
           MergeProtocols(h, device, entries)
    PROVE  /\ \A g \in Handlers \ {h} : pc'[g] = pc[g]
           /\ \A a \in Addresses \ {Address(h)} : history'[a] = history[a]
           /\ \/ pc'[h] = "count"
              \/ pc'[h] \notin Recording /\ history'[Address(h)] = entries
  <1>1. Address(h) \in Addresses
    BY AddressType
  <1>2. /\ \E state \in {"count", "flush", "unflushed"} :
              /\ pc' = [pc EXCEPT ![h] = state]
              /\ state = "count" \/ history' = [history EXCEPT ![Address(h)] = entries]
        /\ \E E : history' = [history EXCEPT ![Address(h)] = E]
    BY DEF MergeProtocols, Record, Go
  <1> QED
    BY <1>1, <1>2 DEF TypeOK, Recording

\* _record_history returns.
LEMMA RecordedTrims ==
    ASSUME TypeOK, TypeOK', TrimmedInv, NEW h \in Handlers,
           \A g \in Handlers \ {h} : excess'[g] = excess[g]
                                       /\ doomed'[g] = doomed[g],
           UNCHANGED <<fingerprint, usable>>, usable, Limit <= Limit',
           NEW entries \in SUBSET EntriesHere(h),
           FewEnough(h, entries, Limit'),
           HistoryRecorded(h, entries)
    PROVE  TrimmedInv'
  <1>1. Address(h) \in Addresses
    BY AddressType
  <1>2. /\ \A g \in Handlers \ {h} : pc'[g] = pc[g]
        /\ \A a \in Addresses \ {Address(h)} : history'[a] = history[a]
        /\ \/ pc'[h] = "count"
           \/ pc'[h] \notin Recording /\ history'[Address(h)] = entries
    <2>1. CASE \E device : MergeProtocols(h, device, entries)
      BY <2>1, MergeLeaves
    <2>2. CASE /\ history' = [history EXCEPT ![Address(h)] = entries]
               /\ pc' = [pc EXCEPT ![h] = "flush"]
      BY <1>1, <2>2 DEF TypeOK, Recording
    <2> QED
      BY <2>1, <2>2 DEF HistoryRecorded, Go
  <1>3. OthersWait(h)
    BY <1>2 DEF OthersWait
  <1> QED
    BY <1>2, <1>3, MergeTrims

\* A handler goes on to select, or to delete.
LEMMA TrimmingGoesOn ==
    ASSUME TypeOK, TypeOK', TrimmedInv, NEW h \in Handlers, OthersWait(h),
           UNCHANGED <<fingerprint, history, usable>>, Limit <= Limit',
           pc[h] \in Recording, pc'[h] \in {"select", "delete"},
           \/ FewEnough(h, EntriesHere(h), Limit')
           \/ RemainingAfter(h, EntriesHere(h))' <= Limit'
    PROVE  TrimmedInv'
  <1> DEFINE a == Address(h)
  <1>1. /\ a \in Addresses /\ Address(h)' = a
        /\ Counting(a)' \ {h} = Counting(a) \ {h}
        /\ Trimming(a)' \ {h} = Trimming(a) \ {h}
        /\ EntriesHere(h) = history[a] /\ EntriesHere(h)' = history[a]
    BY OthersCounting DEF EntriesHere
  <1>2. h \in Trimming(a)'
    BY <1>1 DEF Trimming
  <1>3. CASE RemainingAfter(h, EntriesHere(h))' <= Limit'
    <2>1. RemainingAfter(h, history[a])' <= Limit'
      BY <1>1, <1>3 DEF RemainingAfter
    <2> QED
      BY <1>1, <1>2, <2>1, HandlerTrims DEF TrimmedAt
  <1>4. CASE FewEnough(h, EntriesHere(h), Limit')
    <2>1. ASSUME Counting(a)' = {}
          PROVE  \/ Cardinality(history'[a]) <= Limit'
                 \/ \E g \in Trimming(a)' : RemainingAfter(g, history[a])' <= Limit'
      <3>1. \/ Cardinality(history[a]) <= Limit'
            \/ \E g \in Trimming(a) \ {h} :
                  RemainingAfter(g, history[a]) <= Limit'
        BY <1>1, <1>4, <2>1 DEF FewEnough
      <3>2. ASSUME NEW g \in Trimming(a) \ {h}
            PROVE  /\ g \in Trimming(a)'
                   /\ RemainingAfter(g, history[a])' = RemainingAfter(g, history[a])
        BY <1>1 DEF Trimming, OthersWait, RemainingAfter
      <3> QED
        BY <3>1, <3>2
    <2> QED
      BY <1>1, <2>1, HandlerTrims DEF TrimmedAt
  <1> QED
    BY <1>3, <1>4

-----------------------------------------------------------------------------
(***************************************************************************)
(* The actions.                                                            *)
(***************************************************************************)
LEMMA InitTrimmed == Init => TrimmedInv
  <1> SUFFICES ASSUME Init
               PROVE  TrimmedInv
    OBVIOUS
  <1>1. \A a \in Addresses : history[a] = {}
    BY DEF Init
  <1>2. \A a \in Addresses : TrimmedAt(a)
    BY <1>1, InitPipeline, NothingAbove DEF PipelineInv
  <1> QED
    BY <1>1, <1>2 DEF TrimmedInv

LEMMA FoundTrims ==
    ASSUME TypeOK, TypeOK', TrimmedInv, NEW h \in Handlers, Found(h)
    PROVE  TrimmedInv'
  <1>1. /\ pc[h] = "find" /\ pc[h] \notin Recording /\ usable
        /\ UNCHANGED <<fingerprint, usable, missed>>
        /\ Limit' = Limit /\ Limit \in Nat
    BY LimitType DEF Found, Awaits, Recording, notes, Limit
  <1>2. CASE Merge(h)
    <2>1. UNCHANGED <<excess, doomed>>
      BY <1>2 DEF Merge
    <2>2. /\ \A g \in Handlers \ {h} : pc'[g] = pc[g]
          /\ \A a \in Addresses \ {Address(h)} : history'[a] = history[a]
          /\ \/ pc'[h] = "count"
             \/ /\ pc'[h] \notin Recording
                /\ history'[Address(h)] = EntriesHere(h)
      <3>1. CASE MergeProtocols(h, Here(h), EntriesHere(h))
        BY <3>1, MergeLeaves
      <3>2. CASE /\ \E E : history' = [history EXCEPT ![Address(h)] = E]
                 /\ pc' = [pc EXCEPT ![h] = "count"]
        BY <3>2, AddressType DEF TypeOK
      <3> QED
        BY <1>2, <3>1, <3>2 DEF Merge, Record, Go
    <2>3. OthersWait(h)
      BY <2>1, <2>2 DEF OthersWait
    <2>4. FewEnough(h, EntriesHere(h), Limit')
      <3>1. Address(h) \in Addresses /\ h \notin Counting(Address(h))
            /\ h \notin Trimming(Address(h))
            /\ EntriesHere(h) = history[Address(h)]
        BY <1>1, AddressType DEF Counting, Trimming, EntriesHere
      <3>2. TrimmedAt(Address(h))
        BY <3>1 DEF TrimmedInv
      <3> QED
        BY <1>1, <3>1, <3>2 DEF FewEnough, TrimmedAt
    <2> QED
      BY <1>1, <2>2, <2>3, <2>4, MergeTrims
  <1>3. CASE Go(h, "check") /\ UNCHANGED <<merging, history>>
    <2>1. "check" \in States \ Recording
      BY DEF States, Statements, Recording
    <2> QED
      BY <1>1, <1>3, <2>1, OutsideTrims DEF Go, merging
  <1> QED
    BY <1>2, <1>3 DEF Found

LEMMA CountedTrims ==
    ASSUME TypeOK, TypeOK', TrimmedInv, NEW h \in Handlers, Counted(h)
    PROVE  TrimmedInv'
  <1>1. /\ pc[h] = "count" /\ pc[h] \in Recording /\ usable
        /\ UNCHANGED <<fingerprint, usable, doomed>>
    BY DEF Counted, Awaits, Recording
  <1>2. PICK own \in {{}, Latest(h)}, unseen \in SUBSET Unseen(h) :
          LET n == AboveLimit(Cardinality(EntriesHere(h) \ (own \cup unseen)))
          IN  /\ missed' = missed \cup own
              /\ \/ /\ n > 0
                    /\ excess' = [excess EXCEPT ![h] = n]
                    /\ Go(h, "select")
                    /\ UNCHANGED history
                 \/ /\ n <= 0
                    /\ HistoryRecorded(h, EntriesHere(h))
                    /\ UNCHANGED excess
    BY DEF Counted
  <1> DEFINE hidden == (own \cup unseen) \cap EntriesHere(h)
             n == AboveLimit(Cardinality(EntriesHere(h) \ hidden))
  <1>3. EntriesHere(h) \ (own \cup unseen) = EntriesHere(h) \ hidden
    OBVIOUS
  <1>4. /\ IsFiniteSet(EntriesHere(h)) /\ Address(h) \in Addresses
        /\ EntriesHere(h) = history[Address(h)]
    BY AddressType, LimitType DEF EntriesHere
  <1>5. IsFiniteSet(hidden)
    BY <1>4, FS_Subset
  <1>6. /\ MaxHistory + Cardinality(missed') = Limit'
        /\ Cardinality(missed) <= Cardinality(missed')
        /\ Cardinality(missed') \in Nat /\ Cardinality(missed) \in Nat
        /\ IsFiniteSet(missed') /\ MaxHistory \in Nat
    <2>1. IsFiniteSet(missed') /\ missed \in SUBSET missed'
      BY <1>2 DEF TypeOK, Entries
    <2> QED
      BY <2>1, LimitType, FS_Subset, FS_CardinalityType DEF Limit
  <1>7. Limit <= Limit' /\ Limit' \in Nat
    BY <1>6 DEF Limit
  <1>8. ASSUME Counting(Address(h)) \subseteq {h}
        PROVE  Cardinality(hidden) <= Cardinality(missed')
    <2>1. hidden \in SUBSET missed'
      BY <1>2, <1>8, OnlyMissed
    <2> HIDE DEF hidden
    <2> QED
      BY <1>6, <2>1, FS_Subset
  <1>9. /\ Cardinality(EntriesHere(h)) \in Nat /\ Cardinality(hidden) \in Nat
        /\ Cardinality(EntriesHere(h) \ hidden) \in Nat
        /\ Cardinality(EntriesHere(h) \ hidden) <= Cardinality(EntriesHere(h))
        /\ Cardinality(EntriesHere(h)) <=
             Cardinality(EntriesHere(h) \ hidden) + Cardinality(hidden)
    BY <1>4, <1>5, AllButUnseen
  <1> HIDE DEF hidden
  <1>10. CASE /\ n > 0
              /\ excess' = [excess EXCEPT ![h] = n]
              /\ Go(h, "select")
              /\ UNCHANGED history
    <2>1. /\ OthersWait(h) /\ pc'[h] = "select" /\ excess'[h] = n
          /\ EntriesHere(h)' = EntriesHere(h)
      BY <1>1, <1>10 DEF OthersWait, TypeOK, Go, EntriesHere, Address
    <2>2. CASE Counting(Address(h)) \subseteq {h}
      <3>1. RemainingAfter(h, EntriesHere(h))' =
              Remaining("select", n, doomed'[h], EntriesHere(h))
        BY <2>1 DEF RemainingAfter
      <3>2. Remaining("select", n, doomed'[h], EntriesHere(h)) =
              Cardinality(EntriesHere(h)) - n
        BY <1>6, <1>9 DEF Remaining, AboveLimit
      <3>3. Cardinality(EntriesHere(h)) - n <= Limit'
        BY <1>6, <1>8, <1>9, <2>2 DEF AboveLimit
      <3> HIDE DEF n
      <3> QED
        BY <1>1, <1>7, <1>10, <2>1, <3>1, <3>2, <3>3, TrimmingGoesOn
    <2>3. CASE ~(Counting(Address(h)) \subseteq {h})
      BY <1>1, <1>7, <1>10, <2>1, <2>3, TrimmingGoesOn DEF FewEnough
    <2> QED
      BY <2>2, <2>3
  <1>11. CASE n <= 0 /\ HistoryRecorded(h, EntriesHere(h)) /\ UNCHANGED excess
    <2>1. Counting(Address(h)) \subseteq {h} =>
             Cardinality(EntriesHere(h)) <= Limit'
      BY <1>6, <1>8, <1>9, <1>11 DEF AboveLimit
    <2>2. FewEnough(h, EntriesHere(h), Limit')
      BY <2>1 DEF FewEnough
    <2> HIDE DEF n
    <2> QED
      BY <1>1, <1>7, <1>11, <2>2, RecordedTrims
  <1> QED
    BY <1>2, <1>3, <1>10, <1>11

\* A handler that has counted goes on, and nobody counts: what TrimmedAt says.
LEMMA AfterCount ==
    ASSUME TypeOK, TrimmedInv, NEW h \in Handlers, pc[h] # "count"
    PROVE  \/ FewEnough(h, EntriesHere(h), Limit)
           \/ RemainingAfter(h, EntriesHere(h)) <= Limit
  <1>1. /\ Address(h) \in Addresses /\ EntriesHere(h) = history[Address(h)]
        /\ h \notin Counting(Address(h)) /\ TrimmedAt(Address(h))
    BY AddressType DEF EntriesHere, Counting, TrimmedInv
  <1> QED
    BY <1>1 DEF FewEnough, TrimmedAt

LEMMA SelectedTrims ==
    ASSUME TypeOK, TypeOK', TrimmedInv, NEW h \in Handlers, Selected(h)
    PROVE  TrimmedInv'
  <1>1. /\ pc[h] = "select" /\ pc[h] \in Recording /\ usable
        /\ UNCHANGED <<fingerprint, usable, missed>>
        /\ excess' = [excess EXCEPT ![h] = 0] /\ excess[h] \in Nat
        /\ Limit' = Limit /\ Limit \in Nat /\ Limit <= Limit
    BY LimitType DEF Selected, Awaits, Recording, TypeOK, notes, Limit
  <1>u. PICK unseen \in SUBSET Unseen(h) :
          \E S \in Oldest(EntriesHere(h) \ unseen, excess[h]) :
             \/ /\ doomed' = [doomed EXCEPT ![h] = S]
                /\ Go(h, "delete")
                /\ UNCHANGED history
             \/ /\ S = {}
                /\ HistoryRecorded(h, EntriesHere(h))
                /\ UNCHANGED doomed
    BY DEF Selected
  <1>2. PICK S \in Oldest(EntriesHere(h) \ unseen, excess[h]) :
           \/ /\ doomed' = [doomed EXCEPT ![h] = S]
              /\ Go(h, "delete")
              /\ UNCHANGED history
           \/ /\ S = {}
              /\ HistoryRecorded(h, EntriesHere(h))
              /\ UNCHANGED doomed
    BY <1>u
  <1>3. /\ IsFiniteSet(EntriesHere(h)) /\ S \subseteq EntriesHere(h)
        /\ \/ Cardinality(S) = excess[h]
           \/ S = EntriesHere(h) \ unseen
    BY AddressType, LimitType DEF EntriesHere, Oldest
  <1>4. /\ IsFiniteSet(S) /\ Cardinality(S) \in Nat
        /\ Cardinality(EntriesHere(h)) \in Nat
        /\ Cardinality(S) <= Cardinality(EntriesHere(h))
        /\ Cardinality(EntriesHere(h) \ S) =
             Cardinality(EntriesHere(h)) - Cardinality(S)
    <2>1. EntriesHere(h) \cap S = S
      BY <1>3
    <2>2. IsFiniteSet(S) /\ Cardinality(S) <= Cardinality(EntriesHere(h))
      BY <1>3, FS_Subset
    <2>3. Cardinality(EntriesHere(h) \ S) =
            Cardinality(EntriesHere(h)) - Cardinality(EntriesHere(h) \cap S)
      BY <1>3, FS_Difference
    <2> QED
      BY <1>3, <2>1, <2>2, <2>3, FS_CardinalityType
  <1>5. \/ FewEnough(h, EntriesHere(h), Limit)
        \/ RemainingAfter(h, EntriesHere(h)) <= Limit
    BY <1>1, AfterCount
  <1>6. ASSUME RemainingAfter(h, EntriesHere(h)) <= Limit,
               Counting(Address(h)) \subseteq {h}
        PROVE  Cardinality(EntriesHere(h) \ S) <= Limit
    <2>1. CASE Cardinality(S) = excess[h]
      <3>1. RemainingAfter(h, EntriesHere(h)) =
              Cardinality(EntriesHere(h)) - excess[h]
        BY <1>1, <1>4, <2>1 DEF RemainingAfter, Remaining
      <3> QED
        BY <1>4, <1>6, <2>1, <3>1
    <2>2. CASE S = EntriesHere(h) \ unseen
      <3>1. EntriesHere(h) \ S \in SUBSET missed
        BY <1>6, <2>2, OnlyMissed
      <3>2. Cardinality(EntriesHere(h) \ S) <= Cardinality(missed)
        BY <3>1, LimitType, FS_Subset
      <3>3. /\ Cardinality(missed) \in Nat /\ MaxHistory \in Nat
            /\ Cardinality(EntriesHere(h) \ S) \in Nat
        BY <1>3, LimitType, FS_Difference, FS_CardinalityType
      <3> QED
        BY <3>2, <3>3 DEF Limit
    <2> QED
      BY <1>3, <2>1, <2>2
  <1>7. CASE /\ doomed' = [doomed EXCEPT ![h] = S]
             /\ Go(h, "delete")
             /\ UNCHANGED history
    <2>1. /\ OthersWait(h) /\ pc'[h] = "delete" /\ doomed'[h] = S
          /\ EntriesHere(h)' = EntriesHere(h)
      BY <1>1, <1>7 DEF OthersWait, TypeOK, Go, EntriesHere, Address
    <2>2. RemainingAfter(h, EntriesHere(h))' = Cardinality(EntriesHere(h) \ S)
      BY <2>1 DEF RemainingAfter, Remaining
    <2>3. \/ FewEnough(h, EntriesHere(h), Limit')
          \/ RemainingAfter(h, EntriesHere(h))' <= Limit'
      BY <1>1, <1>5, <1>6, <2>2 DEF FewEnough
    <2> QED
      BY <1>1, <1>7, <2>1, <2>3, TrimmingGoesOn
  <1>8. CASE S = {} /\ HistoryRecorded(h, EntriesHere(h)) /\ UNCHANGED doomed
    <2>1. EntriesHere(h) \ S = EntriesHere(h)
      BY <1>8
    <2>2. FewEnough(h, EntriesHere(h), Limit')
      BY <1>1, <1>5, <1>6, <2>1 DEF FewEnough
    <2>3. \A g \in Handlers \ {h} : excess'[g] = excess[g]
                                      /\ doomed'[g] = doomed[g]
      BY <1>1, <1>8 DEF TypeOK
    <2> QED
      BY <1>1, <1>8, <2>2, <2>3, RecordedTrims
  <1> QED
    BY <1>2, <1>7, <1>8

LEMMA RemovedTrims ==
    ASSUME TypeOK, TypeOK', TrimmedInv, NEW h \in Handlers, Removed(h)
    PROVE  TrimmedInv'
  <1> DEFINE left == EntriesHere(h) \ doomed[h]
  <1>1. /\ pc[h] = "delete" /\ usable
        /\ HistoryRecorded(h, left)
        /\ UNCHANGED <<fingerprint, usable, missed, excess>>
        /\ doomed' = [doomed EXCEPT ![h] = {}]
        /\ Limit' = Limit /\ Limit \in Nat
    BY LimitType DEF Removed, Awaits, notes, Limit
  <1>2. left \in SUBSET EntriesHere(h)
    OBVIOUS
  <1>3. RemainingAfter(h, EntriesHere(h)) = Cardinality(left)
    BY <1>1 DEF RemainingAfter, Remaining
  <1>4. /\ Cardinality(left) \in Nat /\ Cardinality(EntriesHere(h)) \in Nat
        /\ Cardinality(left) <= Cardinality(EntriesHere(h))
    <2>1. IsFiniteSet(EntriesHere(h))
      BY AddressType, LimitType DEF EntriesHere
    <2> QED
      BY <1>2, <2>1, FS_Subset, FS_CardinalityType
  <1> HIDE DEF left
  <1>5. FewEnough(h, left, Limit')
    BY <1>1, <1>3, <1>4, AfterCount DEF FewEnough
  <1>6. \A g \in Handlers \ {h} : excess'[g] = excess[g]
                                    /\ doomed'[g] = doomed[g]
    BY <1>1 DEF TypeOK
  <1> QED
    BY <1>1, <1>2, <1>5, <1>6, RecordedTrims

LEMMA DeleteTrims ==
    ASSUME TypeOK, TypeOK', TrimmedInv, NEW d \in Addresses, DeleteDevice(d)
    PROVE  TrimmedInv'
  <1>1. /\ UNCHANGED <<pc, fingerprint, excess, doomed, missed, usable>>
        /\ \A b \in Addresses \ {d} : history'[b] = history[b]
        /\ history'[d] = {}
    BY DEF DeleteDevice, merging, TypeOK
  <1>2. ASSUME NEW a \in Addresses, a # d
        PROVE  TrimmedAt(a)'
    BY <1>1, <1>2
       DEF TrimmedInv, TrimmedAt, Counting, Trimming, Address, RemainingAfter,
           Limit
  <1>3. TrimmedAt(d)'
    <2>1. Cardinality(history'[d]) = 0 /\ Limit' = Limit /\ Limit \in Nat
      BY <1>1, LimitType, FS_EmptySet DEF Limit
    <2> QED
      BY <2>1 DEF TrimmedAt
  <1> QED
    BY <1>1, <1>2, <1>3 DEF TrimmedInv

LEMMA NextTrimmed ==
    ASSUME TypeOK, TypeOK', TrimmedInv, [Next]_vars
    PROVE  TrimmedInv'
  <1>1. ASSUME NEW h \in Handlers,
               \/ Arrive(h) \/ LookedUp(h) \/ AlertSent(h) \/ Checked(h)
               \/ Flushed(h) \/ FlushRefused(h)
        PROVE  TrimmedInv'
    <2>1. UNCHANGED <<fingerprint, excess, doomed, history, missed, usable>>
      BY <1>1
         DEF Arrive, LookedUp, AlertSent, Checked, Flushed, FlushRefused,
             merging, tables, notes
    <2>2. PICK state \in {"lookup", "alerting", "find", "failed", "insert",
                          "done", "unsaved", "unflushed"} :
             pc' = [pc EXCEPT ![h] = state]
      BY <1>1
         DEF Arrive, LookedUp, AlertSent, Checked, Flushed, FlushRefused,
             SendNext, Go
    <2>3. state \in States /\ state \notin Recording
      BY DEF States, Statements, Unwritten, Recording
    <2>4. pc[h] \notin Recording
      BY <1>1
         DEF Arrive, LookedUp, AlertSent, Checked, Flushed, FlushRefused,
             Awaits, Recording
    <2> QED
      BY <2>1, <2>2, <2>3, <2>4, OutsideTrims
  <1>2. ASSUME NEW h \in Handlers, Inserted(h)
        PROVE  TrimmedInv'
    <2>1. CASE TransactionLost(h)
      BY <2>1, LostTrims DEF TransactionLost
    <2>2. CASE /\ Go(h, IF pc[h] = "insert" THEN "done" ELSE "failed")
               /\ UNCHANGED <<history, usable>>
      <3>1. /\ UNCHANGED <<fingerprint, excess, doomed, history, missed, usable>>
            /\ pc[h] \notin Recording
        BY <1>2, <2>2 DEF Inserted, merging, notes, Recording
      <3>2. PICK state \in {"done", "failed"} : pc' = [pc EXCEPT ![h] = state]
        BY <2>2 DEF Go
      <3>3. state \in States /\ state \notin Recording
        BY DEF States, Recording
      <3> QED
        BY <3>1, <3>2, <3>3, OutsideTrims
    <2> QED
      BY <1>2, <2>1, <2>2 DEF Inserted
  <1>3. ASSUME NEW h \in Handlers,
               \/ MergeOfDeleted(h) \/ StatementRefused(h)
               \/ StatementRaises(h)
        PROVE  TrimmedInv'
    <2>1. \A a \in Addresses : history'[a] = {}
      BY <1>3 DEF MergeOfDeleted, StatementRefused, StatementRaises,
                  TransactionLost, TrimmedInv, tables
    <2> QED
      BY <2>1, LostTrims
  <1>4. ASSUME NEW h \in Handlers,
               Found(h) \/ Counted(h) \/ Selected(h) \/ Removed(h)
        PROVE  TrimmedInv'
    BY <1>4, FoundTrims, CountedTrims, SelectedTrims, RemovedTrims
  <1>5. ASSUME NEW a \in Addresses, DeleteDevice(a)
        PROVE  TrimmedInv'
    BY <1>5, DeleteTrims
  <1>6. CASE UNCHANGED vars
    BY <1>6 DEF TrimmedInv, TrimmedAt, Counting, Trimming, Address, Limit,
                RemainingAfter, vars, merging, tables, notes
  <1> QED
    BY <1>1, <1>2, <1>3, <1>4, <1>5, <1>6 DEF Next

\* The change history of a device is trimmed to its limit once the handlers
\* that recorded something have counted and removed, however they overlap:
\* several of them may choose the same entries, or have counted before the
\* others added theirs.  Above the limit stay at most as many entries as were
\* not written yet when their own count was executed.
THEOREM HistoryStaysBounded == Spec => []HistoryBounded
  <1>1. TrimmedInv => HistoryBounded
    <2> SUFFICES ASSUME TrimmedInv, NEW a \in Addresses, Trimming(a) = {}
                 PROVE  Cardinality(history[a]) <= MaxHistory + Cardinality(missed)
      BY DEF HistoryBounded
    <2>1. Counting(a) = {}
      BY DEF Counting, Trimming
    <2> QED
      BY <2>1 DEF TrimmedInv, TrimmedAt, Limit
  <1> QED
    BY <1>1, InitTrimmed, NextTrimmed, ProtocolsLimited, PTL DEF Spec

-----------------------------------------------------------------------------
(***************************************************************************)
(* OneAlertPerAbsence of module DisappearanceCheck.                        *)
(***************************************************************************)
\* What is inductive: the mark of a device says whether its alert has been
\* generated, so that a device without a mark has none.
MarkIsAlert == \A d \in Devices : generated[d] = IF d \in marked THEN 1 ELSE 0

AlertInv == AbsenceTypeOK /\ MarkIsAlert

LEMMA AlertInit ==
    ASSUME AbsenceInit, DisappearanceAssumption
    PROVE  AlertInv
  <1>1. 0 \in Times
    BY DEF Times, DisappearanceAssumption
  <1>2. AbsenceTypeOK
    BY <1>1 DEF AbsenceInit, AbsenceTypeOK, NoList
  <1> QED
    BY <1>2 DEF AbsenceInit, AlertInv, MarkIsAlert

\* A handler clears the mark of its device.
LEMMA MarkStep ==
    ASSUME AlertInv, DisappearanceAssumption, NEW d \in Devices,
           Lookup(d) \/ Redetect(d) \/ ClearState(d) \/ Upsert(d) \/ HandlerRaises(d)
    PROVE  AlertInv'
  <1>1. CASE Lookup(d) \/ HandlerRaises(d)
    BY <1>1 DEF Lookup, HandlerRaises, HandlerGoes, AlertInv, AbsenceTypeOK, MarkIsAlert, checkVars
  <1>2. CASE Upsert(d)
    BY <1>2 DEF Upsert, HandlerGoes, AlertInv, AbsenceTypeOK, MarkIsAlert, checkVars
  <1>3. CASE Redetect(d) \/ ClearState(d)
    <2>1. /\ marked' = marked \ {d}
          /\ generated' = [generated EXCEPT ![d] = 0]
      BY <1>3 DEF Redetect, ClearState
    <2>2. MarkIsAlert'
      BY <2>1 DEF AlertInv, AbsenceTypeOK, MarkIsAlert
    <2>3. /\ generated' \in [Devices -> Nat]
          /\ marked' \subseteq Devices
      BY <2>1 DEF AlertInv, AbsenceTypeOK
    <2>4. /\ reported' = reported \ {d}
          /\ UNCHANGED <<hour, timeout, lastSeen, check, listed, alerts, raised>>
      BY <1>3 DEF Redetect, ClearState, packetVars, checkVars
    <2>5. handler' \in [Devices -> {"idle", "found", "processed"}]
      <3>1. CASE Redetect(d)
        BY <3>1 DEF Redetect, HandlerGoes, AlertInv, AbsenceTypeOK
      <3>2. CASE ClearState(d)
        BY <3>2 DEF ClearState, packetVars, AlertInv, AbsenceTypeOK
      <3> QED
        BY <1>3, <3>1, <3>2
    <2>6. AbsenceTypeOK'
      BY <2>3, <2>4, <2>5 DEF AlertInv, AbsenceTypeOK
    <2> QED
      BY <2>2, <2>6 DEF AlertInv
  <1> QED
    BY <1>1, <1>2, <1>3

\* Collect marks exactly the devices it generates an alert of.
LEMMA CollectStep ==
    ASSUME AlertInv, DisappearanceAssumption, NEW c \in Checks, Collect(c)
    PROVE  AlertInv'
  <1> DEFINE new == Overdue(listed[c]) \ marked
  <1>1. new \subseteq Devices
    BY DEF Overdue
  <1>2. /\ marked' = marked \cup new
        /\ alerts' = [alerts EXCEPT ![c] = new]
        /\ generated' = [d \in Devices |->
                            IF d \in new THEN generated[d] + 1 ELSE generated[d]]
    BY DEF Collect
  <1>3. \A d \in new : d \notin marked
    OBVIOUS
  <1>4. NoList \in [Devices -> Times]
    BY DEF NoList, Times, DisappearanceAssumption
  <1> HIDE DEF new
  <1>5. MarkIsAlert'
    BY <1>1, <1>2, <1>3 DEF AlertInv, AbsenceTypeOK, MarkIsAlert
  <1>6. AbsenceTypeOK'
    BY <1>1, <1>2, <1>4 DEF Collect, CheckGoes, AlertInv, AbsenceTypeOK, packetVars
  <1> QED
    BY <1>5, <1>6 DEF AlertInv

LEMMA OtherCheckStep ==
    ASSUME AlertInv, DisappearanceAssumption, NEW c \in Checks,
           \/ ReadInventory(c) \/ CheckReturns(c) \/ PersistRaises(c)
           \/ \E d \in Devices : Dispatch(c, d)
    PROVE  AlertInv'
  <1>1. CASE ReadInventory(c)
    BY <1>1 DEF ReadInventory, CheckGoes, AlertInv, AbsenceTypeOK, MarkIsAlert, packetVars
  <1>2. CASE CheckReturns(c)
    BY <1>2 DEF CheckReturns, CheckGoes, AlertInv, AbsenceTypeOK, MarkIsAlert, packetVars
  <1>3. CASE PersistRaises(c)
    BY <1>3 DEF PersistRaises, CheckGoes, AlertInv, AbsenceTypeOK, MarkIsAlert, packetVars
  <1>4. ASSUME NEW d \in Devices, Dispatch(c, d)
        PROVE  AlertInv'
    BY <1>4 DEF Dispatch, AlertInv, AbsenceTypeOK, MarkIsAlert, packetVars
  <1> QED
    BY <1>1, <1>2, <1>3, <1>4

LEMMA AlertNext ==
    ASSUME AlertInv, [AbsenceNext]_absenceVars, DisappearanceAssumption
    PROVE  AlertInv'
  <1>1. CASE UNCHANGED absenceVars
    BY <1>1 DEF absenceVars, packetVars, checkVars, AlertInv, AbsenceTypeOK, MarkIsAlert
  <1>2. CASE Tick
    BY <1>2 DEF Tick, Times, DisappearanceAssumption, AlertInv, AbsenceTypeOK,
                MarkIsAlert, packetVars, checkVars
  <1>3. ASSUME NEW t \in Timeouts, SetTimeout(t)
        PROVE  AlertInv'
    BY <1>3 DEF SetTimeout, AlertInv, AbsenceTypeOK, MarkIsAlert, packetVars, checkVars
  <1> QED
    BY <1>1, <1>2, <1>3, MarkStep, CollectStep, OtherCheckStep
    DEF AbsenceNext, CheckProceeds

\* From one re-detection of a device to the next there is one alert at most,
\* however many checks overlap (check_disappeared_devices).
THEOREM AlertedOncePerAbsence == AbsenceSpec => []OneAlertPerAbsence
  <1>1. AbsenceInit => AlertInv
    BY AlertInit, DisappearanceAssumption
  <1>2. AlertInv /\ [AbsenceNext]_absenceVars => AlertInv'
    BY AlertNext, DisappearanceAssumption
  <1>3. AlertInv => OneAlertPerAbsence
    BY DEF AlertInv, MarkIsAlert, OneAlertPerAbsence
  <1> QED
    BY <1>1, <1>2, <1>3, PTL DEF AbsenceSpec
=============================================================================
