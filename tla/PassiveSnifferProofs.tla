-------------------------- MODULE PassiveSnifferProofs -------------------------
(***************************************************************************)
(* Theorems about module PassiveSniffer, for any packets and any number of *)
(* starts: no fingerprint gets lost on the way, none is stored twice, and  *)
(* there is one capture unless a start() came during a flush.  The last    *)
(* part is about the parsers it routes frames to, module ProtocolParsers,  *)
(* for any frames, lengths, counts and limits: values lie apart inside the *)
(* payload, the verdict matches the fields, and fingerprints are readable. *)
(***************************************************************************)
EXTENDS PassiveSniffer, ProtocolParsers, FiniteSetTheorems, TLAPS

Distinct(s) == \A i, j \in 1 .. Len(s) : s[i] = s[j] => i = j

\* A flush goes through a list of records only under the lock.  Calls of
\* stop() queue up only behind a flush during which a start() has put an empty
\* list in the place of the one the flush goes through.
LockInv ==
    /\ batch = <<>> => committed = 0
    /\ batch # <<>> => stopping # <<>> /\ committed < Len(batch)
    /\ stopping # <<>> /\ (batch = <<>> \/ isRunning \/ Len(stopping) > 1)
            => buffer = <<>>
    /\ isRunning => starts > 0

\* The flush has stored what it has gone through, and nothing of the rest.
FlushInv ==
    batch # <<>> =>
        /\ buffer = batch \/ (buffer = <<>> /\ Range(batch) \subseteq discarded)
        /\ \A i \in 1 .. committed : stored[batch[i]] > 0
        /\ \A i \in committed + 1 .. Len(batch) : stored[batch[i]] = 0

\* A coroutine comes to its record once; the record of a finished coroutine is
\* in a list once.  One that a flush may have stored before it was cut off is
\* in the buffer only while the sniffer rests, and start() drops it.
RecordInv ==
    /\ Distinct(buffer) /\ Distinct(batch)
    /\ \A i \in 1 .. Len(buffer) : packet[buffer[i]] = "done" /\ buffer[i] \in found
    /\ \A i \in 1 .. Len(batch) : packet[batch[i]] = "done" /\ batch[i] \in found
    /\ isRunning /\ batch = <<>> =>
            \A i \in 1 .. Len(buffer) : stored[buffer[i]] = 0
    /\ \A p \in Packets : packet[p] # "done" => stored[p] = 0
    /\ \A p \in Packets : packet[p] = "committing" => p \in found

\* Pending, by the places of the lists.
Kept(p) ==
    \/ \E i \in 1 .. Len(buffer) : buffer[i] = p
    \/ \E i \in committed + 1 .. Len(batch) : batch[i] = p
    \/ packet[p] = "committing"

Accounted ==
    \A p \in found \ (refused \cup discarded) : Kept(p) \/ stored[p] > 0

SnifferInv ==
    TypeOK /\ Accounted /\ StoredOnce /\ LockInv /\ FlushInv /\ RecordInv

-----------------------------------------------------------------------------
LEMMA RangeIs ==
    ASSUME NEW s \in Seq(Packets)
    PROVE  /\ Range(s) \subseteq Packets
           /\ \A p : p \in Range(s) <=> \E i \in 1 .. Len(s) : s[i] = p
  BY DEF Range

LEMMA RestIs ==
    ASSUME NEW s \in Seq(Packets), NEW n \in Nat, n <= Len(s)
    PROVE  /\ From(s, n) \in Seq(Packets)
           /\ Len(From(s, n)) = Len(s) - n
           /\ \A i \in 1 .. Len(s) - n : From(s, n)[i] = s[n + i]
  BY DEF From

LEMMA RestOfNothing ==
    ASSUME NEW n \in Nat
    PROVE  From(<<>>, n) = <<>>
  BY DEF From

LEMMA PendingIsKept ==
    ASSUME TypeOK, committed <= Len(batch), NEW p \in Packets
    PROVE  p \in Pending <=> Kept(p)
  <1>1. p \in Range(buffer) <=> \E i \in 1 .. Len(buffer) : buffer[i] = p
    BY RangeIs DEF TypeOK
  <1>2. /\ From(batch, committed) \in Seq(Packets)
        /\ Len(From(batch, committed)) = Len(batch) - committed
        /\ \A i \in 1 .. Len(batch) - committed :
              From(batch, committed)[i] = batch[committed + i]
    BY RestIs DEF TypeOK
  <1>3. p \in Range(From(batch, committed)) <=>
            \E i \in 1 .. Len(From(batch, committed)) : From(batch, committed)[i] = p
    BY <1>2, RangeIs
  <1>4. (\E i \in 1 .. Len(From(batch, committed)) : From(batch, committed)[i] = p)
            <=> \E i \in committed + 1 .. Len(batch) : batch[i] = p
    <2>1. /\ committed \in Nat /\ Len(batch) \in Nat
      BY DEF TypeOK
    <2>2. ASSUME NEW i \in committed + 1 .. Len(batch), batch[i] = p
          PROVE  From(batch, committed)[i - committed] = p
      BY <1>2, <2>1, <2>2
    <2> QED
      BY <1>2, <2>1, <2>2
  <1> QED
    BY <1>1, <1>3, <1>4 DEF Pending, Kept

-----------------------------------------------------------------------------
LEMMA SnifferInit ==
    ASSUME Init, SnifferAssumption
    PROVE  SnifferInv
  <1>1. <<>> \in Seq(Packets) /\ <<>> \in Seq(Runs)
    OBVIOUS
  <1>2. /\ starts \in 0 .. MaxStarts
        /\ current \in 0 .. starts
        /\ capturing \subseteq 1 .. starts
    BY DEF Init, SnifferAssumption
  <1>3. /\ packet \in [Packets -> PacketStates]
        /\ stored \in [Packets -> Nat]
    BY DEF Init, PacketStates
  <1>4. TypeOK
    BY <1>1, <1>2, <1>3 DEF Init, TypeOK, FlushesAreRegistered
  <1> QED
    BY <1>4 DEF Init, SnifferInv, Accounted, StoredOnce, LockInv, FlushInv,
                RecordInv, Distinct

\* start() drops what is in the buffer; a flush in progress keeps its list.
LEMMA StartStep ==
    ASSUME SnifferInv, Start \/ StartFails, SnifferAssumption
    PROVE  SnifferInv'
  <1>1. /\ buffer' = <<>>
        /\ discarded' = discarded \cup Range(buffer)
        /\ UNCHANGED <<found, stored, refused, registered, packet, stopping,
                       batch, committed>>
    BY DEF Start, StartFails, ResetBuffer, lockVars
  <1>2. \A p : p \in Range(buffer) <=> \E i \in 1 .. Len(buffer) : buffer[i] = p
    BY RangeIs DEF SnifferInv, TypeOK
  <1>3. starts \in Nat /\ starts' \in 0 .. MaxStarts /\ starts <= starts'
    BY DEF Start, StartFails, SnifferInv, TypeOK, SnifferAssumption
  <1>4. /\ current' \in 0 .. starts'
        /\ capturing' \subseteq 1 .. starts'
        /\ isRunning' \in BOOLEAN
        /\ overlapped' \in BOOLEAN
    <2>1. CASE Start
      <3>1. starts' = starts + 1
        BY <2>1 DEF Start
      <3>2. capturing \subseteq 1 .. starts
        BY DEF SnifferInv, TypeOK
      <3> QED
        BY <1>3, <2>1, <3>1, <3>2 DEF Start, SnifferInv, TypeOK
    <2>2. CASE StartFails
      BY <1>3, <2>2 DEF StartFails, SnifferInv, TypeOK
    <2> QED
      BY <2>1, <2>2
  <1>5. TypeOK'
    <2>1. discarded' \subseteq found'
      BY <1>1, <1>2 DEF SnifferInv, TypeOK, RecordInv
    <2> QED
      BY <1>1, <1>3, <1>4, <2>1 DEF SnifferInv, TypeOK, FlushesAreRegistered
  <1>6. Accounted'
    BY <1>1, <1>2 DEF SnifferInv, Accounted, Kept
  <1>7. LockInv'
    BY <1>1, <1>3 DEF Start, StartFails, SnifferInv, LockInv
  <1>8. FlushInv'
    BY <1>1 DEF SnifferInv, FlushInv
  <1>9. StoredOnce' /\ RecordInv'
    BY <1>1 DEF SnifferInv, StoredOnce, RecordInv, Distinct
  <1> QED
    BY <1>5, <1>6, <1>7, <1>8, <1>9 DEF SnifferInv

\* Steps of a coroutine that leave both lists alone.
LEMMA CoroutineStep ==
    ASSUME SnifferInv, NEW p \in Packets,
           \/ Capture(p) \/ NoFingerprint(p) \/ CommitReturns(p) \/ CommitRaises(p)
           \/ Fingerprint(p) /\ registered
    PROVE  SnifferInv'
  <1>1. UNCHANGED <<captureVars, registered, buffer, lockVars, discarded>>
    BY DEF Capture, NoFingerprint, CommitReturns, CommitRaises, Fingerprint, history
  <1>2. PICK state \in PacketStates : packet' = [packet EXCEPT ![p] = state]
    BY DEF Capture, NoFingerprint, CommitReturns, CommitRaises, Fingerprint,
           MoveTo, PacketStates
  <1>3. packet[p] # "done"
    BY DEF Capture, NoFingerprint, CommitReturns, CommitRaises, Fingerprint
  <1>4. /\ found \subseteq found' /\ refused \subseteq refused'
        /\ found' \subseteq found \cup {p}
        /\ state = "committing" => p \in found'
        /\ p \in found' \ refused' => p \in found \/ state = "committing"
        /\ refused' \subseteq found'
    BY <1>2 DEF Capture, NoFingerprint, CommitReturns, CommitRaises, Fingerprint,
                MoveTo, history, SnifferInv, TypeOK, RecordInv
  <1>5. \/ stored' = stored
        \/ stored' = [stored EXCEPT ![p] = 1] /\ state = "done"
    BY <1>2, <1>3 DEF Capture, NoFingerprint, CommitReturns, CommitRaises,
                Fingerprint, MoveTo, Store, history, SnifferInv, TypeOK, RecordInv
  <1>6. p \in Packets /\ \A q \in Packets \ {p} : /\ packet'[q] = packet[q]
                                                  /\ stored'[q] = stored[q]
    BY <1>2, <1>5 DEF SnifferInv, TypeOK
  <1>7. /\ packet' \in [Packets -> PacketStates]
        /\ stored' \in [Packets -> Nat]
        /\ packet'[p] = state
        /\ stored'[p] \in {0, 1}
        /\ stored'[p] # 0 => state = "done"
    BY <1>2, <1>3, <1>5 DEF SnifferInv, TypeOK, RecordInv
  <1>8. /\ \A i \in 1 .. Len(buffer) : buffer[i] \in Packets \ {p}
        /\ \A i \in 1 .. Len(batch) : batch[i] \in Packets \ {p}
    BY <1>3 DEF SnifferInv, TypeOK, RecordInv
  <1>9. TypeOK'
    BY <1>1, <1>4, <1>7 DEF SnifferInv, TypeOK, FlushesAreRegistered, captureVars,
                            lockVars
  <1>10. Accounted'
    <2>1. CASE stored' = stored
      <3>1. packet[p] = "committing" => p \in refused'
        BY <2>1, <1>2, <1>3, <1>7
        DEF Capture, NoFingerprint, CommitReturns, CommitRaises, Fingerprint, Store,
            SnifferInv, TypeOK, RecordInv
      <3>2. ASSUME NEW q \in found' \ (refused' \cup discarded')
            PROVE  Kept(q)' \/ stored'[q] > 0
        <4>1. UNCHANGED <<buffer, batch, committed, stored, discarded>>
          BY <1>1, <2>1 DEF lockVars
        <4>2. CASE q = p
          <5>1. CASE state = "committing"
            BY <1>7, <4>2, <5>1 DEF Kept
          <5>2. CASE state # "committing"
            <6>1. p \in found \ (refused \cup discarded)
              BY <1>4, <3>2, <4>1, <4>2, <5>2
            <6>2. ~Kept(p)
              <7>1. packet[p] # "committing"
                BY <3>1, <3>2, <4>2
              <7>2. \A i \in committed + 1 .. Len(batch) : i \in 1 .. Len(batch)
                BY DEF SnifferInv, TypeOK
              <7> QED
                BY <1>8, <7>1, <7>2 DEF Kept
            <6> QED
              BY <4>1, <4>2, <6>1, <6>2 DEF SnifferInv, Accounted
          <5> QED
            BY <5>1, <5>2
        <4>3. CASE q # p
          <5>1. q \in found \ (refused \cup discarded) /\ q \in Packets
            BY <1>4, <3>2, <4>1, <4>3 DEF SnifferInv, TypeOK
          <5>2. packet'[q] = packet[q]
            BY <1>6, <4>3, <5>1
          <5> QED
            BY <4>1, <5>1, <5>2 DEF SnifferInv, Accounted, Kept
        <4> QED
          BY <4>2, <4>3
      <3> QED
        BY <3>2 DEF Accounted
    <2>2. CASE stored' = [stored EXCEPT ![p] = 1]
      <3>1. UNCHANGED <<buffer, batch, committed, discarded>>
        BY <1>1 DEF lockVars
      <3>2. stored'[p] > 0
        BY <2>2 DEF SnifferInv, TypeOK
      <3>3. ASSUME NEW q \in found' \ (refused' \cup discarded'), q # p
            PROVE  Kept(q)' \/ stored'[q] > 0
        <4>1. q \in found \ (refused \cup discarded) /\ q \in Packets
          BY <1>4, <3>1, <3>3 DEF SnifferInv, TypeOK
        <4>2. packet'[q] = packet[q] /\ stored'[q] = stored[q]
          BY <1>6, <3>3, <4>1
        <4> QED
          BY <3>1, <4>1, <4>2 DEF SnifferInv, Accounted, Kept
      <3> QED
        BY <3>2, <3>3 DEF Accounted
    <2> QED
      BY <1>5, <2>1, <2>2
  <1>11. LockInv'
    BY <1>1 DEF SnifferInv, LockInv, captureVars, lockVars
  <1>12. FlushInv'
    <2>1. \A i \in 1 .. Len(batch) : stored'[batch[i]] = stored[batch[i]]
      BY <1>6, <1>8
    <2>2. batch # <<>> => committed \in Nat /\ Len(batch) \in Nat /\ committed < Len(batch)
      BY DEF SnifferInv, LockInv, TypeOK
    <2> QED
      BY <1>1, <2>1, <2>2 DEF SnifferInv, FlushInv, lockVars
  <1>13. StoredOnce'
    BY <1>6, <1>7 DEF SnifferInv, StoredOnce
  <1>14. RecordInv'
    BY <1>1, <1>4, <1>6, <1>7, <1>8
    DEF SnifferInv, RecordInv, Distinct, captureVars, lockVars
  <1> QED
    BY <1>9, <1>10, <1>11, <1>12, <1>13, <1>14 DEF SnifferInv

\* Without a callback nothing holds the lock, so that the record is appended
\* to a list that no flush goes through.
LEMMA BufferStep ==
    ASSUME SnifferInv, NEW p \in Packets, Fingerprint(p), ~registered
    PROVE  SnifferInv'
  <1>1. /\ found' = found \cup {p}
        /\ packet' = [packet EXCEPT ![p] = "done"]
        /\ buffer' = Append(buffer, p)
        /\ stopping = <<>>
        /\ UNCHANGED <<stored, refused, discarded, isRunning, starts, current,
                       capturing, overlapped, registered, stopping, batch, committed>>
    BY DEF Fingerprint, MoveTo, captureVars, lockVars
  <1>2. packet[p] = "scheduled" /\ batch = <<>>
    BY <1>1 DEF Fingerprint, SnifferInv, LockInv
  <1>3. /\ buffer' \in Seq(Packets)
        /\ Len(buffer') = Len(buffer) + 1
        /\ Len(buffer) \in Nat
        /\ buffer'[Len(buffer) + 1] = p
        /\ \A i \in 1 .. Len(buffer) : buffer'[i] = buffer[i] /\ buffer[i] \in Packets \ {p}
    BY <1>1, <1>2 DEF SnifferInv, TypeOK, RecordInv
  <1>4. \A i \in 1 .. Len(buffer') : i \in 1 .. Len(buffer) \/ i = Len(buffer) + 1
    BY <1>3
  <1>5. TypeOK'
    <2>1. packet' \in [Packets -> PacketStates]
      BY <1>1 DEF SnifferInv, TypeOK, PacketStates
    <2> QED
      BY <1>1, <1>3, <2>1 DEF SnifferInv, TypeOK, FlushesAreRegistered
  <1>6. Accounted'
    <2>1. Kept(p)'
      BY <1>3 DEF Kept
    <2>2. \A q \in Packets \ {p} : Kept(q) => Kept(q)'
      BY <1>1, <1>3 DEF Kept, SnifferInv, TypeOK
    <2> QED
      BY <1>1, <2>1, <2>2 DEF SnifferInv, Accounted, TypeOK
  <1>7. LockInv' /\ FlushInv' /\ StoredOnce'
    BY <1>1, <1>2 DEF SnifferInv, LockInv, FlushInv, StoredOnce
  <1>8. RecordInv'
    <2>1. Distinct(buffer')
      BY <1>3, <1>4 DEF SnifferInv, RecordInv, Distinct
    <2>2. \A q \in Packets \ {p} : packet'[q] = packet[q]
      BY <1>1 DEF SnifferInv, TypeOK
    <2>3. packet'[p] = "done" /\ stored[p] = 0
      BY <1>1, <1>2 DEF SnifferInv, TypeOK, RecordInv
    <2>4. \A i \in 1 .. Len(buffer') : packet'[buffer'[i]] = "done" /\ buffer'[i] \in found'
      BY <1>1, <1>3, <1>4, <2>2, <2>3 DEF SnifferInv, RecordInv
    <2>5. isRunning => \A i \in 1 .. Len(buffer') : stored[buffer'[i]] = 0
      BY <1>2, <1>3, <1>4, <2>3 DEF SnifferInv, RecordInv
    <2>6. /\ \A q \in Packets : packet'[q] # "done" => stored[q] = 0
          /\ \A q \in Packets : packet'[q] = "committing" => q \in found'
      BY <1>1, <2>2, <2>3 DEF SnifferInv, RecordInv
    <2> QED
      BY <1>1, <1>2, <2>1, <2>4, <2>5, <2>6 DEF SnifferInv, RecordInv, Distinct
  <1> QED
    BY <1>5, <1>6, <1>7, <1>8 DEF SnifferInv

\* stop() that finds the lock taken waits for it.
LEMMA StopWaits ==
    ASSUME SnifferInv, Stop, stopping # <<>>, SnifferAssumption
    PROVE  SnifferInv'
  <1>1. /\ isRunning /\ isRunning' = FALSE
        /\ capturing' = capturing \ {current}
        /\ stopping' = Append(stopping, starts)
        /\ UNCHANGED <<current, buffer, batch, committed, found, stored, refused,
                       discarded, starts, overlapped, registered, packet>>
    BY DEF Stop, history
  <1>2. buffer = <<>>
    BY <1>1 DEF SnifferInv, LockInv
  <1>3. starts \in Runs /\ stopping \in Seq(Runs)
    BY <1>1 DEF SnifferInv, TypeOK, LockInv, Runs, SnifferAssumption
  <1>4. stopping' \in Seq(Runs) /\ stopping' # <<>>
    BY <1>1, <1>3
  <1>5. TypeOK'
    <2>1. capturing' \subseteq 1 .. starts
      BY <1>1 DEF SnifferInv, TypeOK
    <2> QED
      BY <1>1, <1>4, <2>1 DEF SnifferInv, TypeOK, FlushesAreRegistered
  <1> QED
    BY <1>1, <1>2, <1>4, <1>5
    DEF SnifferInv, Accounted, Kept, StoredOnce, LockInv, FlushInv, RecordInv

\* stop() that gets the lock at once, with a list that it can store.
LEMMA StopFlushes ==
    ASSUME SnifferInv, Stop, stopping = <<>>, registered, buffer # <<>>,
           SnifferAssumption
    PROVE  SnifferInv'
  <1>1. /\ isRunning /\ isRunning' = FALSE
        /\ capturing' = capturing \ {current}
        /\ stopping' = <<starts>>
        /\ batch' = buffer
        /\ committed' = 0
        /\ UNCHANGED <<current, buffer, found, stored, refused, discarded,
                       starts, overlapped, registered, packet>>
    BY DEF Stop, BeginFlush, history
  <1>2. batch = <<>>
    BY DEF SnifferInv, LockInv
  <1>3. starts \in Runs
    BY <1>1 DEF SnifferInv, TypeOK, LockInv, Runs, SnifferAssumption
  <1>4. stopping' \in Seq(Runs) /\ stopping' # <<>> /\ Len(stopping') = 1
    BY <1>1, <1>3
  <1>5. Len(buffer) \in Nat /\ 0 < Len(buffer)
    BY DEF SnifferInv, TypeOK
  <1>6. TypeOK'
    <2>1. capturing' \subseteq 1 .. starts
      BY <1>1 DEF SnifferInv, TypeOK
    <2> QED
      BY <1>1, <1>4, <2>1 DEF SnifferInv, TypeOK, FlushesAreRegistered
  <1>7. Accounted'
    <2>1. \A q \in Packets : Kept(q) => Kept(q)'
      BY <1>1, <1>2 DEF Kept, SnifferInv, TypeOK
    <2> QED
      BY <1>1, <2>1 DEF SnifferInv, Accounted, TypeOK
  <1>8. StoredOnce' /\ RecordInv'
    BY <1>1, <1>2 DEF SnifferInv, StoredOnce, RecordInv
  <1>9. LockInv' /\ FlushInv'
    BY <1>1, <1>2, <1>4, <1>5 DEF SnifferInv, LockInv, FlushInv, RecordInv
  <1> QED
    BY <1>6, <1>7, <1>8, <1>9 DEF SnifferInv

\* A flush that has nothing to store, or nobody to store it, empties the list.
LEMMA NothingToFlush ==
    ASSUME SnifferInv, batch = <<>>,
           ResetBuffer, UNCHANGED <<starts, overlapped, registered, packet, batch, committed>>,
           isRunning' => isRunning, isRunning' \in BOOLEAN, current' = 0,
           capturing' \subseteq capturing, stopping' \in Seq(Runs),
           stopping' # <<>> => stopping # <<>>
    PROVE  SnifferInv'
  <1>1. /\ buffer' = <<>>
        /\ discarded' = discarded \cup Range(buffer)
        /\ UNCHANGED <<found, stored, refused>>
    BY DEF ResetBuffer
  <1>2. \A p : p \in Range(buffer) <=> \E i \in 1 .. Len(buffer) : buffer[i] = p
    BY RangeIs DEF SnifferInv, TypeOK
  <1>3. TypeOK'
    <2>1. discarded' \subseteq found'
      BY <1>1, <1>2 DEF SnifferInv, TypeOK, RecordInv
    <2>2. <<>> \in Seq(Packets) /\ current' \in 0 .. starts
      BY DEF SnifferInv, TypeOK
    <2>3. capturing' \subseteq 1 .. starts
      BY DEF SnifferInv, TypeOK
    <2> QED
      BY <1>1, <2>1, <2>2, <2>3 DEF SnifferInv, TypeOK, FlushesAreRegistered
  <1>4. Accounted'
    BY <1>1, <1>2 DEF SnifferInv, Accounted, Kept
  <1> QED
    BY <1>1, <1>3, <1>4
    DEF SnifferInv, StoredOnce, LockInv, FlushInv, RecordInv, Distinct

LEMMA StopStep ==
    ASSUME SnifferInv, Stop, SnifferAssumption
    PROVE  SnifferInv'
  <1>1. CASE stopping = <<>> /\ ~(registered /\ buffer # <<>>)
    <2>1. /\ ResetBuffer
          /\ stopping' = Tail(<<starts>>)
          /\ current' = 0
          /\ isRunning' = FALSE
          /\ capturing' \subseteq capturing
          /\ UNCHANGED <<starts, overlapped, registered, packet, batch, committed>>
      BY <1>1 DEF Stop, BeginFlush
    <2>2. stopping' = <<>> /\ stopping' \in Seq(Runs)
      BY <2>1
    <2>3. batch = <<>>
      BY <1>1 DEF SnifferInv, LockInv
    <2> QED
      BY <2>1, <2>2, <2>3, NothingToFlush
  <1> QED
    BY <1>1, StopWaits, StopFlushes

\* What the next stop() in the queue finds is an empty list.
LEMMA GrantedStep ==
    ASSUME SnifferInv, Granted
    PROVE  SnifferInv'
  <1>1. buffer = <<>> /\ stopping # <<>> /\ batch = <<>>
    BY DEF Granted, SnifferInv, LockInv
  <1>2. /\ ResetBuffer
        /\ stopping' = Tail(stopping)
        /\ current' = 0
        /\ UNCHANGED <<isRunning, capturing, starts, overlapped, registered,
                       packet, batch, committed>>
    BY <1>1 DEF Granted, BeginFlush
  <1>3. stopping' \in Seq(Runs)
    BY <1>1, <1>2 DEF SnifferInv, TypeOK
  <1>4. isRunning' \in BOOLEAN
    BY <1>2 DEF SnifferInv, TypeOK
  <1> QED
    BY <1>1, <1>2, <1>3, <1>4, NothingToFlush

\* The flush stores the next record, which it has not stored before.
LEMMA NextRecord ==
    ASSUME SnifferInv, batch # <<>>
    PROVE  /\ committed \in Nat /\ Len(batch) \in Nat /\ committed < Len(batch)
           /\ batch[committed + 1] \in Packets
           /\ stored[batch[committed + 1]] = 0
           /\ packet[batch[committed + 1]] = "done"
           /\ \A i \in 1 .. Len(batch) :
                  i # committed + 1 => batch[i] # batch[committed + 1]
  <1>1. committed \in Nat /\ Len(batch) \in Nat /\ committed < Len(batch)
    BY DEF SnifferInv, TypeOK, LockInv
  <1>2. committed + 1 \in 1 .. Len(batch) /\ committed + 1 \in committed + 1 .. Len(batch)
    BY <1>1
  <1> QED
    BY <1>1, <1>2 DEF SnifferInv, TypeOK, FlushInv, RecordInv, Distinct

\* Tail of the queue.
LEMMA ReleaseIs ==
    ASSUME TypeOK, stopping # <<>>, Release
    PROVE  /\ stopping' \in Seq(Runs)
           /\ stopping' # <<>> => Len(stopping) > 1
           /\ batch' = <<>> /\ committed' = 0 /\ current' \in 0 .. starts
  <1>1. stopping' = Tail(stopping) /\ batch' = <<>> /\ committed' = 0 /\ current' = 0
    BY DEF Release
  <1>2. stopping' \in Seq(Runs) /\ (stopping' # <<>> => Len(stopping) > 1)
    BY <1>1 DEF TypeOK
  <1> QED
    BY <1>1, <1>2 DEF TypeOK

LEMMA FlushGoesOn ==
    ASSUME SnifferInv, FlushCommits, committed + 1 < Len(batch)
    PROVE  SnifferInv'
  <1> DEFINE r == batch[committed + 1]
  <1>1. /\ batch # <<>>
        /\ stored' = [stored EXCEPT ![r] = @ + 1]
        /\ committed' = committed + 1
        /\ UNCHANGED <<buffer, stopping, batch, current, found, refused, discarded,
                       isRunning, starts, capturing, overlapped, registered, packet>>
    BY DEF FlushCommits, Store
  <1>2. /\ committed \in Nat /\ Len(batch) \in Nat
        /\ r \in Packets /\ stored[r] = 0 /\ packet[r] = "done"
        /\ \A i \in 1 .. Len(batch) : i # committed + 1 => batch[i] # r
    BY <1>1, NextRecord
  <1> HIDE DEF r
  <1>3. /\ stored' \in [Packets -> Nat]
        /\ stored'[r] = 1
        /\ \A q \in Packets \ {r} : stored'[q] = stored[q]
    BY <1>1, <1>2 DEF SnifferInv, TypeOK
  <1>4. TypeOK'
    BY <1>1, <1>2, <1>3 DEF SnifferInv, TypeOK, FlushesAreRegistered
  <1>5. Accounted'
    <2>1. \A q \in Packets \ {r} : Kept(q) => Kept(q)'
      BY <1>1, <1>2 DEF Kept, r
    <2> QED
      BY <1>1, <1>3, <2>1 DEF SnifferInv, Accounted, TypeOK
  <1>6. StoredOnce' /\ LockInv'
    BY <1>1, <1>2, <1>3 DEF SnifferInv, StoredOnce, LockInv
  <1>7. FlushInv'
    <2>1. \A i \in 1 .. Len(batch) : batch[i] \in Packets
      BY DEF SnifferInv, TypeOK
    <2>2. \A i \in 1 .. committed' : stored'[batch[i]] > 0
      <3> TAKE i \in 1 .. committed'
      <3>1. CASE i = committed + 1
        BY <1>3, <3>1 DEF r
      <3>2. CASE i # committed + 1
        BY <1>1, <1>2, <1>3, <2>1, <3>2 DEF SnifferInv, FlushInv
      <3> QED
        BY <3>1, <3>2
    <2>3. \A i \in committed' + 1 .. Len(batch) : stored'[batch[i]] = 0
      BY <1>1, <1>2, <1>3, <2>1 DEF SnifferInv, FlushInv
    <2> QED
      BY <1>1, <2>2, <2>3 DEF SnifferInv, FlushInv
  <1>8. RecordInv'
    BY <1>1, <1>2, <1>3 DEF SnifferInv, RecordInv
  <1> QED
    BY <1>4, <1>5, <1>6, <1>7, <1>8 DEF SnifferInv

\* What the end of a flush leaves in the buffer are records of the batch that
\* the loop has not passed, and all of those unless start() has dropped them.
LEMMA FlushEnds ==
    ASSUME SnifferInv, batch # <<>>, Release,
           NEW r \in Packets, stored[r] = 0, packet[r] = "done",
           stored' = stored \/ stored' = [stored EXCEPT ![r] = 1],
           buffer' \in Seq(Packets), Distinct(buffer'),
           \A i \in 1 .. Len(buffer') : \E j \in 1 .. Len(batch) : buffer'[i] = batch[j],
           \A i \in 1 .. Len(batch) : \/ stored'[batch[i]] > 0
                                      \/ batch[i] \in discarded
                                      \/ \E j \in 1 .. Len(buffer') : buffer'[j] = batch[i],
           isRunning \/ Len(stopping) > 1 => buffer' = <<>>,
           UNCHANGED <<found, refused, discarded, isRunning, starts, capturing,
                       overlapped, registered, packet>>
    PROVE  SnifferInv'
  <1>1. stopping # <<>>
    BY DEF SnifferInv, LockInv
  <1>2. /\ stopping' \in Seq(Runs)
        /\ stopping' # <<>> => Len(stopping) > 1
        /\ batch' = <<>> /\ committed' = 0 /\ current' \in 0 .. starts
    BY <1>1, ReleaseIs DEF SnifferInv
  <1>3. /\ stored' \in [Packets -> Nat]
        /\ \A q \in Packets : stored[q] <= stored'[q] /\ stored'[q] <= 1
        /\ \A q \in Packets : packet[q] # "done" => stored'[q] = 0
    <2>1. /\ stored \in [Packets -> Nat]
          /\ \A q \in Packets : stored[q] <= 1
          /\ \A q \in Packets : packet[q] # "done" => stored[q] = 0
      BY DEF SnifferInv, TypeOK, StoredOnce, RecordInv
    <2>2. CASE stored' = stored
      BY <2>1, <2>2
    <2>3. CASE stored' = [stored EXCEPT ![r] = 1]
      BY <2>1, <2>3
    <2> QED
      BY <2>2, <2>3
  <1>4. TypeOK'
    <2>1. /\ isRunning' \in BOOLEAN /\ registered' \in BOOLEAN /\ overlapped' \in BOOLEAN
          /\ starts' \in 0 .. MaxStarts
          /\ capturing' \subseteq 1 .. starts'
          /\ packet' \in [Packets -> PacketStates]
          /\ found' \subseteq Packets /\ refused' \subseteq found' /\ discarded' \subseteq found'
      BY DEF SnifferInv, TypeOK
    <2>2. registered'
      BY <1>1 DEF SnifferInv, TypeOK, FlushesAreRegistered
    <2>3. /\ batch' \in Seq(Packets) /\ committed' \in Nat
          /\ current' \in 0 .. starts'
      BY <1>2
    <2>4. /\ buffer' \in Seq(Packets) /\ stopping' \in Seq(Runs)
          /\ stored' \in [Packets -> Nat]
      BY <1>2, <1>3
    <2> QED
      BY <2>1, <2>2, <2>3, <2>4 DEF TypeOK, FlushesAreRegistered
  <1>5. Accounted'
    <2>1. \A i \in 1 .. Len(batch) : batch[i] \in Packets
      BY DEF SnifferInv, TypeOK
    <2>2. \A q \in Packets : q \notin discarded /\ stored'[q] = 0 /\ Kept(q) => Kept(q)'
      <3> SUFFICES ASSUME NEW q \in Packets, q \notin discarded, stored'[q] = 0,
                          Kept(q), packet[q] # "committing"
                   PROVE  Kept(q)'
        BY DEF Kept
      <3>1. PICK i \in 1 .. Len(batch) : batch[i] = q
        <4>1. CASE \E i \in 1 .. Len(buffer) : buffer[i] = q
          BY <4>1 DEF SnifferInv, FlushInv
        <4>2. CASE \E i \in committed + 1 .. Len(batch) : batch[i] = q
          BY <4>2 DEF SnifferInv, TypeOK
        <4> QED
          BY <4>1, <4>2 DEF Kept
      <3> QED
        BY <3>1 DEF Kept
    <2>3. \A q \in Packets : stored[q] > 0 => stored'[q] > 0
      BY <1>3 DEF SnifferInv, TypeOK
    <2>4. found \subseteq Packets
      BY DEF SnifferInv, TypeOK
    <2>5. \A q \in Packets : stored'[q] \in Nat
      BY <1>3
    <2> QED
      BY <2>2, <2>3, <2>4, <2>5 DEF SnifferInv, Accounted
  <1>6. StoredOnce'
    BY <1>3 DEF StoredOnce
  <1>7. LockInv' /\ FlushInv'
    BY <1>2 DEF SnifferInv, LockInv, FlushInv
  <1>8. RecordInv'
    <2>1. \A i \in 1 .. Len(buffer') : packet[buffer'[i]] = "done" /\ buffer'[i] \in found
      BY DEF SnifferInv, RecordInv
    <2> QED
      BY <1>2, <1>3, <2>1 DEF SnifferInv, RecordInv, Distinct
  <1> QED
    BY <1>4, <1>5, <1>6, <1>7, <1>8 DEF SnifferInv

LEMMA FlushFinishes ==
    ASSUME SnifferInv, FlushCommits, committed + 1 = Len(batch)
    PROVE  SnifferInv'
  <1> DEFINE r == batch[committed + 1]
  <1>1. /\ batch # <<>> /\ Release /\ buffer' = <<>>
        /\ stored' = [stored EXCEPT ![r] = @ + 1]
        /\ UNCHANGED <<found, refused, discarded, isRunning, starts, capturing,
                       overlapped, registered, packet>>
    BY DEF FlushCommits, Store
  <1>2. /\ committed \in Nat /\ Len(batch) \in Nat
        /\ r \in Packets /\ stored[r] = 0 /\ packet[r] = "done"
        /\ \A i \in 1 .. Len(batch) : i # committed + 1 => batch[i] # r
    BY <1>1, NextRecord
  <1>3. \A i \in 1 .. Len(batch) : i \in 1 .. committed \/ i = committed + 1
    BY <1>2
  <1> HIDE DEF r
  <1>4. stored' = [stored EXCEPT ![r] = 1]
    BY <1>1, <1>2
  <1>5. \A i \in 1 .. Len(batch) : stored'[batch[i]] > 0
    <2> TAKE i \in 1 .. Len(batch)
    <2>1. batch[i] \in Packets
      BY DEF SnifferInv, TypeOK
    <2>2. CASE i = committed + 1
      BY <1>2, <1>4, <2>2 DEF r, SnifferInv, TypeOK
    <2>3. CASE i \in 1 .. committed
      <3>1. i # committed + 1
        BY <1>2, <2>3
      <3> QED
        BY <1>1, <1>2, <1>4, <2>1, <2>3, <3>1 DEF SnifferInv, TypeOK, FlushInv
    <2> QED
      BY <1>3, <2>2, <2>3
  <1>6. buffer' \in Seq(Packets) /\ Len(buffer') = 0 /\ Distinct(buffer')
    BY <1>1 DEF Distinct
  <1>7. \A i \in 1 .. Len(buffer') : FALSE
    BY <1>6
  <1> QED
    BY <1>1, <1>2, <1>4, <1>5, <1>6, <1>7, FlushEnds

\* A flush that is cut off keeps what it has not passed, the record it was at
\* included, whether it has been stored or not.
LEMMA FlushIsCutOff ==
    ASSUME SnifferInv, FlushInterrupted
    PROVE  SnifferInv'
  <1> DEFINE r == batch[committed + 1]
  <1>1. /\ batch # <<>> /\ Release /\ buffer' = From(buffer, committed)
        /\ stored' = [stored EXCEPT ![r] = @ + 1] \/ stored' = stored
        /\ UNCHANGED <<found, refused, discarded, isRunning, starts, capturing,
                       overlapped, registered, packet>>
    BY DEF FlushInterrupted, Store, Unflushed
  <1>2. /\ committed \in Nat /\ Len(batch) \in Nat /\ committed < Len(batch)
        /\ r \in Packets /\ stored[r] = 0 /\ packet[r] = "done"
    BY <1>1, NextRecord
  <1> HIDE DEF r
  <1>3. stored' = stored \/ stored' = [stored EXCEPT ![r] = 1]
    BY <1>1, <1>2
  <1>4. CASE buffer = <<>> /\ Range(batch) \subseteq discarded
    <2>1. buffer' = <<>>
      BY <1>1, <1>2, <1>4, RestOfNothing
    <2>2. buffer' \in Seq(Packets) /\ Len(buffer') = 0 /\ Distinct(buffer')
      BY <2>1 DEF Distinct
    <2>3. \A i \in 1 .. Len(batch) : batch[i] \in discarded
      BY <1>4, RangeIs DEF SnifferInv, TypeOK
    <2>4. \A i \in 1 .. Len(buffer') : FALSE
      BY <2>2
    <2> QED
      BY <1>1, <1>2, <1>3, <2>1, <2>2, <2>3, <2>4, FlushEnds
  <1>5. CASE buffer = batch
    <2>1. /\ buffer' \in Seq(Packets)
          /\ Len(buffer') = Len(batch) - committed
          /\ \A i \in 1 .. Len(batch) - committed : buffer'[i] = batch[committed + i]
      <3>1. batch \in Seq(Packets) /\ committed <= Len(batch)
        BY <1>2 DEF SnifferInv, TypeOK
      <3>2. buffer' = From(batch, committed)
        BY <1>1, <1>5
      <3> QED
        BY <1>2, <3>1, <3>2, RestIs
    <2>2. Distinct(buffer')
      <3> SUFFICES ASSUME NEW i \in 1 .. Len(buffer'), NEW j \in 1 .. Len(buffer'),
                          buffer'[i] = buffer'[j]
                   PROVE  i = j
        BY DEF Distinct
      <3>1. batch[committed + i] = batch[committed + j]
        BY <2>1
      <3>2. committed + i \in 1 .. Len(batch) /\ committed + j \in 1 .. Len(batch)
        BY <1>2, <2>1
      <3>3. committed + i = committed + j
        BY <3>1, <3>2 DEF SnifferInv, RecordInv, Distinct
      <3> QED
        BY <1>2, <3>3
    <2>3. \A i \in 1 .. Len(buffer') : \E j \in 1 .. Len(batch) : buffer'[i] = batch[j]
      <3> TAKE i \in 1 .. Len(buffer')
      <3>1. committed + i \in 1 .. Len(batch)
        BY <1>2, <2>1
      <3> WITNESS committed + i \in 1 .. Len(batch)
      <3> QED
        BY <2>1
    <2>4. \A i \in 1 .. Len(batch) : \/ stored'[batch[i]] > 0
                                     \/ \E j \in 1 .. Len(buffer') : buffer'[j] = batch[i]
      <3> TAKE i \in 1 .. Len(batch)
      <3>1. CASE i <= committed
        <4>1. stored[batch[i]] > 0
          BY <1>1, <1>2, <3>1 DEF SnifferInv, FlushInv
        <4>2. batch[i] \in Packets /\ stored \in [Packets -> Nat]
          BY DEF SnifferInv, TypeOK
        <4> QED
          BY <1>2, <1>3, <4>1, <4>2
      <3>2. CASE i > committed
        <4>1. i - committed \in 1 .. Len(buffer')
          BY <1>2, <2>1, <3>2
        <4>2. buffer'[i - committed] = batch[i]
          BY <1>2, <2>1, <4>1
        <4> QED
          BY <4>1, <4>2
      <3> QED
        BY <1>2, <3>1, <3>2
    <2>5. ~(isRunning \/ Len(stopping) > 1)
      BY <1>1, <1>5 DEF SnifferInv, LockInv
    <2> QED
      BY <1>1, <1>2, <1>3, <2>1, <2>2, <2>3, <2>4, <2>5, FlushEnds
  <1> QED
    BY <1>1, <1>4, <1>5 DEF SnifferInv, FlushInv

-----------------------------------------------------------------------------
LEMMA SnifferNext ==
    ASSUME SnifferInv, [Next]_vars, SnifferAssumption
    PROVE  SnifferInv'
  <1>1. CASE UNCHANGED vars
    BY <1>1
    DEF vars, captureVars, lockVars, history, SnifferInv, TypeOK, FlushesAreRegistered,
        Accounted, Kept, StoredOnce, LockInv, FlushInv, RecordInv
  <1>2. CASE Register
    <2>1. registered' /\ UNCHANGED <<captureVars, packet, buffer, lockVars, history>>
      BY <1>2 DEF Register
    <2> QED
      BY <2>1
      DEF captureVars, lockVars, history, SnifferInv, TypeOK, FlushesAreRegistered,
          Accounted, Kept, StoredOnce, LockInv, FlushInv, RecordInv
  <1>3. ASSUME NEW n \in Runs, CaptureEnds(n)
        PROVE  SnifferInv'
    <2>1. /\ capturing' \subseteq capturing
          /\ UNCHANGED <<isRunning, starts, current, overlapped, registered, packet,
                         buffer, lockVars, history>>
      BY <1>3 DEF CaptureEnds
    <2>2. capturing' \subseteq 1 .. starts
      BY <2>1 DEF SnifferInv, TypeOK
    <2> QED
      BY <2>1, <2>2
      DEF lockVars, history, SnifferInv, TypeOK, FlushesAreRegistered,
          Accounted, Kept, StoredOnce, LockInv, FlushInv, RecordInv
  <1>4. CASE FlushStep
    <2>1. CASE FlushCommits
      BY <2>1, FlushGoesOn, FlushFinishes DEF FlushCommits
    <2>2. CASE FlushInterrupted
      BY <2>2, FlushIsCutOff
    <2> QED
      BY <1>4, <2>1, <2>2 DEF FlushStep
  <1> QED
    BY <1>1, <1>2, <1>3, <1>4, StartStep, CoroutineStep, BufferStep, StopStep,
       GrantedStep DEF Next

LEMMA SnifferInvariant == Spec => []SnifferInv
  <1>1. Init => SnifferInv
    BY SnifferInit, SnifferAssumption
  <1>2. SnifferInv /\ [Next]_vars => SnifferInv'
    BY SnifferNext, SnifferAssumption
  <1> QED
    BY <1>1, <1>2, PTL DEF Spec

\* No fingerprint gets lost between the coroutine that finds it and the
\* inventory, whichever calls of start() and stop() overlap and wherever the
\* time limit cuts a flush off (_process_packet, stop, _flush_buffer).
THEOREM NoFingerprintIsLost == Spec => []RecordsAccounted
  <1>1. SnifferInv => RecordsAccounted
    <2> SUFFICES ASSUME SnifferInv, NEW p \in found \ (refused \cup discarded)
                 PROVE  p \in Pending \/ stored[p] > 0
      BY DEF RecordsAccounted, SnifferInv
    <2>1. committed <= Len(batch) /\ p \in Packets
      BY DEF SnifferInv, TypeOK, LockInv
    <2> QED
      BY <2>1, PendingIsKept DEF SnifferInv, Accounted
  <1> QED
    BY <1>1, SnifferInvariant, PTL

\* Nor does one enter the inventory twice: a record that may have been stored
\* when its flush was cut off is kept, but start() comes before the next flush.
THEOREM NoFingerprintTwice == Spec => []StoredOnce
  <1>1. SnifferInv => StoredOnce
    BY DEF SnifferInv
  <1> QED
    BY <1>1, SnifferInvariant, PTL

-----------------------------------------------------------------------------
\* Without a start() in between, a sniffer whose stop() has not returned yet
\* is not running, so that its capture is over.
CaptureInv == OneCapture /\ (~overlapped /\ stopping # <<>> => ~isRunning)

LEMMA CaptureNext ==
    ASSUME SnifferInv, CaptureInv, [Next]_vars
    PROVE  CaptureInv'
  <1>1. overlapped \in BOOLEAN /\ isRunning \in BOOLEAN
    BY DEF SnifferInv, TypeOK
  <1>2. CASE Start
    <2>1. CASE overlapped \/ stopping # <<>>
      BY <1>2, <2>1 DEF Start, CaptureInv, OneCapture
    <2>2. CASE ~overlapped /\ stopping = <<>>
      <3>1. capturing = {}
        BY <1>2, <2>2 DEF Start, CaptureInv, OneCapture
      <3>2. /\ capturing' = {current'} /\ isRunning' = TRUE
            /\ stopping' = <<>>
        BY <1>2, <2>2, <3>1 DEF Start, lockVars
      <3> QED
        BY <3>2 DEF CaptureInv, OneCapture
    <2> QED
      BY <2>1, <2>2
  <1>3. CASE StartFails
    <2>1. UNCHANGED <<isRunning, capturing, overlapped, stopping>> /\ ~isRunning
      BY <1>3 DEF StartFails, lockVars
    <2> QED
      BY <2>1 DEF CaptureInv, OneCapture
  <1>4. CASE Stop
    <2>1. /\ capturing' = capturing \ {current}
          /\ isRunning' = FALSE /\ overlapped' = overlapped
      BY <1>4 DEF Stop
    <2>2. ~overlapped => capturing' = {}
      BY <2>1 DEF CaptureInv, OneCapture
    <2> QED
      BY <1>1, <2>1, <2>2 DEF CaptureInv, OneCapture
  <1>5. CASE Granted \/ FlushStep
    <2>1. UNCHANGED <<isRunning, capturing, overlapped>> /\ stopping # <<>>
      BY <1>5 DEF Granted, FlushStep, FlushCommits, FlushInterrupted, SnifferInv, LockInv
    <2>2. ~overlapped => ~isRunning /\ capturing = {}
      BY <2>1 DEF CaptureInv, OneCapture
    <2> QED
      BY <2>1, <2>2 DEF CaptureInv, OneCapture
  <1>6. ASSUME NEW r \in Runs, CaptureEnds(r)
        PROVE  CaptureInv'
    BY <1>6 DEF CaptureEnds, CaptureInv, OneCapture, lockVars
  <1>7. ASSUME NEW p \in Packets,
               \/ Capture(p) \/ NoFingerprint(p) \/ Fingerprint(p)
               \/ CommitReturns(p) \/ CommitRaises(p)
        PROVE  CaptureInv'
    <2>1. UNCHANGED <<captureVars, stopping>>
      BY <1>7 DEF Capture, NoFingerprint, Fingerprint, CommitReturns, CommitRaises, lockVars
    <2> QED
      BY <2>1 DEF CaptureInv, OneCapture, captureVars
  <1>8. CASE Register \/ UNCHANGED vars
    BY <1>8 DEF Register, vars, CaptureInv, OneCapture, captureVars, lockVars
  <1> QED
    BY <1>2, <1>3, <1>4, <1>5, <1>6, <1>7, <1>8 DEF Next

\* Unless a start() came during a flush, one capture thread runs at most, for
\* a sniffer that says it is running, and stop() can reach it (start, stop).
THEOREM CaptureIsReachable == Spec => []OneCapture
  <1>1. Init => CaptureInv
    BY DEF Init, CaptureInv, OneCapture
  <1>2. SnifferInv /\ CaptureInv /\ [Next]_vars => CaptureInv'
    BY CaptureNext
  <1>3. CaptureInv => OneCapture
    BY DEF CaptureInv
  <1> QED
    BY <1>1, <1>2, <1>3, SnifferInvariant, PTL DEF Spec

-----------------------------------------------------------------------------
(***************************************************************************)
(* ValuesApart, VerdictMatchesFields and FingerprintsReadable of module    *)
(* ProtocolParsers.                                                        *)
(***************************************************************************)
AreTexts(f) ==
    /\ f = [name \in DOMAIN f |-> f[name]]
    /\ \A name \in DOMAIN f : f[name] \in Nat

\* The parts of an identity item that have been read are inside the item, and
\* after the last one, of which every byte is read, inside the payload.
IdentityInv ==
    /\ object \in [part : 1 .. 10, end : Nat]
    /\ offset <= object.end
    /\ object.part = 10 => offset <= size
    /\ \A i \in 1 .. object.part - 1 :
          IdentityParts[i].name \in DOMAIN fields \cup {""}

\* The texts are short where the parser does not cut them off.
ShortInv ==
    protocol = "s7comm" \/ At("ethernetip", "identity") =>
        \A name \in DOMAIN fields : fields[name] <= 24

\* No value has been taken behind the parser's position.
ParsingInv ==
    /\ ParsingTypeOK /\ AreTexts(fields) /\ ~clash
    /\ stage # "done" => status = "none" /\ taken <= offset
    /\ stage \in {"frame", "header", "items"} => fields = NoTexts /\ taken = 0
    /\ At("dnp3", "values") => object.qualifier \in DOMAIN Qualifiers
    /\ At("ethernetip", "identity") => IdentityInv
    /\ ShortInv
    /\ VerdictMatchesFields /\ FingerprintsReadable

LEMMA NothingIsTexts == AreTexts(NoTexts) /\ DOMAIN NoTexts = {}
  BY DEF AreTexts, NoTexts

LEMMA NothingInTexts ==
    ASSUME NEW f, AreTexts(f), DOMAIN f = {}
    PROVE  f = NoTexts
  BY DEF AreTexts, NoTexts

LEMMA OneIsTexts ==
    ASSUME NEW name, NEW chars \in Nat
    PROVE  /\ AreTexts(OneText(name, chars))
           /\ DOMAIN OneText(name, chars) = {name}
           /\ OneText(name, chars)[name] = chars
  BY DEF AreTexts, OneText

LEMMA MergedIsTexts ==
    ASSUME NEW f, NEW g, AreTexts(f), AreTexts(g)
    PROVE  /\ AreTexts(Merged(f, g))
           /\ DOMAIN Merged(f, g) = DOMAIN f \cup DOMAIN g
           /\ \A name \in DOMAIN f : Merged(f, g)[name] = f[name]
           /\ \A name \in DOMAIN g \ DOMAIN f : Merged(f, g)[name] = g[name]
  <1>1. DOMAIN Merged(f, g) = DOMAIN f \cup DOMAIN g
    BY DEF Merged
  <1>2. /\ \A name \in DOMAIN f : Merged(f, g)[name] = f[name]
        /\ \A name \in DOMAIN g \ DOMAIN f : Merged(f, g)[name] = g[name]
    BY DEF Merged
  <1>3. Merged(f, g) = [name \in DOMAIN Merged(f, g) |-> Merged(f, g)[name]]
    BY DEF Merged
  <1>4. \A name \in DOMAIN Merged(f, g) : Merged(f, g)[name] \in Nat
    BY <1>1, <1>2 DEF AreTexts
  <1> QED
    BY <1>1, <1>2, <1>3, <1>4 DEF AreTexts

LEMMA Limits ==
    /\ DOMAIN MaxChars = {"vendor", "model", "firmware_version"}
    /\ \A name \in DOMAIN MaxChars : MaxChars[name] \in Nat /\ 24 <= MaxChars[name]
  BY DecodingAssumption DEF MaxChars

LEMMA TruncatedIsTexts ==
    ASSUME NEW f, AreTexts(f)
    PROVE  /\ AreTexts(Truncated(f)) /\ DOMAIN Truncated(f) = DOMAIN f
           /\ \A name \in DOMAIN Truncated(f) \cap DOMAIN MaxChars :
                 Truncated(f)[name] <= MaxChars[name]
  <1>1. /\ DOMAIN Truncated(f) = DOMAIN f
        /\ Truncated(f) = [name \in DOMAIN Truncated(f) |-> Truncated(f)[name]]
    BY DEF Truncated
  <1>2. ASSUME NEW name \in DOMAIN f
        PROVE  /\ Truncated(f)[name] \in Nat
               /\ name \in DOMAIN MaxChars => Truncated(f)[name] <= MaxChars[name]
    <2>1. f[name] \in Nat
      BY DEF AreTexts
    <2>2. CASE name \in DOMAIN MaxChars
      <3>1. Truncated(f)[name] = Smaller(f[name], MaxChars[name])
        BY <2>2 DEF Truncated
      <3> QED
        BY <2>1, <2>2, <3>1, Limits DEF Smaller
    <2>3. CASE name \notin DOMAIN MaxChars
      BY <2>1, <2>3 DEF Truncated
    <2> QED
      BY <2>2, <2>3
  <1> QED
    BY <1>1, <1>2 DEF AreTexts

\* What a value that is taken leaves: it is no clash, and the field has its
\* characters.
LEMMA Taken ==
    ASSUME NEW name, NEW from \in Nat, NEW to \in Nat, NEW chars \in Nat,
           AreTexts(fields), ~clash, taken \in Nat, size \in Nat,
           taken <= from, to <= size, TakeAs(name, from, to, chars)
    PROVE  /\ AreTexts(fields') /\ DOMAIN fields' = DOMAIN fields \cup {name}
           /\ fields'[name] = chars
           /\ \A n \in DOMAIN fields \ {name} : fields'[n] = fields[n]
           /\ ~clash' /\ clash' \in BOOLEAN /\ taken' = to
  <1>1. AreTexts(OneText(name, chars)) /\ DOMAIN OneText(name, chars) = {name}
        /\ OneText(name, chars)[name] = chars
    BY OneIsTexts
  <1> DEFINE new == Merged(OneText(name, chars), fields)
  <1>2. /\ AreTexts(new) /\ DOMAIN new = DOMAIN fields \cup {name}
        /\ new[name] = chars
        /\ \A n \in DOMAIN fields \ {name} : new[n] = fields[n]
    BY <1>1, MergedIsTexts
  <1>3. fields' = new
    BY DEF TakeAs
  <1>4. /\ clash' = (clash \/ from < taken \/ to > size)
        /\ taken' = to
    BY DEF TakeAs
  <1>5. ~(from < taken) /\ ~(to > size)
    OBVIOUS
  <1> HIDE DEF new
  <1> QED
    BY <1>2, <1>3, <1>4, <1>5

\* A parser that goes on.
LEMMA ReadsOn ==
    ASSUME ParsingInv, stage # "done", UNCHANGED <<frame, protocol, status>>,
           stage' \notin {"frame", "header", "items", "done"},
           size' \in Nat, offset' \in Nat, left' \in Nat,
           taken' \in Nat, taken' <= offset', AreTexts(fields'),
           clash' = FALSE, ShortInv',
           At("dnp3", "values")' => object'.qualifier \in DOMAIN Qualifiers,
           At("ethernetip", "identity")' => IdentityInv'
    PROVE  ParsingInv'
  <1>1. status' = "none"
    BY DEF ParsingInv
  <1>2. ParsingTypeOK'
    BY <1>1 DEF ParsingInv, ParsingTypeOK, AreTexts
  <1>3. VerdictMatchesFields' /\ FingerprintsReadable'
    BY <1>1 DEF VerdictMatchesFields, FingerprintsReadable
  <1> QED
    BY <1>1, <1>2, <1>3 DEF ParsingInv

\* A parser that returns.
LEMMA Returns ==
    ASSUME ParsingInv, NEW result \in {"no_identity", "partial", "complete", "raised"},
           Return(result), taken' \in Nat, AreTexts(fields'), clash' = FALSE,
           protocol = "s7comm" => \A name \in DOMAIN fields' : fields'[name] <= 24,
           VerdictMatchesFields', FingerprintsReadable'
    PROVE  ParsingInv'
  <1>1. /\ stage' = "done" /\ status' = result
        /\ UNCHANGED <<frame, protocol, size, offset, left, object>>
    BY DEF Return, loopVars
  <1>2. ParsingTypeOK'
    BY <1>1 DEF ParsingInv, ParsingTypeOK, AreTexts
  <1>3. ShortInv'
    BY <1>1 DEF ShortInv, At
  <1> QED
    BY <1>1, <1>2, <1>3 DEF ParsingInv, At

\* Without identity: the first bytes are not those of an answer.
LEMMA GivesUp ==
    ASSUME ParsingInv, GiveUp, stage \in {"header", "items"}
    PROVE  ParsingInv'
  <1>1. /\ fields' = NoTexts /\ fields = NoTexts /\ UNCHANGED <<taken, clash>>
        /\ Return("no_identity")
    BY DEF GiveUp, fieldVars, ParsingInv
  <1>2. DOMAIN fields' = {} /\ status' = "no_identity"
    BY <1>1, NothingIsTexts DEF Return
  <1>3. VerdictMatchesFields' /\ FingerprintsReadable'
    BY <1>2 DEF VerdictMatchesFields, FingerprintsReadable
  <1>4. taken' \in Nat /\ AreTexts(fields') /\ clash' = FALSE
    BY <1>1 DEF ParsingInv, ParsingTypeOK
  <1> QED
    BY <1>1, <1>2, <1>3, <1>4, Returns

-----------------------------------------------------------------------------
\* The steps of the Modbus parser.
LEMMA ModbusReads ==
    ASSUME ParsingInv, ModbusHeader \/ ModbusObject \/ ModbusEnd
    PROVE  ParsingInv'
  <1>1. /\ size \in Nat /\ offset \in Nat /\ left \in Nat /\ taken \in Nat
        /\ AreTexts(fields) /\ ~clash /\ clash \in BOOLEAN
        /\ stage # "done" => taken <= offset
    BY DEF ParsingInv, ParsingTypeOK
  <1>2. Counts \subseteq Nat /\ Lengths \subseteq Nat
    BY DecodingAssumption
  <1>3. ASSUME At("modbus_tcp", stage), stage # "done",
               NEW count \in Nat, NEW position \in Nat,
               GoOn("objects", position, count) \/ GoOn("build", position, count),
               taken' \in Nat, taken' <= position, AreTexts(fields'), clash' = FALSE
        PROVE  ParsingInv'
    <2>1. /\ UNCHANGED <<frame, protocol, status, size>>
          /\ stage' = "objects" \/ stage' = "build"
          /\ offset' = position /\ left' = count /\ protocol = "modbus_tcp"
      BY <1>3 DEF GoOn, At
    <2>2. /\ ShortInv' /\ ~At("dnp3", "values")' /\ ~At("ethernetip", "identity")'
      BY <2>1 DEF ShortInv, At
    <2> QED
      BY <1>1, <1>3, <2>1, <2>2, ReadsOn
  <1>4. CASE ModbusHeader
    <2>1. At("modbus_tcp", "header")
      BY <1>4 DEF ModbusHeader
    <2>2. CASE GiveUp
      BY <2>1, <2>2, GivesUp DEF At
    <2>3. ASSUME NEW n \in Counts, GoOn("objects", 14, n), UNCHANGED fieldVars
          PROVE  ParsingInv'
      <3>1. /\ At("modbus_tcp", stage) /\ stage # "done" /\ n \in Nat
            /\ taken' = 0 /\ AreTexts(fields') /\ clash' = FALSE
        BY <1>1, <1>2, <2>1, <2>3 DEF At, fieldVars, ParsingInv
      <3>2. 14 \in Nat /\ 0 \in Nat /\ 0 <= 14
        OBVIOUS
      <3> QED
        BY <1>3, <2>3, <3>1, <3>2
    <2> QED
      BY <1>4, <2>2, <2>3 DEF ModbusHeader
  <1>5. CASE ModbusObject
    <2>1. PICK n \in Lengths :
            /\ ModbusValueFits(n)
            /\ \/ \E name \in ModbusNames, chars \in {0, n} :
                    TakeAs(name, offset + 2, offset + 2 + n, chars)
               \/ UNCHANGED fieldVars
            /\ GoOn("objects", offset + 2 + n, left - 1)
      BY <1>5 DEF ModbusObject
    <2>2. /\ At("modbus_tcp", stage) /\ stage # "done" /\ taken <= offset
          /\ n \in Nat /\ offset + 2 + n <= size
          /\ offset + 2 + n \in Nat /\ left - 1 \in Nat
      BY <1>1, <1>2, <1>5, <2>1 DEF ModbusObject, ModbusValueFits, At
    <2>3. /\ taken' = taken \/ taken' = offset + 2 + n
          /\ AreTexts(fields') /\ clash' = FALSE
      <3>1. CASE UNCHANGED fieldVars
        BY <1>1, <2>2, <3>1 DEF fieldVars
      <3>2. ASSUME NEW name \in ModbusNames, NEW chars \in {0, n},
                   TakeAs(name, offset + 2, offset + 2 + n, chars)
            PROVE  /\ AreTexts(fields') /\ clash' = FALSE
                   /\ taken' = offset + 2 + n
        <4>1. /\ offset + 2 \in Nat /\ offset + 2 + n \in Nat /\ chars \in Nat
              /\ taken <= offset + 2
          BY <1>1, <2>2, <3>2
        <4> QED
          BY <1>1, <2>2, <3>2, <4>1, Taken
      <3> QED
        BY <2>1, <3>1, <3>2
    <2>4. taken' \in Nat /\ taken' <= offset + 2 + n
      BY <1>1, <2>2, <2>3
    <2> QED
      BY <1>3, <2>1, <2>2, <2>3, <2>4
  <1>6. CASE ModbusEnd
    <2>1. /\ At("modbus_tcp", stage) /\ stage # "done"
          /\ GoOn("build", offset, 0) /\ UNCHANGED fieldVars
      BY <1>6 DEF ModbusEnd, At
    <2> QED
      BY <1>1, <1>3, <2>1 DEF fieldVars
  <1> QED
    BY <1>4, <1>5, <1>6

\* The verdict counts what the fields hold, cut off at the limits.
LEMMA ModbusBuilds ==
    ASSUME ParsingInv, ModbusBuild
    PROVE  ParsingInv'
  <1> DEFINE texts == Truncated(Merged(ModbusModel, fields))
             key == {"vendor", "model", "firmware_version"}
             counted == {name \in key \cap DOMAIN texts : texts[name] > 0}
             result == IF fields = NoTexts THEN "no_identity"
                       ELSE IF counted = key THEN "complete" ELSE "partial"
  <1>1. /\ protocol = "modbus_tcp" /\ fields' = texts /\ Return(result)
        /\ UNCHANGED <<taken, clash>>
    BY DEF ModbusBuild, At
  <1>2. AreTexts(fields) /\ taken \in Nat /\ ~clash /\ clash \in BOOLEAN
    BY DEF ParsingInv, ParsingTypeOK
  <1>3. AreTexts(ModbusModel)
        /\ (DOMAIN fields = {} => DOMAIN ModbusModel = {})
    <2>1. \A name \in DOMAIN fields : fields[name] \in Nat
      BY <1>2 DEF AreTexts
    <2> QED
      BY <2>1, NothingIsTexts, OneIsTexts DEF ModbusModel
  <1>4. /\ AreTexts(texts)
        /\ DOMAIN texts = DOMAIN ModbusModel \cup DOMAIN fields
        /\ \A name \in DOMAIN texts \cap DOMAIN MaxChars :
              texts[name] <= MaxChars[name]
    BY <1>2, <1>3, MergedIsTexts, TruncatedIsTexts
  <1> HIDE DEF texts
  <1>5. FingerprintsReadable'
    BY <1>1, <1>4 DEF FingerprintsReadable, MaxChars
  <1>6. status' = result /\ protocol' = "modbus_tcp"
    BY <1>1 DEF Return
  <1>7. fields = NoTexts \/ DOMAIN fields # {}
    BY <1>2, NothingInTexts
  <1>8. VerdictMatchesFields'
    <2>1. \A name \in DOMAIN texts : texts[name] \in Nat
      BY <1>4 DEF AreTexts
    <2>2. CASE fields = NoTexts
      <3>1. DOMAIN texts = {}
        BY <1>3, <1>4, <2>2, NothingIsTexts
      <3> QED
        BY <1>1, <1>6, <2>2, <3>1 DEF VerdictMatchesFields
    <2>3. CASE fields # NoTexts
      <3>1. DOMAIN texts # {}
        BY <1>4, <1>7, <2>3
      <3> QED
        BY <1>1, <1>6, <2>1, <2>3, <3>1 DEF VerdictMatchesFields
    <2> QED
      BY <2>2, <2>3
  <1>9. result \in {"no_identity", "partial", "complete", "raised"}
    OBVIOUS
  <1> HIDE DEF result
  <1> QED
    BY <1>1, <1>2, <1>4, <1>5, <1>8, <1>9, Returns

-----------------------------------------------------------------------------
\* The steps of the DNP3 parser.
LEMMA UserDataType ==
    ASSUME NEW length \in Nat
    PROVE  UserData(length) \in Nat
  <1> DEFINE there == {i \in 0 .. length - 6 : 10 + i + 2 * (i \div 16) < size}
  <1>1. IsFiniteSet(0 .. length - 6) /\ there \subseteq 0 .. length - 6
    BY FS_Interval
  <1> HIDE DEF there
  <1>2. Cardinality(there) \in Nat
    BY <1>1, FS_Subset, FS_CardinalityType
  <1> QED
    BY <1>2 DEF UserData, there

LEMMA QualifierTypes ==
    ASSUME NEW q \in DOMAIN Qualifiers
    PROVE  Qualifiers[q].head \in Nat /\ Qualifiers[q].prefix \in Nat
  BY DEF Qualifiers

\* A value of n bytes that lies between the parser's old position and its new
\* one.
LEMMA ValueTaken ==
    ASSUME ParsingInv, NEW from \in Nat, NEW n \in Nat,
           taken <= from, from + n <= size, TakeValue(from, n)
    PROVE  /\ taken' = taken \/ taken' = from + n
           /\ AreTexts(fields') /\ clash' = FALSE
  <1>1. /\ size \in Nat /\ taken \in Nat /\ AreTexts(fields)
        /\ ~clash /\ clash \in BOOLEAN
    BY DEF ParsingInv, ParsingTypeOK
  <1>2. CASE UNCHANGED fieldVars
    BY <1>1, <1>2 DEF fieldVars
  <1>3. ASSUME NEW chars \in Decoded(n),
               TakeAs(object.name, from, from + n, chars)
        PROVE  /\ taken' = from + n
               /\ AreTexts(fields') /\ clash' = FALSE
    <2>1. chars \in Nat /\ from + n \in Nat
      BY <1>3 DEF Decoded, LongestNumber
    <2> QED
      BY <1>1, <1>3, <2>1, Taken
  <1> QED
    BY <1>2, <1>3 DEF TakeValue

\* The parser goes on in the loops of objects and values.
LEMMA Dnp3ReadsOn ==
    ASSUME ParsingInv, protocol = "dnp3", stage \in {"objects", "values"},
           NEW state \in {"objects", "values", "build"},
           NEW position \in Nat, NEW count \in Nat, GoOn(state, position, count),
           taken' \in Nat, taken' <= position, AreTexts(fields'), clash' = FALSE,
           state = "values" => object'.qualifier \in DOMAIN Qualifiers
    PROVE  ParsingInv'
  <1>1. /\ stage' = state /\ offset' = position /\ left' = count
        /\ UNCHANGED <<frame, protocol, size, status>>
    BY DEF GoOn
  <1>2. /\ ShortInv' /\ ~At("ethernetip", "identity")'
        /\ At("dnp3", "values")' => state = "values"
    BY <1>1 DEF ShortInv, At
  <1>3. size' \in Nat
    BY <1>1 DEF ParsingInv, ParsingTypeOK
  <1> QED
    BY <1>1, <1>2, <1>3, ReadsOn

LEMMA Dnp3Begins ==
    ASSUME ParsingInv, Dnp3Header
    PROVE  ParsingInv'
  <1>1. At("dnp3", "header")
    BY DEF Dnp3Header
  <1>2. CASE GiveUp
    BY <1>1, <1>2, GivesUp DEF At
  <1>3. CASE ~GiveUp
    <2>1. PICK length \in LinkLengths : /\ UserData(length) >= 5
                                        /\ size' = UserData(length) - 5
      BY <1>3 DEF Dnp3Header
    <2>2. UserData(length) \in Nat
      BY UserDataType, LinkAssumption
    <2>3. size' \in Nat
      BY <2>1, <2>2
    <2>4. /\ stage' = "objects" /\ offset' = 0 /\ left' = 0
          /\ UNCHANGED <<frame, protocol, object, fields, taken, clash, status>>
      BY <1>3 DEF Dnp3Header, fieldVars
    <2>5. /\ taken' = 0 /\ AreTexts(fields') /\ clash' = FALSE
          /\ stage # "done" /\ offset' \in Nat /\ left' \in Nat
          /\ taken' \in Nat /\ taken' <= offset'
      BY <1>1, <2>4 DEF ParsingInv, ParsingTypeOK, At
    <2>6. /\ ShortInv' /\ ~At("dnp3", "values")'
          /\ ~At("ethernetip", "identity")'
      BY <1>1, <2>4 DEF ShortInv, At
    <2> QED
      BY <2>3, <2>4, <2>5, <2>6, ReadsOn
  <1> QED
    BY <1>2, <1>3

LEMMA Dnp3Reads ==
    ASSUME ParsingInv,
           Dnp3Object \/ Dnp3End \/ Dnp3Value \/ Dnp3SizedValue \/ Dnp3ValuesEnd
    PROVE  ParsingInv'
  <1>1. /\ protocol = "dnp3" /\ stage \in {"objects", "values"}
        /\ Dnp3Value \/ Dnp3SizedValue => stage = "values"
    BY DEF Dnp3Object, Dnp3End, Dnp3Value, Dnp3SizedValue, Dnp3ValuesEnd, At
  <1>2. /\ size \in Nat /\ offset \in Nat /\ left \in Nat /\ taken \in Nat
        /\ taken <= offset /\ AreTexts(fields) /\ clash = FALSE
        /\ stage = "values" => object.qualifier \in DOMAIN Qualifiers
    BY <1>1 DEF ParsingInv, ParsingTypeOK, At
  <1>3. Counts \subseteq Nat /\ Lengths \subseteq Nat
    BY DecodingAssumption
  <1>4. CASE Dnp3Object
    <2>1. PICK q \in DOMAIN Qualifiers, name \in Dnp3Names, n \in Counts :
             /\ object' = [qualifier |-> q, name |-> name]
             /\ GoOn("values", offset + 3 + Qualifiers[q].head, n)
      BY <1>4 DEF Dnp3Object
    <2>2. Qualifiers[q].head \in Nat
      BY QualifierTypes
    <2>3. /\ offset + 3 + Qualifiers[q].head \in Nat
          /\ taken <= offset + 3 + Qualifiers[q].head
      BY <1>2, <2>2
    <2>4. /\ taken' = taken /\ AreTexts(fields') /\ clash' = FALSE
          /\ object'.qualifier = q
      BY <1>2, <1>4, <2>1 DEF Dnp3Object, fieldVars
    <2> QED
      BY <1>1, <1>2, <1>3, <2>1, <2>3, <2>4, Dnp3ReadsOn
  <1>5. CASE Dnp3End \/ Dnp3ValuesEnd
    <2>1. /\ GoOn("build", offset, 0) \/ GoOn("objects", offset, 0)
          /\ taken' = taken /\ AreTexts(fields') /\ clash' = FALSE
      BY <1>2, <1>5 DEF Dnp3End, Dnp3ValuesEnd, fieldVars
    <2> QED
      BY <1>1, <1>2, <2>1, Dnp3ReadsOn
  <1>6. CASE Dnp3Value
    <2> DEFINE from == offset + Qualifiers[object.qualifier].prefix
    <2>1. /\ object' = object /\ left > 0 /\ from <= size
          /\ \/ GoOn("values", from, left - 1) /\ UNCHANGED fieldVars
             \/ \E n \in Lengths :
                   IF Dnp3Fits(from + 2, n, size)
                   THEN /\ TakeValue(from + 2, n)
                        /\ GoOn("values", from + 2 + n, left - 1)
                   ELSE /\ UNCHANGED fieldVars
                        /\ GoOn("values", from + 2, left - 1)
      BY <1>6 DEF Dnp3Value
    <2>2. Qualifiers[object.qualifier].prefix \in Nat
      BY <1>1, <1>2, <1>6, QualifierTypes
    <2>3. /\ from \in Nat /\ from + 2 \in Nat /\ left - 1 \in Nat
          /\ taken <= from /\ taken <= from + 2
      BY <1>2, <2>1, <2>2
    <2> HIDE DEF from
    <2>4. ASSUME UNCHANGED fieldVars, NEW position \in Nat, taken <= position,
                 GoOn("values", position, left - 1)
          PROVE  ParsingInv'
      <3>1. taken' = taken /\ AreTexts(fields') /\ clash' = FALSE
        BY <1>2, <2>4 DEF fieldVars
      <3> QED
        BY <1>1, <1>2, <1>6, <2>1, <2>3, <2>4, <3>1, Dnp3ReadsOn
    <2>5. ASSUME NEW n \in Lengths, Dnp3Fits(from + 2, n, size),
                 TakeValue(from + 2, n), GoOn("values", from + 2 + n, left - 1)
          PROVE  ParsingInv'
      <3>1. n \in Nat /\ from + 2 + n \in Nat /\ from + 2 + n <= size
        BY <1>3, <2>3, <2>5 DEF Dnp3Fits
      <3>2. /\ taken' = taken \/ taken' = from + 2 + n
            /\ AreTexts(fields') /\ clash' = FALSE
        BY <2>3, <2>5, <3>1, ValueTaken
      <3>3. taken' \in Nat /\ taken' <= from + 2 + n
        BY <1>2, <2>3, <3>1, <3>2
      <3> QED
        BY <1>1, <1>2, <1>6, <2>1, <2>3, <2>5, <3>1, <3>2, <3>3, Dnp3ReadsOn
    <2> QED
      BY <2>1, <2>3, <2>4, <2>5
  <1>7. CASE Dnp3SizedValue
    <2> DEFINE from == offset + 2
    <2>1. PICK n \in Lengths, m \in {0, 2} \cup {k + 2 : k \in Lengths} :
             IF from + m > size
             THEN GoOn("values", from, 0) /\ UNCHANGED fieldVars
             ELSE /\ IF m >= 2 /\ Dnp3Fits(from + 2, n, from + m)
                     THEN TakeValue(from + 2, n) ELSE UNCHANGED fieldVars
                  /\ GoOn("values", from + m, left - 1)
      BY <1>7 DEF Dnp3SizedValue
    <2>2. object' = object /\ left > 0
      BY <1>7 DEF Dnp3SizedValue
    <2>3. /\ from \in Nat /\ from + 2 \in Nat /\ left - 1 \in Nat
          /\ taken <= from /\ taken <= from + 2
          /\ n \in Nat /\ m \in Nat /\ from + m \in Nat
      BY <1>2, <1>3, <2>2
    <2> HIDE DEF from
    <2>4. CASE from + m > size
      <3>1. taken' = taken /\ AreTexts(fields') /\ clash' = FALSE
        BY <1>2, <2>1, <2>4 DEF fieldVars
      <3> QED
        BY <1>1, <1>2, <1>7, <2>1, <2>2, <2>3, <2>4, <3>1, Dnp3ReadsOn
    <2>5. CASE ~(from + m > size)
      <3>1. /\ GoOn("values", from + m, left - 1)
            /\ from + m <= size /\ taken <= from + m
        BY <1>2, <2>1, <2>3, <2>5
      <3>2. /\ \/ taken' = taken
               \/ taken' = from + 2 + n /\ from + 2 + n <= from + m
            /\ AreTexts(fields') /\ clash' = FALSE
        <4>1. CASE m >= 2 /\ Dnp3Fits(from + 2, n, from + m)
          <5>1. from + 2 + n <= from + m /\ from + 2 + n <= size
            BY <1>2, <2>3, <3>1, <4>1 DEF Dnp3Fits
          <5> QED
            BY <2>1, <2>3, <2>5, <4>1, <5>1, ValueTaken
        <4>2. CASE ~(m >= 2 /\ Dnp3Fits(from + 2, n, from + m))
          BY <1>2, <2>1, <2>5, <4>2 DEF fieldVars
        <4> QED
          BY <4>1, <4>2
      <3>3. taken' \in Nat /\ taken' <= from + m
        BY <1>2, <2>3, <3>1, <3>2
      <3> QED
        BY <1>1, <1>2, <1>7, <2>2, <2>3, <3>1, <3>2, <3>3, Dnp3ReadsOn
    <2> QED
      BY <2>4, <2>5
  <1> QED
    BY <1>4, <1>5, <1>6, <1>7

\* Where the verdict is that of the fields a parser counts.
LEMMA VerdictCounts ==
    ASSUME NEW key, key # {}, protocol' \in {"dnp3", "s7comm"},
           key = IF protocol' = "dnp3" THEN Dnp3Key ELSE S7Key,
           status' = Verdict(key \cap DOMAIN fields', key)
    PROVE  VerdictMatchesFields'
  <1>1. /\ status' = "complete" => key \subseteq DOMAIN fields'
        /\ status' = "partial" => /\ DOMAIN fields' # {}
                                  /\ ~(key \subseteq DOMAIN fields')
        /\ status' = "no_identity" => key \cap DOMAIN fields' = {}
    BY DEF Verdict
  <1>2. {name \in DOMAIN fields' : protocol' = "modbus_tcp" => fields'[name] > 0}
            = DOMAIN fields'
    OBVIOUS
  <1> QED
    BY <1>1, <1>2 DEF VerdictMatchesFields

LEMMA Dnp3Builds ==
    ASSUME ParsingInv, Dnp3Build
    PROVE  ParsingInv'
  <1> DEFINE result == Verdict(Dnp3Key \cap DOMAIN fields, Dnp3Key)
  <1>1. /\ protocol = "dnp3" /\ fields' = Truncated(fields) /\ Return(result)
        /\ UNCHANGED <<taken, clash>>
    BY DEF Dnp3Build, At
  <1>2. AreTexts(fields) /\ taken' \in Nat /\ clash' = FALSE
    BY <1>1 DEF ParsingInv, ParsingTypeOK
  <1>3. /\ AreTexts(fields') /\ DOMAIN fields' = DOMAIN fields
        /\ \A name \in DOMAIN fields' \cap DOMAIN MaxChars :
              fields'[name] <= MaxChars[name]
    BY <1>1, <1>2, TruncatedIsTexts
  <1>4. FingerprintsReadable'
    BY <1>3 DEF FingerprintsReadable, MaxChars
  <1>5. status' = result /\ protocol' = "dnp3"
    BY <1>1 DEF Return
  <1>6. VerdictMatchesFields'
    BY <1>3, <1>5, VerdictCounts DEF Dnp3Key
  <1>7. result \in {"no_identity", "partial", "complete", "raised"}
    BY DEF Verdict
  <1> HIDE DEF result
  <1> QED
    BY <1>1, <1>2, <1>3, <1>4, <1>6, <1>7, Returns

-----------------------------------------------------------------------------
\* The steps of the S7comm parser.
AreShort(f) == AreTexts(f) /\ \A name \in DOMAIN f : f[name] <= 24

LEMMA FirstTextIsShort ==
    ASSUME NEW field, NEW szl \in {Szl0011, Szl001C}, NEW texts
    PROVE  AreShort(FirstText(field, szl, texts))
  <1>1. CASE texts = {}
    BY <1>1, NothingIsTexts DEF FirstText, AreShort
  <1>2. CASE texts # {}
    <2> DEFINE chars == Text(szl, IF "name" \in texts THEN "name" ELSE "extra")
    <2>1. chars \in Nat /\ chars <= 24
      BY DEF Text, Szl0011, Szl001C
    <2>2. FirstText(field, szl, texts) = OneText(field, chars)
      BY <1>2 DEF FirstText
    <2> HIDE DEF chars
    <2>3. /\ AreTexts(OneText(field, chars))
          /\ DOMAIN OneText(field, chars) = {field}
          /\ OneText(field, chars)[field] = chars
      BY <2>1, OneIsTexts
    <2>4. AreShort(OneText(field, chars))
      BY <2>1, <2>3 DEF AreShort
    <2> QED
      BY <2>2, <2>4
  <1> QED
    BY <1>1, <1>2

LEMMA MergedIsShort ==
    ASSUME NEW f, NEW g, AreShort(f), AreShort(g)
    PROVE  AreShort(Merged(f, g))
  <1> DEFINE new == Merged(f, g)
  <1>1. /\ AreTexts(new)
        /\ DOMAIN new = DOMAIN f \cup DOMAIN g
        /\ \A name \in DOMAIN f : new[name] = f[name]
        /\ \A name \in DOMAIN g \ DOMAIN f : new[name] = g[name]
    BY MergedIsTexts DEF AreShort
  <1> HIDE DEF new
  <1>2. \A name \in DOMAIN new : new[name] <= 24
    BY <1>1 DEF AreShort
  <1> QED
    BY <1>1, <1>2 DEF AreShort, new

LEMMA FoundIsShort ==
    ASSUME NEW index, NEW texts
    PROVE  AreShort(Found0011(index, texts)) /\ AreShort(Found001C(index, texts))
  <1>1. AreShort(NoTexts)
    BY NothingIsTexts DEF AreShort
  <1>2. AreShort(Found0011(index, texts))
    BY <1>1, FirstTextIsShort, MergedIsShort DEF Found0011
  <1>3. AreShort(Found001C(index, texts))
    BY <1>1, FirstTextIsShort DEF Found001C
  <1> QED
    BY <1>2, <1>3

\* The parser goes on in the loops of records.
LEMMA S7ReadsOn ==
    ASSUME ParsingInv, protocol = "s7comm", stage # "done",
           stage' \in {"szl0011", "szl001C", "firmware", "build"},
           UNCHANGED <<frame, protocol, status>>,
           size' \in Nat, offset' \in Nat, left' \in Nat,
           taken' \in Nat, taken' <= offset', AreShort(fields'), clash' = FALSE
    PROVE  ParsingInv'
  <1>1. /\ ShortInv' /\ ~At("dnp3", "values")' /\ ~At("ethernetip", "identity")'
    BY DEF ShortInv, At, AreShort
  <1> QED
    BY <1>1, ReadsOn DEF AreShort

LEMMA S7Begins ==
    ASSUME ParsingInv, S7Header
    PROVE  ParsingInv'
  <1>1. At("s7comm", "header") /\ protocol = "s7comm" /\ stage # "done"
    BY DEF S7Header, At
  <1>2. CASE GiveUp
    BY <1>1, <1>2, GivesUp DEF At
  <1>3. CASE ~GiveUp
    <2>1. /\ size' \in Nat
          /\ stage' \in {"szl0011", "szl001C"} /\ offset' = 0 /\ left' = 0
          /\ UNCHANGED <<frame, protocol, fields, taken, clash, status>>
      BY <1>3 DEF S7Header, RecordBytes, fieldVars
    <2>2. /\ taken' = 0 /\ fields' = NoTexts /\ clash' = FALSE
      BY <1>1, <2>1 DEF ParsingInv, ParsingTypeOK, At
    <2>3. AreShort(fields')
      BY <2>2, NothingIsTexts DEF AreShort
    <2>4. /\ offset' \in Nat /\ left' \in Nat /\ taken' \in Nat
          /\ taken' <= offset'
      BY <2>1, <2>2
    <2> QED
      BY <1>1, <2>1, <2>2, <2>3, <2>4, S7ReadsOn
  <1> QED
    BY <1>2, <1>3

LEMMA S7Reads ==
    ASSUME ParsingInv, S7Record0011 \/ S7Record001C
    PROVE  ParsingInv'
  <1>1. /\ size \in Nat /\ offset \in Nat /\ left \in Nat /\ taken \in Nat
        /\ clash = FALSE /\ AreTexts(fields)
    BY DEF ParsingInv, ParsingTypeOK
  <1>2. ASSUME At("s7comm", stage), stage # "done",
               NEW szl \in {Szl0011, Szl001C}, S7RecordFits(szl),
               NEW new, AreShort(new), TakeTexts(new, offset + szl.extra),
               NEW state \in {"szl0011", "szl001C"},
               GoOn(state, offset + szl.record, 0)
        PROVE  ParsingInv'
    <2>1. /\ szl.extra \in Nat /\ szl.record \in Nat /\ szl.extra <= szl.record
          /\ offset + szl.record <= size
      BY <1>2 DEF Szl0011, Szl001C, S7RecordFits
    <2>2. protocol = "s7comm" /\ AreShort(fields) /\ taken <= offset
      BY <1>1, <1>2 DEF ParsingInv, ShortInv, At, AreShort
    <2>3. /\ fields' = Merged(new, fields)
          /\ taken' = offset + szl.extra
          /\ clash' = (clash \/ offset < taken \/ offset + szl.extra > size)
      BY <1>2 DEF TakeTexts
    <2>4. AreShort(fields')
      BY <1>2, <2>2, <2>3, MergedIsShort
    <2>5. ~(offset < taken) /\ ~(offset + szl.extra > size)
      BY <1>1, <2>1, <2>2
    <2>6. /\ taken' \in Nat /\ taken' <= offset + szl.record
          /\ offset + szl.record \in Nat
      BY <1>1, <2>1, <2>3
    <2>7. /\ offset' = offset + szl.record /\ left' = 0 /\ stage' = state
          /\ UNCHANGED <<frame, protocol, size, status>>
      BY <1>2 DEF GoOn
    <2>8. size' \in Nat /\ offset' \in Nat /\ left' \in Nat /\ taken' <= offset'
      BY <1>1, <2>6, <2>7
    <2>9. clash' = FALSE
      BY <1>1, <2>3, <2>5
    <2> QED
      BY <1>2, <2>2, <2>4, <2>6, <2>7, <2>8, <2>9, S7ReadsOn
  <1>3. CASE S7Record0011
    <2>1. PICK index \in S7Indexes, texts \in S7Texts :
             TakeTexts(Found0011(index, texts), offset + Szl0011.extra)
      BY <1>3 DEF S7Record0011
    <2>2. /\ At("s7comm", stage) /\ stage # "done" /\ S7RecordFits(Szl0011)
          /\ GoOn("szl0011", offset + Szl0011.record, 0)
      BY <1>3 DEF S7Record0011, At
    <2> QED
      BY <1>2, <2>1, <2>2, FoundIsShort
  <1>4. CASE S7Record001C
    <2>1. PICK index \in S7Indexes, texts \in S7Texts :
             TakeTexts(Found001C(index, texts), offset + Szl001C.extra)
      BY <1>4 DEF S7Record001C
    <2>2. /\ At("s7comm", stage) /\ stage # "done" /\ S7RecordFits(Szl001C)
          /\ GoOn("szl001C", offset + Szl001C.record, 0)
      BY <1>4 DEF S7Record001C, At
    <2> QED
      BY <1>2, <2>1, <2>2, FoundIsShort
  <1> QED
    BY <1>3, <1>4

LEMMA S7Ends ==
    ASSUME ParsingInv, S7RecordsEnd \/ S7Firmware
    PROVE  ParsingInv'
  <1>1. protocol = "s7comm" /\ stage # "done"
    BY DEF S7RecordsEnd, S7Firmware, At
  <1>2. /\ AreShort(fields) /\ taken <= offset /\ clash = FALSE
        /\ size \in Nat /\ offset \in Nat /\ left \in Nat /\ taken \in Nat
    BY <1>1 DEF ParsingInv, ParsingTypeOK, ShortInv, AreShort
  <1>3. CASE S7RecordsEnd
    <2>1. /\ stage' \in {"build", "firmware"}
          /\ UNCHANGED <<frame, protocol, size, offset, left, fields, taken,
                         clash, status>>
      BY <1>3 DEF S7RecordsEnd, loopVars, fieldVars
    <2> QED
      BY <1>1, <1>2, <2>1, S7ReadsOn
  <1>4. CASE S7Firmware
    <2>1. AreShort(NoTexts)
      BY NothingIsTexts DEF AreShort
    <2>2. \E firmware : AreShort(firmware) /\ fields' = Merged(firmware, fields)
      BY <1>4, <2>1, FirstTextIsShort DEF S7Firmware
    <2>3. AreShort(fields')
      BY <1>2, <2>2, MergedIsShort
    <2>4. /\ stage' \in {"build", "firmware"}
          /\ UNCHANGED <<frame, protocol, size, offset, left, taken, clash, status>>
      BY <1>4 DEF S7Firmware
    <2> QED
      BY <1>1, <1>2, <2>3, <2>4, S7ReadsOn
  <1> QED
    BY <1>3, <1>4

LEMMA S7Builds ==
    ASSUME ParsingInv, S7Build
    PROVE  ParsingInv'
  <1> DEFINE result == Verdict(S7Key \cap DOMAIN fields, S7Key)
  <1>1. /\ protocol = "s7comm" /\ fields' = fields /\ Return(result)
        /\ UNCHANGED <<taken, clash>>
    BY DEF S7Build, At, fieldVars
  <1>2. AreShort(fields') /\ taken' \in Nat /\ clash' = FALSE
    BY <1>1 DEF ParsingInv, ParsingTypeOK, ShortInv, AreShort
  <1>3. status' = result /\ protocol' = "s7comm"
    BY <1>1 DEF Return
  <1>4. FingerprintsReadable'
    <2>1. \A name \in DOMAIN fields' \cap DOMAIN MaxChars :
              fields'[name] <= MaxChars[name]
      BY <1>2, Limits DEF AreShort, AreTexts
    <2> QED
      BY <2>1 DEF FingerprintsReadable, MaxChars
  <1>5. VerdictMatchesFields'
    BY <1>1, <1>3, VerdictCounts DEF S7Key
  <1>6. result \in {"no_identity", "partial", "complete", "raised"}
    BY DEF Verdict
  <1> HIDE DEF result
  <1> QED
    BY <1>1, <1>2, <1>4, <1>5, <1>6, Returns DEF AreShort

-----------------------------------------------------------------------------
\* The steps of the EtherNet/IP parser.
LEMMA PartTypes ==
    /\ Len(IdentityParts) = 9
    /\ \A i \in 1 .. 9 :
          /\ IdentityParts[i].width \in Nat /\ IdentityParts[i].reads \in Nat
          /\ IdentityParts[i].chars \in 0 .. 24
          /\ IdentityParts[i].reads <= IdentityParts[i].width
          /\ i = 9 => IdentityParts[i].reads = IdentityParts[i].width
    /\ EipFields \ {"model"} \subseteq {IdentityParts[i].name : i \in 1 .. 9}
  <1>1. /\ Len(IdentityParts) = 9
        /\ \A i \in 1 .. 9 : \/ i = 1 \/ i = 2 \/ i = 3 \/ i = 4 \/ i = 5
                             \/ i = 6 \/ i = 7 \/ i = 8 \/ i = 9
    BY DEF IdentityParts
  <1> DEFINE Reads(i, width, reads, chars) ==
                /\ IdentityParts[i].width = width
                /\ IdentityParts[i].reads = reads
                /\ IdentityParts[i].chars = chars
  <1>2. /\ Reads(1, 2, 0, 0)  /\ Reads(2, 16, 8, 15) /\ Reads(3, 2, 2, 14)
        /\ Reads(4, 2, 2, 3)  /\ Reads(5, 2, 2, 5)   /\ Reads(6, 2, 2, 7)
        /\ Reads(7, 2, 0, 0)  /\ Reads(8, 4, 4, 8)   /\ Reads(9, 1, 1, 0)
    BY DEF IdentityParts
  <1>3. ASSUME NEW i \in 1 .. 9
        PROVE  /\ IdentityParts[i].width \in Nat /\ IdentityParts[i].reads \in Nat
               /\ IdentityParts[i].chars \in 0 .. 24
               /\ IdentityParts[i].reads <= IdentityParts[i].width
               /\ i = 9 => IdentityParts[i].reads = IdentityParts[i].width
    BY <1>1, <1>2
  <1>4. /\ IdentityParts[3].name = "vendor" /\ IdentityParts[4].name = "device_type"
        /\ IdentityParts[5].name = "product_code"
        /\ IdentityParts[6].name = "firmware_version"
        /\ IdentityParts[8].name = "serial_number"
    BY DEF IdentityParts
  <1>5. EipFields \ {"model"} \subseteq {IdentityParts[i].name : i \in 1 .. 9}
    BY <1>4 DEF EipFields
  <1> QED
    BY <1>1, <1>3, <1>5

\* What the parser returns has at least one field, and all of them if the
\* whole item was read; a name that is too long raises.
LEMMA EipVerdict ==
    ASSUME ParsingInv, protocol' = "ethernetip", AreTexts(fields'),
           \A name \in DOMAIN fields' \ {"model"} : fields'[name] <= 24,
           \/ status' = Partial(fields')
           \/ /\ status' = Built("complete", fields')
              /\ EipFields \ {"model"} \subseteq DOMAIN fields'
    PROVE  /\ VerdictMatchesFields' /\ FingerprintsReadable'
           /\ status' \in {"no_identity", "partial", "complete", "raised"}
  <1>1. \/ status' = "raised"
        \/ /\ status' = "no_identity" /\ DOMAIN fields' \cap EipFields = {}
        \/ /\ status' = "partial" /\ DOMAIN fields' # {}
           /\ "model" \in DOMAIN fields' => ~(fields'["model"] > MaxChars["model"])
        \/ /\ status' = "complete" /\ EipFields \ {"model"} \subseteq DOMAIN fields'
           /\ "model" \in DOMAIN fields' => ~(fields'["model"] > MaxChars["model"])
    BY DEF Partial, Built
  <1>2. VerdictMatchesFields'
    <2>1. {name \in DOMAIN fields' : protocol' = "modbus_tcp" => fields'[name] > 0}
              = DOMAIN fields'
      OBVIOUS
    <2>2. /\ status' = "complete" => EipFields \ {"model"} \subseteq DOMAIN fields'
          /\ status' = "partial" => DOMAIN fields' # {}
          /\ status' = "no_identity" =>
                (EipFields \ {"model"}) \cap DOMAIN fields' = {}
      BY <1>1
    <2> QED
      BY <2>1, <2>2 DEF VerdictMatchesFields
  <1>3. ASSUME NEW name \in DOMAIN fields' \cap DOMAIN MaxChars,
               status' \in {"complete", "partial"}
        PROVE  fields'[name] <= MaxChars[name]
    <2>1. /\ fields'[name] \in Nat /\ MaxChars[name] \in Nat
          /\ 24 <= MaxChars[name]
      BY Limits DEF AreTexts
    <2>2. CASE name = "model"
      <3>1. ~(fields'["model"] > MaxChars["model"])
        BY <1>1, <1>3, <2>2
      <3> QED
        BY <2>1, <2>2, <3>1
    <2>3. CASE name # "model"
      <3>1. fields'[name] <= 24
        BY <2>3
      <3> QED
        BY <2>1, <3>1
    <2> QED
      BY <2>2, <2>3
  <1>4. FingerprintsReadable'
    BY <1>3 DEF FingerprintsReadable, MaxChars
  <1> QED
    BY <1>1, <1>2, <1>4

LEMMA EipBegins ==
    ASSUME ParsingInv, EipHeader \/ EipOtherItem \/ EipItemsEnd
    PROVE  ParsingInv'
  <1>1. protocol = "ethernetip" /\ stage \in {"header", "items"}
    BY DEF EipHeader, EipOtherItem, EipItemsEnd, At
  <1>2. CASE GiveUp
    BY <1>1, <1>2, GivesUp
  <1>3. CASE ~GiveUp
    <2>1. /\ size \in Nat /\ offset \in Nat /\ left \in Nat
          /\ Counts \subseteq Nat /\ ItemLengths \subseteq Nat
      BY DecodingAssumption, ItemAssumption DEF ParsingInv, ParsingTypeOK
    <2>2. PICK position \in Nat, count \in Nat : GoOn("items", position, count)
      <3>1. CASE EipHeader
        BY <1>3, <2>1, <3>1 DEF EipHeader
      <3>2. CASE EipOtherItem
        <4>1. PICK n \in ItemLengths : GoOn("items", offset + 4 + n, left - 1)
          BY <3>2 DEF EipOtherItem
        <4>2. offset + 4 + n \in Nat /\ left - 1 \in Nat
          BY <2>1, <3>2 DEF EipOtherItem
        <4> QED
          BY <4>1, <4>2
      <3>3. ~EipItemsEnd
        BY <1>3 DEF EipItemsEnd
      <3> QED
        BY <3>1, <3>2, <3>3
    <2>3. UNCHANGED fieldVars
      BY <1>3 DEF EipHeader, EipOtherItem, EipItemsEnd
    <2>4. /\ stage' = "items" /\ offset' = position /\ left' = count
          /\ UNCHANGED <<frame, protocol, size, status, fields, taken, clash>>
      BY <2>2, <2>3 DEF GoOn, fieldVars
    <2>5. /\ status = "none" /\ fields = NoTexts /\ taken = 0
          /\ AreTexts(fields)
      BY <1>1 DEF ParsingInv
    <2>6. ParsingTypeOK'
      BY <2>4 DEF ParsingInv, ParsingTypeOK
    <2>7. /\ ShortInv' /\ ~At("dnp3", "values")' /\ ~At("ethernetip", "identity")'
      BY <1>1, <2>4 DEF ShortInv, At
    <2>8. VerdictMatchesFields' /\ FingerprintsReadable'
      BY <2>4, <2>5 DEF VerdictMatchesFields, FingerprintsReadable
    <2>9. taken' <= offset' /\ ~clash'
      BY <2>4, <2>5 DEF ParsingInv
    <2> QED
      BY <2>4, <2>5, <2>6, <2>7, <2>8, <2>9 DEF ParsingInv
  <1> QED
    BY <1>2, <1>3

LEMMA EipFindsItem ==
    ASSUME ParsingInv, EipIdentityItem
    PROVE  ParsingInv'
  <1>1. PICK n \in ItemLengths : object' = [part |-> 1, end |-> offset + 4 + n]
    BY DEF EipIdentityItem
  <1>2. /\ protocol = "ethernetip" /\ stage = "items"
        /\ stage' = "identity" /\ offset' = offset + 4 /\ left' = 0
        /\ UNCHANGED <<frame, protocol, size, status, fields, taken, clash>>
    BY DEF EipIdentityItem, GoOn, At, fieldVars
  <1>3. /\ size \in Nat /\ offset \in Nat /\ fields = NoTexts /\ taken = 0
        /\ AreTexts(fields) /\ clash = FALSE
    BY <1>2 DEF ParsingInv, ParsingTypeOK
  <1>4. IdentityInv'
    <2>1. n \in Nat
      BY ItemAssumption
    <2>2. /\ object' \in [part : 1 .. 10, end : Nat]
          /\ offset' <= object'.end
          /\ object'.part = 1
      BY <1>1, <1>2, <1>3, <2>1
    <2> QED
      BY <2>2 DEF IdentityInv
  <1>5. ShortInv' /\ ~At("dnp3", "values")'
    BY <1>2, <1>3, NothingIsTexts DEF ShortInv, At
  <1>6. /\ size' \in Nat /\ offset' \in Nat /\ left' \in Nat
        /\ taken' \in Nat /\ taken' <= offset'
        /\ AreTexts(fields') /\ clash' = FALSE
    BY <1>2, <1>3
  <1> QED
    BY <1>2, <1>4, <1>5, <1>6, ReadsOn

LEMMA EipPartReads ==
    ASSUME ParsingInv, EipPart
    PROVE  ParsingInv'
  <1> DEFINE part == IdentityParts[object.part]
  <1>1. /\ protocol = "ethernetip" /\ stage = "identity"
        /\ IF offset + part.width <= object.end /\ EipHolds(part)
           THEN /\ IF part.name = "" THEN UNCHANGED fieldVars
                   ELSE TakeAs(part.name, offset, offset + part.reads, part.chars)
                /\ object' = [object EXCEPT !.part = @ + 1]
                /\ GoOn("identity", offset + part.width, 0)
           ELSE Return(Partial(fields)) /\ UNCHANGED fieldVars
    BY PartTypes DEF EipPart, At
  <1>2. /\ size \in Nat /\ offset \in Nat /\ taken \in Nat /\ taken <= offset
        /\ AreTexts(fields) /\ clash = FALSE /\ IdentityInv
        /\ \A name \in DOMAIN fields : fields[name] <= 24
    BY <1>1 DEF ParsingInv, ParsingTypeOK, ShortInv, At
  <1>3. object.part \in 1 .. 9 /\ object.end \in Nat
    <2>1. object \in [part : 1 .. 10, end : Nat]
      BY <1>2 DEF IdentityInv
    <2>2. object.part \in 1 .. 10 /\ object.end \in Nat
      BY <2>1
    <2>3. object.part <= 9
      BY PartTypes DEF EipPart
    <2> QED
      BY <2>2, <2>3
  <1>4. /\ part.width \in Nat /\ part.reads \in Nat /\ part.chars \in 0 .. 24
        /\ part.reads <= part.width
        /\ object.part = 9 => part.reads = part.width
    BY <1>3, PartTypes
  <1>5. part.name = IdentityParts[object.part].name
    OBVIOUS
  <1> HIDE DEF part
  <1>6. CASE offset + part.width <= object.end /\ EipHolds(part)
    <2>1. /\ offset + part.reads <= size
          /\ object' = [object EXCEPT !.part = @ + 1]
          /\ stage' = "identity" /\ offset' = offset + part.width /\ left' = 0
          /\ UNCHANGED <<frame, protocol, size, status>>
      BY <1>1, <1>6 DEF EipHolds, GoOn
    <2>2. /\ AreTexts(fields') /\ clash' = FALSE
          /\ DOMAIN fields' = DOMAIN fields \cup ({part.name} \ {""})
          /\ taken' = taken \/ taken' = offset + part.reads
          /\ \A name \in DOMAIN fields' : fields'[name] <= 24
      <3>1. CASE part.name = ""
        <4>1. UNCHANGED <<fields, taken, clash>>
          BY <1>1, <1>6, <3>1 DEF fieldVars
        <4> QED
          BY <1>2, <3>1, <4>1
      <3>2. CASE part.name # ""
        <4>1. TakeAs(part.name, offset, offset + part.reads, part.chars)
          BY <1>1, <1>6, <3>2
        <4>2. offset + part.reads \in Nat /\ part.chars \in Nat /\ part.chars <= 24
          BY <1>2, <1>4
        <4>3. /\ AreTexts(fields') /\ DOMAIN fields' = DOMAIN fields \cup {part.name}
              /\ fields'[part.name] = part.chars
              /\ \A n \in DOMAIN fields \ {part.name} : fields'[n] = fields[n]
              /\ clash' = FALSE /\ taken' = offset + part.reads
          BY <1>2, <2>1, <4>1, <4>2, Taken
        <4>4. \A name \in DOMAIN fields' : fields'[name] <= 24
          BY <1>2, <4>2, <4>3
        <4> QED
          BY <3>2, <4>3, <4>4
      <3> QED
        BY <3>1, <3>2
    <2>3. /\ offset' \in Nat /\ taken' \in Nat /\ taken' <= offset'
      <3>1. offset' = offset + part.width
        BY <2>1
      <3>2. taken' = taken \/ taken' = offset + part.reads
        BY <2>2
      <3> QED
        BY <1>2, <1>4, <3>1, <3>2
    <2>4. IdentityInv'
      <3>1. /\ object' \in [part : 1 .. 10, end : Nat]
            /\ object'.part = object.part + 1 /\ object'.end = object.end
        <4>1. object \in [part : 1 .. 10, end : Nat]
          BY <1>2 DEF IdentityInv
        <4>2. object.part + 1 \in 1 .. 10
          BY <1>3
        <4> QED
          BY <2>1, <4>1, <4>2
      <3>2. offset' <= object'.end
        BY <1>6, <2>1, <3>1
      <3>3. object'.part = 10 => offset' <= size'
        BY <1>3, <1>4, <2>1, <3>1
      <3>4. \A i \in 1 .. object'.part - 1 :
                IdentityParts[i].name \in DOMAIN fields' \cup {""}
        <4>1. \A i \in 1 .. object'.part - 1 :
                  i \in 1 .. object.part - 1 \/ i = object.part
          BY <1>3, <3>1
        <4>2. \A i \in 1 .. object.part - 1 :
                  IdentityParts[i].name \in DOMAIN fields \cup {""}
          BY <1>2 DEF IdentityInv
        <4> QED
          BY <1>5, <2>2, <4>1, <4>2
      <3> QED
        BY <3>1, <3>2, <3>3, <3>4 DEF IdentityInv
    <2>5. ShortInv' /\ ~At("dnp3", "values")'
      BY <1>1, <2>1, <2>2 DEF ShortInv, At
    <2>6. size' \in Nat /\ left' \in Nat
      BY <1>2, <2>1
    <2> QED
      BY <1>1, <2>1, <2>2, <2>3, <2>4, <2>5, <2>6, ReadsOn
  <1>7. CASE ~(offset + part.width <= object.end /\ EipHolds(part))
    <2>1. /\ Return(Partial(fields)) /\ fields' = fields
          /\ taken' \in Nat /\ clash' = FALSE
      BY <1>1, <1>2, <1>7 DEF fieldVars
    <2>2. status' = Partial(fields') /\ protocol' = "ethernetip"
      BY <1>1, <2>1 DEF Return
    <2>3. AreTexts(fields') /\ \A name \in DOMAIN fields' : fields'[name] <= 24
      BY <1>2, <2>1
    <2>4. /\ VerdictMatchesFields' /\ FingerprintsReadable'
          /\ status' \in {"no_identity", "partial", "complete", "raised"}
      BY <2>2, <2>3, EipVerdict
    <2> QED
      BY <1>1, <2>1, <2>2, <2>3, <2>4, Returns
  <1> QED
    BY <1>6, <1>7

\* The name is cut off where the item or the payload ends.
LEMMA EipNameReads ==
    ASSUME ParsingInv, EipName
    PROVE  ParsingInv'
  <1>1. protocol = "ethernetip" /\ stage = "identity"
    BY DEF EipName, At
  <1>2. /\ size \in Nat /\ offset \in Nat /\ taken \in Nat /\ taken <= offset
        /\ AreTexts(fields) /\ clash = FALSE /\ IdentityInv
        /\ \A name \in DOMAIN fields : fields[name] <= 24
    BY <1>1 DEF ParsingInv, ParsingTypeOK, ShortInv, At
  <1>3. object.part = 10 /\ object.end \in Nat
    <2>1. object \in [part : 1 .. 10, end : Nat]
      BY <1>2 DEF IdentityInv
    <2>2. object.part \in 1 .. 10 /\ object.end \in Nat
      BY <2>1
    <2>3. object.part > 9
      BY PartTypes DEF EipName
    <2> QED
      BY <2>2, <2>3
  <1>4. offset <= size /\ offset <= object.end
    BY <1>2, <1>3 DEF IdentityInv
  <1>5. EipFields \ {"model"} \subseteq DOMAIN fields
    <2>1. \A i \in 1 .. 9 : IdentityParts[i].name \in DOMAIN fields \cup {""}
      <3>1. \A i \in 1 .. object.part - 1 :
                IdentityParts[i].name \in DOMAIN fields \cup {""}
        BY <1>2 DEF IdentityInv
      <3>2. object.part - 1 = 9
        BY <1>3
      <3> QED
        BY <3>1, <3>2
    <2>2. "" \notin EipFields
      BY DEF EipFields
    <2> QED
      BY <2>1, <2>2, PartTypes
  <1>6. PICK n \in Lengths :
           LET wanted == IF offset + n > object.end THEN object.end - offset ELSE n
               got == IF offset >= size THEN 0 ELSE Smaller(wanted, size - offset)
               texts == IF wanted > 0 THEN Merged(OneText("model", got), fields)
                        ELSE fields
           IN  /\ IF wanted > 0 THEN TakeAs("model", offset, offset + got, got)
                  ELSE UNCHANGED fieldVars
               /\ Return(IF n > wanted THEN Partial(texts) ELSE Built("complete", texts))
    BY DEF EipName
  <1> DEFINE wanted == IF offset + n > object.end THEN object.end - offset ELSE n
             got == IF offset >= size THEN 0 ELSE Smaller(wanted, size - offset)
             texts == IF wanted > 0 THEN Merged(OneText("model", got), fields)
                      ELSE fields
  <1>7. n \in Nat
    BY DecodingAssumption
  <1>8. wanted \in Nat /\ got \in Nat /\ offset + got \in Nat /\ offset + got <= size
    BY <1>2, <1>3, <1>4, <1>7 DEF Smaller
  <1>9. /\ IF wanted > 0 THEN TakeAs("model", offset, offset + got, got)
           ELSE UNCHANGED fieldVars
        /\ Return(IF n > wanted THEN Partial(texts) ELSE Built("complete", texts))
    BY <1>6
  <1>10. fields' = texts
    BY <1>9 DEF TakeAs, fieldVars
  <1> HIDE DEF wanted, got, texts
  <1>11. /\ AreTexts(fields') /\ clash' = FALSE /\ taken' \in Nat
         /\ DOMAIN fields \subseteq DOMAIN fields'
         /\ \A name \in DOMAIN fields' \ {"model"} : fields'[name] <= 24
    <2>1. CASE wanted > 0
      <3>1. TakeAs("model", offset, offset + got, got)
        BY <1>9, <2>1
      <3>2. /\ AreTexts(fields') /\ DOMAIN fields' = DOMAIN fields \cup {"model"}
            /\ \A name \in DOMAIN fields \ {"model"} : fields'[name] = fields[name]
            /\ clash' = FALSE /\ taken' = offset + got
        BY <1>2, <1>8, <3>1, Taken
      <3> QED
        BY <1>2, <1>8, <3>2
    <2>2. CASE ~(wanted > 0)
      <3>1. UNCHANGED <<fields, taken, clash>>
        BY <1>9, <2>2 DEF fieldVars
      <3> QED
        BY <1>2, <3>1
    <2> QED
      BY <2>1, <2>2
  <1> DEFINE result == IF n > wanted THEN Partial(texts) ELSE Built("complete", texts)
  <1>12. /\ Return(result) /\ status' = result /\ protocol' = "ethernetip"
    BY <1>1, <1>9 DEF Return
  <1>13. \/ status' = Partial(fields')
         \/ /\ status' = Built("complete", fields')
            /\ EipFields \ {"model"} \subseteq DOMAIN fields'
    BY <1>5, <1>10, <1>11, <1>12
  <1>14. /\ VerdictMatchesFields' /\ FingerprintsReadable'
         /\ status' \in {"no_identity", "partial", "complete", "raised"}
    BY <1>11, <1>12, <1>13, EipVerdict
  <1> HIDE DEF result
  <1>15. result \in {"no_identity", "partial", "complete", "raised"}
    BY <1>12, <1>14
  <1> QED
    BY <1>1, <1>11, <1>12, <1>14, <1>15, Returns

-----------------------------------------------------------------------------
\* The steps about the frame.
LEMMA ProtocolIdentified ==
    ASSUME NEW f
    PROVE  IdentifyProtocol(f) \in DOMAIN Ports \cup {"none"}
  <1> DEFINE known == {i \in DOMAIN Precedence : Ports[Precedence[i]] \cap f.ports # {}}
             first == CHOOSE i \in known : \A j \in known : i <= j
  <1>1. known \subseteq 1 .. 4
    BY DEF Precedence
  <1>2. \A i \in 1 .. 4 : Precedence[i] \in DOMAIN Ports
    BY DEF Precedence, Ports
  <1> HIDE DEF known
  <1>3. known # {} => first \in 1 .. 4
    <2> SUFFICES ASSUME known # {}
                 PROVE  first \in known
      BY <1>1
    <2>1. \E i \in known : \A j \in known : i <= j
      <3>1. CASE 1 \in known
        BY <1>1, <3>1
      <3>2. CASE 1 \notin known /\ 2 \in known
        BY <1>1, <3>2
      <3>3. CASE 1 \notin known /\ 2 \notin known /\ 3 \in known
        BY <1>1, <3>3
      <3>4. CASE 1 \notin known /\ 2 \notin known /\ 3 \notin known
        <4>1. \A i \in known : i \in 1 .. 4 /\ i # 1 /\ i # 2 /\ i # 3
          BY <1>1, <3>4
        <4>2. \A i \in known : i = 4
          BY <4>1
        <4>3. PICK i \in known : TRUE
          OBVIOUS
        <4>4. \A j \in known : i <= j
          BY <4>2, <4>3
        <4> QED
          BY <4>3, <4>4
      <3> QED
        BY <3>1, <3>2, <3>3, <3>4
    <2> QED
      BY <2>1
  <1>4. \/ IdentifyProtocol(f) = "none"
        \/ known # {} /\ IdentifyProtocol(f) = Precedence[first]
    BY DEF IdentifyProtocol, known
  <1> HIDE DEF first
  <1> QED
    BY <1>2, <1>3, <1>4

LEMMA FrameSteps ==
    ASSUME ParsingInv, Ignore \/ Route
    PROVE  ParsingInv'
  <1>1. /\ stage = "frame" /\ status = "none" /\ fields = NoTexts
        /\ taken = 0 /\ clash = FALSE /\ AreTexts(fields) /\ ParsingTypeOK
    BY DEF Ignore, Route, ParsingInv, ParsingTypeOK
  <1>2. /\ frame' = NoFrame
        /\ UNCHANGED <<offset, left, object, fields, taken, clash, status>>
        /\ \/ /\ stage' = "done" /\ UNCHANGED <<protocol, size>>
           \/ /\ stage' = "header" /\ size' \in Nat
              /\ protocol' \in DOMAIN Ports \cup {"none"}
    <2>1. CASE Ignore
      BY <2>1 DEF Ignore, loopVars, fieldVars
    <2>2. CASE Route
      <3>1. frame \in Frames \/ frame = NoFrame
        BY <1>1 DEF ParsingTypeOK
      <3>2. PayloadStart(frame) < frame.length
        BY <2>2 DEF Route
      <3>3. frame.length \in Nat /\ PayloadStart(frame) \in Nat
        <4>1. CASE frame = NoFrame
          <5>1. frame.length = 0
            BY <4>1 DEF NoFrame
          <5> QED
            BY <2>2, <4>1, <5>1 DEF Route, IdentifyProtocol
        <4>2. CASE frame \in Frames
          <5>1. /\ frame.length \in Nat /\ frame.ihl \in Nat
                /\ frame.dataOffset \in Nat
            BY <4>2, FramesAssumption
          <5> QED
            BY <5>1 DEF PayloadStart, TransportStart
        <4> QED
          BY <3>1, <4>1, <4>2
      <3>4. size' \in Nat
        BY <2>2, <3>2, <3>3 DEF Route
      <3> QED
        BY <2>2, <3>4, ProtocolIdentified DEF Route, fieldVars
    <2> QED
      BY <2>1, <2>2
  <1>3. ParsingTypeOK'
    BY <1>1, <1>2 DEF ParsingTypeOK
  <1>4. /\ ShortInv' /\ ~At("dnp3", "values")' /\ ~At("ethernetip", "identity")'
    BY <1>1, <1>2, NothingIsTexts DEF ShortInv, At
  <1>5. VerdictMatchesFields' /\ FingerprintsReadable'
    BY <1>1, <1>2 DEF VerdictMatchesFields, FingerprintsReadable
  <1>6. taken' <= offset'
    BY <1>1, <1>2 DEF ParsingTypeOK
  <1> QED
    BY <1>1, <1>2, <1>3, <1>4, <1>5, <1>6 DEF ParsingInv

LEMMA ParsingBegins == ParsingInit => ParsingInv
  <1> SUFFICES ASSUME ParsingInit
               PROVE  ParsingInv
    OBVIOUS
  <1>1. AreTexts(fields) /\ DOMAIN fields = {} /\ fields = NoTexts
    BY NothingIsTexts DEF ParsingInit
  <1>2. ParsingTypeOK
    BY <1>1 DEF ParsingInit, ParsingTypeOK
  <1>3. /\ VerdictMatchesFields /\ FingerprintsReadable /\ ShortInv
        /\ ~At("dnp3", "values") /\ ~At("ethernetip", "identity")
    BY DEF ParsingInit, VerdictMatchesFields, FingerprintsReadable, ShortInv, At
  <1> QED
    BY <1>1, <1>2, <1>3 DEF ParsingInit, ParsingInv

LEMMA ParsingStep == ParsingInv /\ [ParsingNext]_decodingVars => ParsingInv'
  <1> SUFFICES ASSUME ParsingInv, [ParsingNext]_decodingVars
               PROVE  ParsingInv'
    OBVIOUS
  <1>1. CASE UNCHANGED decodingVars
    <2>1. /\ UNCHANGED <<frame, protocol, stage, size, offset, left, object>>
          /\ UNCHANGED <<fields, status, taken, clash>>
      BY <1>1 DEF decodingVars, loopVars, fieldVars
    <2>2. ParsingTypeOK'
      BY <2>1 DEF ParsingInv, ParsingTypeOK
    <2>3. VerdictMatchesFields' /\ FingerprintsReadable' /\ ShortInv'
      BY <2>1 DEF ParsingInv, VerdictMatchesFields, FingerprintsReadable, ShortInv, At
    <2>4. At("ethernetip", "identity")' => IdentityInv'
      BY <2>1 DEF ParsingInv, IdentityInv, At
    <2> QED
      BY <2>1, <2>2, <2>3, <2>4 DEF ParsingInv, At
  <1>2. CASE Ignore \/ Route
    BY <1>2, FrameSteps
  <1>3. CASE ModbusNext
    BY <1>3, ModbusReads, ModbusBuilds DEF ModbusNext
  <1>4. CASE Dnp3Next
    BY <1>4, Dnp3Begins, Dnp3Reads, Dnp3Builds DEF Dnp3Next
  <1>5. CASE S7Next
    BY <1>5, S7Begins, S7Reads, S7Ends, S7Builds DEF S7Next
  <1>6. CASE EipNext
    BY <1>6, EipBegins, EipFindsItem, EipPartReads, EipNameReads DEF EipNext
  <1> QED
    BY <1>1, <1>2, <1>3, <1>4, <1>5, <1>6 DEF ParsingNext

LEMMA ParsingInvariant == ParsingSpec => []ParsingInv
  BY ParsingBegins, ParsingStep, PTL DEF ParsingSpec

\* ValuesApart: whatever lengths and counts payloads declare, every value is
\* made of bytes the parser was given and shares none with another
\* (_parse_objects, _read_device_attribute_value, _parse_identity_item).
THEOREM ValuesStayApart == ParsingSpec => []ValuesApart
  <1>1. ParsingInv => ValuesApart
    BY DEF ParsingInv, ValuesApart
  <1> QED
    BY <1>1, ParsingInvariant, PTL

\* VerdictMatchesFields: parsing_status says of the fields what it means, for
\* each of the four parsers (_build_parse_result, _build_partial_result).
THEOREM VerdictsMatchFields == ParsingSpec => []VerdictMatchesFields
  <1>1. ParsingInv => VerdictMatchesFields
    BY DEF ParsingInv
  <1> QED
    BY <1>1, ParsingInvariant, PTL

\* FingerprintsReadable: every fingerprint that is built keeps to the limits
\* of DeviceFingerprint (_truncate, deserialize_fingerprint).
THEOREM FingerprintsStayReadable == ParsingSpec => []FingerprintsReadable
  <1>1. ParsingInv => FingerprintsReadable
    BY DEF ParsingInv
  <1> QED
    BY <1>1, ParsingInvariant, PTL
=============================================================================
