----------------------------- MODULE PassiveSniffer ----------------------------
(***************************************************************************)
(* PassiveSniffer of app/capture/sniffer.py: the capture threads that      *)
(* start() and stop() begin and end, the coroutines they schedule on the   *)
(* event loop, one per frame, and the buffer of fingerprints with its      *)
(* flush.                                                                  *)
(*                                                                         *)
(* Whoever holds the sniffer may call start() and stop(): nothing in the   *)
(* class keeps a start() from coming while a stop() awaits its flush.      *)
(* start() and stop() raise where their guards do not hold, and change     *)
(* nothing then.                                                           *)
(***************************************************************************)
EXTENDS Integers, Sequences, Functions

CONSTANTS
    Packets,     \* frames on the wire
    MaxStarts    \* bound: calls of start() that get as far as the capture

ASSUME SnifferAssumption == MaxStarts \in Nat

VARIABLES
    isRunning,   \* _is_running
    starts,      \* number of the last start(), which names its AsyncSniffer
    current,     \* the AsyncSniffer in _sniffer, 0 for None
    capturing,   \* the AsyncSniffers whose threads capture
    registered,  \* _commit_callback is set
    packet,      \* where the coroutine of each packet is
    buffer,      \* _buffer
    stopping,    \* calls of stop() in or before the block under _buffer_lock,
                 \* named by their run; the first one holds the lock
    batch,       \* the list the flush goes through, <<>> before it begins
    committed,   \* how many of its records the flush has committed
    found,       \* history: packets that gave a fingerprint
    stored,      \* history: how often each fingerprint entered the inventory
    refused,     \* history: fingerprints whose commit raised in a coroutine
    discarded,   \* history: fingerprints thrown out of the buffer
    overlapped   \* history: a start() came while a stop() was in progress

lockVars == <<stopping, batch, committed>>
captureVars == <<isRunning, starts, current, capturing, overlapped>>
history == <<found, stored, refused, discarded>>
vars == <<captureVars, registered, packet, buffer, lockVars, history>>

Runs == 1 .. MaxStarts
PacketStates == {"unseen", "scheduled", "committing", "done"}

From(s, n) == SubSeq(s, n + 1, Len(s))
MoveTo(p, state) == packet' = [packet EXCEPT ![p] = state]
Store(p) == stored' = [stored EXCEPT ![p] = @ + 1]

Init ==
    /\ isRunning = FALSE
    /\ starts = 0
    /\ current = 0
    /\ capturing = {}
    /\ registered = FALSE
    /\ packet = [p \in Packets |-> "unseen"]
    /\ buffer = <<>>
    /\ stopping = <<>>
    /\ batch = <<>>
    /\ committed = 0
    /\ found = {}
    /\ stored = [p \in Packets |-> 0]
    /\ refused = {}
    /\ discarded = {}
    /\ overlapped = FALSE

-----------------------------------------------------------------------------
(***************************************************************************)
(* start() and its capture thread.                                         *)
(***************************************************************************)

\* on_device_discovered: a callback may be replaced, and is never taken away.
Register ==
    /\ ~registered
    /\ registered' = TRUE
    /\ UNCHANGED <<captureVars, packet, buffer, lockVars, history>>

\* Mutant: the records of the run before stay in the buffer.
KeepBuffer == UNCHANGED <<buffer, history>>

\* start() drops whatever the buffer still holds.
ResetBuffer ==
    /\ buffer' = <<>>
    /\ discarded' = discarded \cup Range(buffer)
    /\ UNCHANGED <<found, stored, refused>>

\* Mutant: start() does not ask whether the sniffer is running.
StartTwice ==
    /\ starts < MaxStarts
    /\ starts' = starts + 1
    /\ ResetBuffer
    /\ current' = starts'
    /\ capturing' = capturing \cup {starts'}
    /\ isRunning' = TRUE
    /\ overlapped' = (overlapped \/ stopping # <<>>)
    /\ UNCHANGED <<registered, packet, lockVars>>

\* AsyncSniffer.start() begins a thread.
Start ==
    /\ ~isRunning
    /\ starts < MaxStarts
    /\ starts' = starts + 1
    /\ ResetBuffer
    /\ current' = starts'
    /\ capturing' = capturing \cup {starts'}
    /\ isRunning' = TRUE
    /\ overlapped' = (overlapped \/ stopping # <<>>)
    /\ UNCHANGED <<registered, packet, lockVars>>

\* AsyncSniffer.start() raises: the except clause, and InterfaceError.
StartFails ==
    /\ ~isRunning
    /\ ResetBuffer
    /\ current' = 0
    /\ UNCHANGED <<isRunning, starts, capturing, overlapped>>
    /\ UNCHANGED <<registered, packet, lockVars>>

\* The thread ends on its own, as when the interface goes down.
CaptureEnds(r) ==
    /\ r \in capturing
    /\ capturing' = capturing \ {r}
    /\ UNCHANGED <<isRunning, starts, current, overlapped>>
    /\ UNCHANGED <<registered, packet, buffer, lockVars, history>>

-----------------------------------------------------------------------------
(***************************************************************************)
(* A packet: _packet_handler in the thread, _process_packet on the loop.   *)
(***************************************************************************)
Capture(p) ==
    /\ capturing # {}
    /\ packet[p] = "unseen"
    /\ MoveTo(p, "scheduled")
    /\ UNCHANGED <<captureVars, registered, buffer, lockVars, history>>

\* The coroutine has awaited the packet callbacks and routes the frame, which
\* is none of a known protocol, gives no fingerprint, or is malformed.
NoFingerprint(p) ==
    /\ packet[p] = "scheduled"
    /\ MoveTo(p, "done")
    /\ UNCHANGED <<captureVars, registered, buffer, lockVars, history>>

\* With a callback the fingerprint is committed, else it is buffered.  The
\* lock is then free (see FlushesAreRegistered), so that append does not wait.
Fingerprint(p) ==
    /\ packet[p] = "scheduled"
    /\ found' = found \cup {p}
    /\ \/ /\ registered
          /\ MoveTo(p, "committing")
          /\ UNCHANGED buffer
       \/ /\ ~registered
          /\ stopping = <<>>
          /\ MoveTo(p, "done")
          /\ buffer' = Append(buffer, p)
    /\ UNCHANGED <<stored, refused, discarded>>
    /\ UNCHANGED <<captureVars, registered, lockVars>>

CommitReturns(p) ==
    /\ packet[p] = "committing"
    /\ MoveTo(p, "done")
    /\ Store(p)
    /\ UNCHANGED <<found, refused, discarded>>
    /\ UNCHANGED <<captureVars, registered, buffer, lockVars>>

\* The error is logged as one of a malformed packet, the fingerprint dropped.
CommitRaises(p) ==
    /\ packet[p] = "committing"
    /\ MoveTo(p, "done")
    /\ refused' = refused \cup {p}
    /\ UNCHANGED <<found, stored, discarded>>
    /\ UNCHANGED <<captureVars, registered, buffer, lockVars>>

-----------------------------------------------------------------------------
(***************************************************************************)
(* stop() and the flush.                                                   *)
(***************************************************************************)

\* Mutant: the lock stays with a call that has returned.
ReleaseNothing ==
    /\ batch' = <<>>
    /\ committed' = 0
    /\ current' = 0
    /\ UNCHANGED stopping

\* The block under the lock ends, _sniffer becomes None, and stop() returns.
Release ==
    /\ stopping' = Tail(stopping)
    /\ batch' = <<>>
    /\ committed' = 0
    /\ current' = 0

\* The flush of the call that is first in queue, up to its first await.
\* Without a callback the loop commits nothing, and the buffer is cleared.
BeginFlush(queue) ==
    \/ /\ registered /\ buffer # <<>>
       /\ stopping' = queue
       /\ batch' = buffer
       /\ committed' = 0
       /\ UNCHANGED <<buffer, current, history>>
    \/ /\ ~(registered /\ buffer # <<>>)
       /\ stopping' = Tail(queue)
       /\ ResetBuffer
       /\ current' = 0
       /\ UNCHANGED <<batch, committed>>

\* What AsyncSniffer.stop() raises, when its thread has ended, is logged.
Stop ==
    /\ isRunning
    /\ capturing' = capturing \ {current}
    /\ isRunning' = FALSE
    /\ \/ /\ stopping = <<>>
          /\ BeginFlush(<<starts>>)
       \/ /\ stopping # <<>>
          /\ stopping' = Append(stopping, starts)
          /\ UNCHANGED <<current, buffer, batch, committed, history>>
    /\ UNCHANGED <<starts, overlapped, registered, packet>>

\* The lock passes to the stop() that has waited longest.
Granted ==
    /\ stopping # <<>>
    /\ batch = <<>>
    /\ BeginFlush(stopping)
    /\ UNCHANGED <<isRunning, starts, capturing, overlapped, registered, packet>>

\* The callback returns for the next record.  After the last one the list in
\* _buffer is cleared, which need not be the one the loop went through.
FlushCommits ==
    /\ batch # <<>>
    /\ Store(batch[committed + 1])
    /\ \/ /\ committed + 1 < Len(batch)
          /\ committed' = committed + 1
          /\ UNCHANGED <<buffer, stopping, batch, current>>
       \/ /\ committed + 1 = Len(batch)
          /\ buffer' = <<>>
          /\ Release
    /\ UNCHANGED <<found, refused, discarded, isRunning, starts, capturing>>
    /\ UNCHANGED <<overlapped, registered, packet>>

\* Mutant: one record too few is kept.
UnflushedButOne == From(buffer, committed + 1)

\* What the flush leaves in _buffer when it is cut off.
Unflushed == From(buffer, committed)

\* The time limit cuts the flush off, or the callback raises.  The record it
\* was at may have been stored by then.
FlushInterrupted ==
    /\ batch # <<>>
    /\ \/ Store(batch[committed + 1])
       \/ UNCHANGED stored
    /\ buffer' = Unflushed
    /\ Release
    /\ UNCHANGED <<found, refused, discarded, isRunning, starts, capturing>>
    /\ UNCHANGED <<overlapped, registered, packet>>

FlushStep == FlushCommits \/ FlushInterrupted

Next ==
    \/ Register
    \/ Start
    \/ StartFails
    \/ \E r \in Runs : CaptureEnds(r)
    \/ \E p \in Packets :
        \/ Capture(p)
        \/ NoFingerprint(p)
        \/ Fingerprint(p)
        \/ CommitReturns(p)
        \/ CommitRaises(p)
    \/ Stop
    \/ Granted
    \/ FlushStep

\* The event loop runs the waiter that got the lock.  A flush goes on: either
\* the callback returns, or the time limit of 30 seconds ends it.
Fairness ==
    /\ WF_vars(Granted)
    /\ WF_vars(FlushStep)

Spec == Init /\ [][Next]_vars /\ Fairness

-----------------------------------------------------------------------------
\* A coroutine that buffers its fingerprint finds the lock free: a flush that
\* awaits anything awaits the callback.
FlushesAreRegistered == stopping # <<>> => registered

\* Type correctness, and what Fingerprint takes for granted: no coroutine has
\* to wait for the lock with its fingerprint (_process_packet, _flush_buffer).
TypeOK ==
    /\ FlushesAreRegistered
    /\ isRunning \in BOOLEAN
    /\ starts \in 0 .. MaxStarts
    /\ current \in 0 .. starts
    /\ capturing \subseteq 1 .. starts
    /\ registered \in BOOLEAN
    /\ packet \in [Packets -> PacketStates]
    /\ buffer \in Seq(Packets)
    /\ stopping \in Seq(Runs)
    /\ batch \in Seq(Packets)
    /\ committed \in Nat
    /\ found \subseteq Packets
    /\ stored \in [Packets -> Nat]
    /\ refused \subseteq found
    /\ discarded \subseteq found
    /\ overlapped \in BOOLEAN

\* The records that are still to be stored.
Pending ==
    Range(buffer) \cup Range(From(batch, committed))
        \cup {p \in Packets : packet[p] = "committing"}

\* No fingerprint gets lost on the way: each is stored, still pending, was
\* refused by the inventory, or left the buffer where a start() or a flush
\* without a callback empties it (start, _flush_buffer, _process_packet).
RecordsAccounted ==
    /\ TypeOK
    /\ \A p \in found \ (refused \cup discarded) : p \in Pending \/ stored[p] > 0

\* No fingerprint enters the inventory twice, not even one whose storing the
\* time limit cut off and which the flush therefore keeps in the buffer.
StoredOnce == \A p \in Packets : stored[p] <= 1

\* Unless a start() came during a flush, there is one capture thread at most,
\* it belongs to a sniffer that says it is running, and stop() can reach it.
OneCapture ==
    \/ overlapped
    \/ /\ capturing \subseteq {current}
       /\ capturing # {} => isRunning

\* Every stop() returns, whatever the inventory does (Requirement 1.5).
StopReturns ==
    \A r \in Runs : r \in Range(stopping) ~> r \notin Range(stopping)
=============================================================================
