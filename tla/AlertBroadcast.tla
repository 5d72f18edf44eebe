---------------------------- MODULE AlertBroadcast ---------------------------
(***************************************************************************)
(* WebSocketManager of app/api/websocket_manager.py with the endpoint of   *)
(* app/api/ws_alerts.py: clients connect and go, and alerts are broadcast  *)
(* to the registered ones, all of it under one asyncio.Lock.               *)
(*                                                                         *)
(* The lock serves its waiters in the order of their arrival.  A task that *)
(* finds it free and without waiters does not suspend.  The blocks of      *)
(* connect and disconnect under it await nothing; a broadcast awaits each  *)
(* send_text, one after the other.                                         *)
(***************************************************************************)
EXTENDS Integers, Sequences

CONSTANTS
    Sockets,      \* WebSocket objects, one for each connection ever made
    NoSocket,
    MaxAlerts     \* bound: calls of broadcast_alert

ASSUME BroadcastAssumption ==
    /\ NoSocket \notin Sockets
    /\ MaxAlerts \in Nat

VARIABLES
    endpoint,      \* where the endpoint of each socket is
    open,          \* sockets that are accepted and not closed
    stalled,       \* those whose client does not read: a send waits
    connections,   \* _connections
    lockQueue,     \* tasks that wait for _lock, in their order
    sending,       \* the alert whose broadcast holds _lock, 0 for none
    target,        \* the socket whose send_text that broadcast awaits
    remaining,     \* sockets of its copy that it has still to send to
    disconnected,  \* sockets whose send raised in this broadcast
    alerts,        \* history: number of alerts, which are 1 .. alerts
    unheard,       \* history: alerts that found nobody registered
    dispatched,    \* history: the last alert whose broadcast got the lock
    joined,        \* history: what dispatched was when a socket registered
    received       \* history: alerts sent to each socket, in their order

lockVars == <<lockQueue, sending, target, remaining, disconnected>>
vars == <<endpoint, open, stalled, connections, lockQueue, sending, target,
          remaining, disconnected, alerts, unheard, dispatched, joined,
          received>>

EndpointStates == {"none", "accepted", "joining", "listening", "leaving",
                   "ended"}
Alerts == 1 .. MaxAlerts
Tasks == ({"connect", "disconnect"} \X Sockets) \cup ({"broadcast"} \X Alerts)

Init ==
    /\ endpoint = [s \in Sockets |-> "none"]
    /\ open = {}
    /\ stalled = {}
    /\ connections = {}
    /\ lockQueue = <<>>
    /\ sending = 0
    /\ target = NoSocket
    /\ remaining = {}
    /\ disconnected = {}
    /\ alerts = 0
    /\ unheard = {}
    /\ dispatched = 0
    /\ joined = [s \in Sockets |-> 0]
    /\ received = [s \in Sockets |-> <<>>]

-----------------------------------------------------------------------------
(***************************************************************************)
(* The lock.                                                               *)
(***************************************************************************)
LockFree == sending = 0 /\ lockQueue = <<>>

\* Mutant: the last one to come is the next one to be served.
WaitForLockInFront(task) ==
    /\ lockQueue' = <<task>> \o lockQueue
    /\ UNCHANGED <<sending, target, remaining, disconnected>>

WaitForLock(task) ==
    /\ lockQueue' = Append(lockQueue, task)
    /\ UNCHANGED <<sending, target, remaining, disconnected>>

Move(s, state) == endpoint' = [endpoint EXCEPT ![s] = state]

-----------------------------------------------------------------------------
(***************************************************************************)
(* Clients: the transport is opened by accept(), and closed by the client, *)
(* the network, or the server's keepalive.                                 *)
(***************************************************************************)
Accept(s) ==
    /\ endpoint[s] = "none"
    /\ Move(s, "accepted")
    /\ open' = open \cup {s}
    /\ UNCHANGED <<stalled, connections, alerts, unheard, dispatched, joined,
                   received>>
    /\ UNCHANGED lockVars

Stall(s) ==
    /\ s \in open \ stalled
    /\ stalled' = stalled \cup {s}
    /\ UNCHANGED <<endpoint, open, connections, alerts, unheard, dispatched,
                   joined, received>>
    /\ UNCHANGED lockVars

Close(s) ==
    /\ s \in open
    /\ open' = open \ {s}
    /\ stalled' = stalled \ {s}
    /\ UNCHANGED <<endpoint, connections, alerts, unheard, dispatched, joined,
                   received>>
    /\ UNCHANGED lockVars

-----------------------------------------------------------------------------
(***************************************************************************)
(* connect and disconnect.                                                 *)
(***************************************************************************)

\* The block of connect under the lock; the endpoint then reads messages.
Add(s) ==
    /\ connections' = connections \cup {s}
    /\ joined' = [joined EXCEPT ![s] = dispatched]
    /\ Move(s, "listening")
    /\ UNCHANGED <<open, stalled, alerts, unheard, dispatched, received>>

\* The block of disconnect under the lock; the endpoint ends.
Discard(s) ==
    /\ connections' = connections \ {s}
    /\ Move(s, "ended")
    /\ UNCHANGED <<open, stalled, alerts, unheard, dispatched, joined,
                   received>>

\* connect goes on after accept().
Connect(s) ==
    /\ endpoint[s] = "accepted"
    /\ \/ /\ LockFree
          /\ Add(s)
          /\ UNCHANGED lockVars
       \/ /\ ~LockFree
          /\ WaitForLock(<<"connect", s>>)
          /\ Move(s, "joining")
          /\ UNCHANGED <<open, stalled, connections, alerts, unheard,
                         dispatched, joined, received>>

\* Mutant: the finally clause of the endpoint is missing.
EndpointEnds(s) ==
    /\ endpoint[s] = "listening"
    /\ s \notin open
    /\ Move(s, "ended")
    /\ UNCHANGED <<open, stalled, connections, alerts, unheard, dispatched,
                   joined, received>>
    /\ UNCHANGED lockVars

\* Mutant: disconnect does not take the lock.
DisconnectUnlocked(s) ==
    /\ endpoint[s] = "listening"
    /\ s \notin open
    /\ Discard(s)
    /\ UNCHANGED lockVars

\* receive_text raises, and the finally clause calls disconnect.
Disconnect(s) ==
    /\ endpoint[s] = "listening"
    /\ s \notin open
    /\ \/ /\ LockFree
          /\ Discard(s)
          /\ UNCHANGED lockVars
       \/ /\ ~LockFree
          /\ WaitForLock(<<"disconnect", s>>)
          /\ Move(s, "leaving")
          /\ UNCHANGED <<open, stalled, connections, alerts, unheard,
                         dispatched, joined, received>>

-----------------------------------------------------------------------------
(***************************************************************************)
(* broadcast_alert.  broadcast_json does the same with another message.    *)
(***************************************************************************)

\* The loop goes to a next socket of the copy, or the failed ones are removed
\* and the lock is released.
SendToNext(rest, failed) ==
    \/ /\ rest # {}
       /\ target' \in rest
       /\ remaining' = rest
       /\ disconnected' = failed
       /\ UNCHANGED <<connections, sending>>
    \/ /\ rest = {}
       /\ target' = NoSocket
       /\ remaining' = {}
       /\ disconnected' = {}
       /\ connections' = connections \ failed
       /\ sending' = 0

\* Mutant: an empty copy is left by a return that does not release the lock.
BeginAndReturn(n) ==
    /\ dispatched' = n
    /\ target' \in IF connections = {} THEN {NoSocket} ELSE connections
    /\ remaining' = connections
    /\ disconnected' = {}
    /\ sending' = n
    /\ UNCHANGED <<endpoint, open, stalled, connections, joined, received>>

\* The lock is taken and the set copied.  With an empty copy there is nothing
\* to wait for.
BeginBroadcast(n) ==
    /\ dispatched' = n
    /\ target' \in IF connections = {} THEN {NoSocket} ELSE connections
    /\ remaining' = connections
    /\ disconnected' = {}
    /\ sending' = IF connections = {} THEN 0 ELSE n
    /\ UNCHANGED <<endpoint, open, stalled, connections, joined, received>>

\* The test for connections comes before the lock.
Broadcast ==
    /\ alerts < MaxAlerts
    /\ alerts' = alerts + 1
    /\ \/ /\ connections = {}
          /\ unheard' = unheard \cup {alerts'}
          /\ UNCHANGED <<endpoint, open, stalled, connections, dispatched,
                         joined, received>>
          /\ UNCHANGED lockVars
       \/ /\ connections # {}
          /\ LockFree
          /\ BeginBroadcast(alerts')
          /\ UNCHANGED <<lockQueue, unheard>>
       \/ /\ connections # {}
          /\ ~LockFree
          /\ WaitForLock(<<"broadcast", alerts'>>)
          /\ UNCHANGED <<endpoint, open, stalled, connections, unheard,
                         dispatched, joined, received>>

\* Mutant: a failing send ends the loop.
SendRaisesOut ==
    /\ target # NoSocket
    /\ target \notin open
    /\ SendToNext({}, disconnected \cup {target})
    /\ UNCHANGED <<endpoint, open, stalled, lockQueue, alerts, unheard,
                   dispatched, joined, received>>

\* send_text returns.
SendReturns ==
    /\ target \in open \ stalled
    /\ received' = [received EXCEPT ![target] = Append(@, sending)]
    /\ SendToNext(remaining \ {target}, disconnected)
    /\ UNCHANGED <<endpoint, open, stalled, lockQueue, alerts, unheard,
                   dispatched, joined>>

\* send_text raises, because the socket was closed before or meanwhile.
SendRaises ==
    /\ target # NoSocket
    /\ target \notin open
    /\ SendToNext(remaining \ {target}, disconnected \cup {target})
    /\ UNCHANGED <<endpoint, open, stalled, lockQueue, alerts, unheard,
                   dispatched, joined, received>>

\* The first waiter gets the lock.
Granted ==
    /\ sending = 0
    /\ lockQueue # <<>>
    /\ lockQueue' = Tail(lockQueue)
    /\ \/ \E s \in Sockets :
             /\ \/ Head(lockQueue) = <<"connect", s>> /\ Add(s)
                \/ Head(lockQueue) = <<"disconnect", s>> /\ Discard(s)
             /\ UNCHANGED <<sending, target, remaining, disconnected>>
       \/ \E n \in Alerts :
             /\ Head(lockQueue) = <<"broadcast", n>>
             /\ BeginBroadcast(n)
             /\ UNCHANGED <<alerts, unheard>>

Next ==
    \/ \E s \in Sockets : \/ Accept(s)
                          \/ Stall(s)
                          \/ Close(s)
                          \/ Connect(s)
                          \/ Disconnect(s)
    \/ Broadcast
    \/ SendReturns
    \/ SendRaises
    \/ Granted

\* The event loop runs what is ready, and the keepalive of the server closes
\* a connection whose client has stopped reading.
Fairness ==
    /\ \A s \in Sockets : /\ WF_vars(s \in stalled /\ Close(s))
                          /\ WF_vars(Connect(s))
                          /\ WF_vars(Disconnect(s))
    /\ WF_vars(SendReturns)
    /\ WF_vars(SendRaises)
    /\ WF_vars(Granted)

Spec == Init /\ [][Next]_vars /\ Fairness

-----------------------------------------------------------------------------
TypeOK ==
    /\ endpoint \in [Sockets -> EndpointStates]
    /\ open \subseteq Sockets
    /\ stalled \subseteq open
    /\ connections \subseteq Sockets
    /\ lockQueue \in Seq(Tasks)
    /\ sending \in {0} \cup Alerts
    /\ target \in Sockets \cup {NoSocket}
    /\ remaining \subseteq connections
    /\ disconnected \subseteq connections
    /\ alerts \in 0 .. MaxAlerts
    /\ unheard \subseteq Alerts
    /\ dispatched \in 0 .. MaxAlerts
    /\ joined \in [Sockets -> 0 .. MaxAlerts]
    /\ received \in [Sockets -> Seq(Alerts)]

\* Every client receives alerts in the order they were generated in.
InOrder ==
    \A s \in Sockets : \A i, j \in DOMAIN received[s] :
        i < j => received[s][i] < received[s][j]

\* A registered client whose sends have not failed has received each alert
\* since it registered, up to the one being broadcast, except those that
\* were given up because nobody was registered.
NothingSkipped ==
    \A s \in connections \ disconnected : \A n \in Alerts :
        /\ joined[s] < n /\ n <= dispatched
        /\ n \notin unheard
        /\ n # sending \/ s \notin remaining
        => \E i \in DOMAIN received[s] : received[s][i] = n

(***************************************************************************)
(* What makes these two inductive: a broadcast that holds the lock, or     *)
(* none, is as its parts say; the broadcasts that wait for the lock do so  *)
(* in the order of their alerts, and are all that are due; and nothing was *)
(* received that is not dispatched.                                        *)
(***************************************************************************)
LockIsHeld ==
    /\ sending = 0 => /\ target = NoSocket
                      /\ remaining = {}
                      /\ disconnected = {}
    /\ sending # 0 => target \in remaining /\ sending = dispatched
    /\ remaining \cap disconnected = {}

WaitersInOrder ==
    /\ \A i \in DOMAIN lockQueue : \A n \in Alerts :
          lockQueue[i] = <<"broadcast", n>> =>
             /\ dispatched < n /\ n <= alerts
             /\ \A j \in DOMAIN lockQueue : \A m \in Alerts :
                   i < j /\ lockQueue[j] = <<"broadcast", m>> => n < m
    /\ dispatched <= alerts

DueAlertsWait ==
    \A n \in Alerts :
        dispatched < n /\ n <= alerts /\ n \notin unheard =>
            \E i \in DOMAIN lockQueue : lockQueue[i] = <<"broadcast", n>>

ReceivedIsDispatched ==
    \A s \in Sockets : \A i \in DOMAIN received[s] :
        /\ received[s][i] <= dispatched
        /\ s \in remaining => received[s][i] < sending

QueueInv == WaitersInOrder /\ DueAlertsWait
SendInv == LockIsHeld /\ ReceivedIsDispatched /\ InOrder /\ NothingSkipped
BroadcastInv == TypeOK /\ QueueInv /\ SendInv

\* No alert waits for good: not for a client that does not read, and not
\* behind one that connects or goes.
AlertsDispatched ==
    \A n \in Alerts :
        alerts >= n ~> n \in unheard \/ (dispatched >= n /\ sending # n)

\* A closed connection is forgotten for good, also one that was closed before
\* it was registered.
ClosedForgotten ==
    \A s \in Sockets :
        endpoint[s] # "none" /\ s \notin open ~> [](s \notin connections)

-----------------------------------------------------------------------------
\* broadcast_alert: "Broadcast an alert event to all connected WebSocket
\* clients."  The alerts a client receives would then have no gap.
NoGaps ==
    \A s \in Sockets : \A i \in DOMAIN received[s] :
        i > 1 => received[s][i] = received[s][i - 1] + 1
=============================================================================
