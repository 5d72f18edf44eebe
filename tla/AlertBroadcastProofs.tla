------------------------ MODULE AlertBroadcastProofs ------------------------
(***************************************************************************)
(* Theorems about module AlertBroadcast, for any sockets and any number of *)
(* alerts: its type invariant, and that every client receives the alerts   *)
(* in order and, while it is registered, all of them that anybody heard.   *)
(***************************************************************************)
EXTENDS AlertBroadcast, SequenceTheorems, TLAPS

(***************************************************************************)
(* The queue at the lock.                                                  *)
(***************************************************************************)
QueueType ==
    /\ lockQueue \in Seq(Tasks)
    /\ alerts \in 0 .. MaxAlerts
    /\ dispatched \in 0 .. MaxAlerts
    /\ unheard \subseteq Alerts

LEMMA SameQueue ==
    ASSUME QueueInv, UNCHANGED <<lockQueue, dispatched, alerts, unheard>>
    PROVE  QueueInv'
  BY DEF QueueInv, WaitersInOrder, DueAlertsWait

\* A task that is not a broadcast comes to the lock.
LEMMA OtherTaskWaits ==
    ASSUME QueueType, QueueInv, NEW task \in Tasks,
           \A n \in Alerts : task # <<"broadcast", n>>,
           lockQueue' = Append(lockQueue, task),
           UNCHANGED <<dispatched, alerts, unheard>>
    PROVE  QueueInv'
  <1>1. /\ Len(lockQueue) \in Nat
        /\ DOMAIN lockQueue = 1 .. Len(lockQueue)
        /\ DOMAIN lockQueue' = 1 .. Len(lockQueue) + 1
        /\ \A i \in 1 .. Len(lockQueue) : lockQueue'[i] = lockQueue[i]
        /\ lockQueue'[Len(lockQueue) + 1] = task
    BY DEF QueueType
  <1>2. ASSUME NEW i \in DOMAIN lockQueue', NEW n \in Alerts,
               lockQueue'[i] = <<"broadcast", n>>
        PROVE  i \in DOMAIN lockQueue /\ lockQueue[i] = <<"broadcast", n>>
    <2>1. lockQueue'[i] # task
      BY <1>2
    <2>2. i \in 1 .. Len(lockQueue)
      BY <1>1, <2>1
    <2> QED
      BY <1>1, <1>2, <2>2
  <1>3. WaitersInOrder'
    BY <1>2 DEF QueueInv, WaitersInOrder
  <1>4. \A i \in DOMAIN lockQueue :
           i \in DOMAIN lockQueue' /\ lockQueue'[i] = lockQueue[i]
    BY <1>1
  <1>5. DueAlertsWait'
    BY <1>4 DEF QueueInv, DueAlertsWait
  <1> QED
    BY <1>3, <1>5 DEF QueueInv

\* A new alert finds nobody registered.
LEMMA AlertUnheard ==
    ASSUME QueueType, QueueInv, alerts' = alerts + 1,
           unheard' = unheard \cup {alerts'},
           UNCHANGED <<lockQueue, dispatched>>
    PROVE  QueueInv'
  <1>1. WaitersInOrder'
    BY DEF QueueType, QueueInv, WaitersInOrder, Alerts
  <1>2. DueAlertsWait'
    BY DEF QueueType, QueueInv, DueAlertsWait, Alerts
  <1> QED
    BY <1>1, <1>2 DEF QueueInv

\* A new alert comes to the lock.
LEMMA AlertWaits ==
    ASSUME QueueType, QueueInv, alerts < MaxAlerts, alerts' = alerts + 1,
           BroadcastAssumption,
           lockQueue' = Append(lockQueue, <<"broadcast", alerts'>>),
           UNCHANGED <<dispatched, unheard>>
    PROVE  QueueInv'
  <1>1. /\ Len(lockQueue) \in Nat
        /\ DOMAIN lockQueue = 1 .. Len(lockQueue)
        /\ DOMAIN lockQueue' = 1 .. Len(lockQueue) + 1
        /\ \A i \in 1 .. Len(lockQueue) : lockQueue'[i] = lockQueue[i]
        /\ lockQueue'[Len(lockQueue) + 1] = <<"broadcast", alerts + 1>>
    BY DEF QueueType
  <1>2. alerts \in Nat /\ dispatched \in Nat /\ dispatched <= alerts
    BY DEF QueueType, QueueInv, WaitersInOrder
  <1>3. ASSUME NEW i \in DOMAIN lockQueue', NEW n \in Alerts,
               lockQueue'[i] = <<"broadcast", n>>
        PROVE  /\ dispatched < n /\ n <= alerts + 1
               /\ \/ i \in DOMAIN lockQueue /\ lockQueue[i] = <<"broadcast", n>>
                     /\ n <= alerts
                  \/ i = Len(lockQueue) + 1 /\ n = alerts + 1
    <2>1. CASE i \in DOMAIN lockQueue
      BY <1>1, <1>2, <1>3, <2>1 DEF QueueInv, WaitersInOrder, Alerts
    <2>2. CASE i = Len(lockQueue) + 1
      BY <1>1, <1>2, <1>3, <2>2
    <2> QED
      BY <1>1, <2>1, <2>2
  <1>4. WaitersInOrder'
    <2>1. ASSUME NEW i \in DOMAIN lockQueue', NEW n \in Alerts,
                 lockQueue'[i] = <<"broadcast", n>>,
                 NEW j \in DOMAIN lockQueue', NEW m \in Alerts,
                 i < j, lockQueue'[j] = <<"broadcast", m>>
          PROVE  n < m
      <3>1. i \in DOMAIN lockQueue /\ lockQueue[i] = <<"broadcast", n>>
              /\ n <= alerts
        BY <1>1, <1>3, <2>1
      <3>2. CASE j \in DOMAIN lockQueue /\ lockQueue[j] = <<"broadcast", m>>
        BY <2>1, <3>1, <3>2 DEF QueueInv, WaitersInOrder
      <3>3. CASE m = alerts + 1
        BY <1>2, <3>1, <3>3 DEF Alerts
      <3> QED
        BY <1>3, <2>1, <3>2, <3>3
    <2>2. \A i \in DOMAIN lockQueue' : \A n \in Alerts :
             lockQueue'[i] = <<"broadcast", n>> =>
                dispatched' < n /\ n <= alerts'
      BY <1>3
    <2>3. dispatched' <= alerts'
      BY <1>2
    <2> QED
      BY <2>1, <2>2, <2>3 DEF WaitersInOrder
  <1>5. DueAlertsWait'
    <2>1. ASSUME NEW n \in Alerts, dispatched < n, n <= alerts + 1,
                 n \notin unheard
          PROVE  \E i \in DOMAIN lockQueue' : lockQueue'[i] = <<"broadcast", n>>
      <3>1. CASE n = alerts + 1
        BY <1>1, <3>1
      <3>2. CASE n <= alerts
        <4>1. PICK i \in DOMAIN lockQueue : lockQueue[i] = <<"broadcast", n>>
          BY <2>1, <3>2 DEF QueueInv, DueAlertsWait
        <4>2. i \in DOMAIN lockQueue' /\ lockQueue'[i] = lockQueue[i]
          BY <1>1
        <4> QED
          BY <4>1, <4>2
      <3> QED
        BY <1>2, <2>1, <3>1, <3>2 DEF Alerts
    <2> QED
      BY <2>1 DEF DueAlertsWait
  <1> QED
    BY <1>4, <1>5 DEF QueueInv

\* An alert whose broadcast finds the lock free and nobody waiting.
LEMMA AlertBegins ==
    ASSUME QueueType, QueueInv, alerts' = alerts + 1, lockQueue = <<>>,
           dispatched' = alerts', UNCHANGED <<lockQueue, unheard>>
    PROVE  /\ QueueInv'
           /\ \A m \in Alerts : dispatched < m /\ m < alerts' => m \in unheard
  <1>1. WaitersInOrder'
    BY DEF QueueType, WaitersInOrder
  <1>2. DueAlertsWait'
    BY DEF QueueType, DueAlertsWait, Alerts
  <1>3. \A m \in Alerts : dispatched < m /\ m < alerts' => m \in unheard
    BY DEF QueueType, QueueInv, DueAlertsWait, Alerts
  <1> QED
    BY <1>1, <1>2, <1>3 DEF QueueInv

\* What the queue is after its head was served.
LEMMA ServedQueue ==
    ASSUME lockQueue \in Seq(Tasks), lockQueue # <<>>,
           lockQueue' = Tail(lockQueue)
    PROVE  /\ Len(lockQueue) \in Nat \ {0}
           /\ lockQueue' \in Seq(Tasks)
           /\ DOMAIN lockQueue = 1 .. Len(lockQueue)
           /\ DOMAIN lockQueue' = 1 .. Len(lockQueue) - 1
           /\ \A i \in DOMAIN lockQueue' : lockQueue'[i] = lockQueue[i + 1]
           /\ Head(lockQueue) = lockQueue[1]
  BY HeadTailProperties, EmptySeq, LenProperties

\* A task that is not a broadcast gets the lock.
LEMMA OtherTaskServed ==
    ASSUME QueueType, QueueInv, lockQueue # <<>>,
           \A n \in Alerts : Head(lockQueue) # <<"broadcast", n>>,
           lockQueue' = Tail(lockQueue),
           UNCHANGED <<dispatched, alerts, unheard>>
    PROVE  QueueInv'
  <1>1. /\ Len(lockQueue) \in Nat \ {0}
        /\ DOMAIN lockQueue = 1 .. Len(lockQueue)
        /\ DOMAIN lockQueue' = 1 .. Len(lockQueue) - 1
        /\ \A i \in DOMAIN lockQueue' : lockQueue'[i] = lockQueue[i + 1]
        /\ Head(lockQueue) = lockQueue[1]
    BY ServedQueue DEF QueueType
  <1>2. WaitersInOrder'
    BY <1>1 DEF QueueInv, WaitersInOrder
  <1>3. DueAlertsWait'
    <2>1. ASSUME NEW n \in Alerts, dispatched < n, n <= alerts,
                 n \notin unheard
          PROVE  \E i \in DOMAIN lockQueue' : lockQueue'[i] = <<"broadcast", n>>
      <3>1. PICK i \in DOMAIN lockQueue : lockQueue[i] = <<"broadcast", n>>
        BY <2>1 DEF QueueInv, DueAlertsWait
      <3>2. i # 1
        BY <1>1, <3>1
      <3>3. i - 1 \in DOMAIN lockQueue' /\ (i - 1) + 1 = i
        BY <1>1, <3>2
      <3>4. lockQueue'[i - 1] = <<"broadcast", n>>
        BY <1>1, <3>1, <3>3
      <3> QED
        BY <3>3, <3>4
    <2> QED
      BY <2>1 DEF DueAlertsWait
  <1> QED
    BY <1>2, <1>3 DEF QueueInv

\* A broadcast gets the lock: all alerts before it have been dealt with.
LEMMA AlertServed ==
    ASSUME QueueType, QueueInv, lockQueue # <<>>, NEW n \in Alerts,
           Head(lockQueue) = <<"broadcast", n>>,
           lockQueue' = Tail(lockQueue), dispatched' = n,
           UNCHANGED <<alerts, unheard>>
    PROVE  /\ QueueInv'
           /\ dispatched < n /\ n <= alerts
           /\ \A m \in Alerts : dispatched < m /\ m < n => m \in unheard
  <1>1. /\ Len(lockQueue) \in Nat \ {0}
        /\ DOMAIN lockQueue = 1 .. Len(lockQueue)
        /\ DOMAIN lockQueue' = 1 .. Len(lockQueue) - 1
        /\ \A i \in DOMAIN lockQueue' : lockQueue'[i] = lockQueue[i + 1]
        /\ lockQueue[1] = <<"broadcast", n>>
    BY ServedQueue DEF QueueType
  <1>2. dispatched < n /\ n <= alerts
    BY <1>1 DEF QueueInv, WaitersInOrder
  <1>3. ASSUME NEW m \in Alerts, dispatched < m, m <= alerts,
               m \notin unheard, m # n
        PROVE  \E i \in DOMAIN lockQueue' : lockQueue'[i] = <<"broadcast", m>>
    <2>1. PICK i \in DOMAIN lockQueue : lockQueue[i] = <<"broadcast", m>>
      BY <1>3 DEF QueueInv, DueAlertsWait
    <2>2. i # 1
      BY <1>1, <1>3, <2>1
    <2>3. i - 1 \in DOMAIN lockQueue' /\ (i - 1) + 1 = i
      BY <1>1, <2>2
    <2>4. lockQueue'[i - 1] = <<"broadcast", m>>
      BY <1>1, <2>1, <2>3
    <2> QED
      BY <2>3, <2>4
  <1>4. ASSUME NEW i \in DOMAIN lockQueue', NEW m \in Alerts,
               lockQueue'[i] = <<"broadcast", m>>
        PROVE  /\ n < m /\ m <= alerts
               /\ \A j \in DOMAIN lockQueue' : \A k \in Alerts :
                     i < j /\ lockQueue'[j] = <<"broadcast", k>> => m < k
    <2>1. /\ i + 1 \in DOMAIN lockQueue /\ 1 \in DOMAIN lockQueue
          /\ 1 < i + 1
          /\ lockQueue[i + 1] = <<"broadcast", m>>
      BY <1>1, <1>4
    <2>2. n < m /\ m <= alerts
      BY <1>1, <2>1 DEF QueueInv, WaitersInOrder
    <2>3. ASSUME NEW j \in DOMAIN lockQueue', NEW k \in Alerts, i < j,
                 lockQueue'[j] = <<"broadcast", k>>
          PROVE  m < k
      <3>1. /\ j + 1 \in DOMAIN lockQueue /\ i + 1 < j + 1
            /\ lockQueue[j + 1] = <<"broadcast", k>>
        BY <1>1, <2>3
      <3> QED
        BY <2>1, <3>1 DEF QueueInv, WaitersInOrder
    <2> QED
      BY <2>2, <2>3
  <1>5. WaitersInOrder'
    BY <1>2, <1>4 DEF WaitersInOrder
  <1>6. DueAlertsWait'
    <2>1. ASSUME NEW m \in Alerts, n < m, m <= alerts, m \notin unheard
          PROVE  \E i \in DOMAIN lockQueue' : lockQueue'[i] = <<"broadcast", m>>
      <3>1. dispatched < m /\ m # n
        BY <1>2, <2>1 DEF QueueType, Alerts
      <3> QED
        BY <1>3, <2>1, <3>1
    <2> QED
      BY <2>1 DEF DueAlertsWait
  <1>7. \A m \in Alerts : dispatched < m /\ m < n => m \in unheard
    <2>1. ASSUME NEW m \in Alerts, dispatched < m, m < n, m \notin unheard
          PROVE  FALSE
      <3>1. m <= alerts /\ m # n
        BY <1>2, <2>1 DEF QueueType, Alerts
      <3>2. PICK i \in DOMAIN lockQueue' : lockQueue'[i] = <<"broadcast", m>>
        BY <1>3, <2>1, <3>1
      <3> QED
        BY <1>4, <2>1, <3>2 DEF Alerts
    <2> QED
      BY <2>1
  <1> QED
    BY <1>2, <1>5, <1>6, <1>7 DEF QueueInv

-----------------------------------------------------------------------------
(***************************************************************************)
(* What the clients have received.                                         *)
(***************************************************************************)
sendVars == <<connections, sending, target, remaining, disconnected,
              dispatched, joined, received>>

\* A step that changes nothing of a broadcast may find an alert unheard.
LEMMA SameSends ==
    ASSUME SendInv, UNCHANGED sendVars, unheard \subseteq unheard'
    PROVE  SendInv'
  BY DEF SendInv, sendVars, LockIsHeld, ReceivedIsDispatched, InOrder,
         NothingSkipped

\* A socket registers: nothing is due to it yet.
LEMMA AddSends ==
    ASSUME TypeOK, SendInv, NEW s \in Sockets, Add(s), sending = 0,
           UNCHANGED <<sending, target, remaining, disconnected>>
    PROVE  SendInv'
  <1>1. LockIsHeld'
    BY DEF Add, SendInv, LockIsHeld
  <1>2. ReceivedIsDispatched' /\ InOrder'
    BY DEF Add, SendInv, ReceivedIsDispatched, InOrder
  <1>3. NothingSkipped'
    <2> SUFFICES ASSUME NEW t \in connections' \ disconnected',
                        NEW n \in Alerts, joined'[t] < n, n <= dispatched',
                        n \notin unheard',
                        n # sending' \/ t \notin remaining'
                 PROVE  \E i \in DOMAIN received'[t] : received'[t][i] = n
      BY DEF NothingSkipped
    <2>1. CASE t = s
      BY <2>1 DEF Add, TypeOK, Alerts
    <2>2. CASE t # s
      <3>1. t \in connections \ disconnected /\ joined'[t] = joined[t]
        BY <2>2 DEF Add, TypeOK
      <3> QED
        BY <3>1 DEF Add, SendInv, NothingSkipped
    <2> QED
      BY <2>1, <2>2
  <1> QED
    BY <1>1, <1>2, <1>3 DEF SendInv

LEMMA DiscardSends ==
    ASSUME SendInv, NEW s \in Sockets, Discard(s),
           UNCHANGED <<sending, target, remaining, disconnected>>
    PROVE  SendInv'
  BY DEF Discard, SendInv, LockIsHeld, ReceivedIsDispatched, InOrder,
         NothingSkipped

\* A broadcast takes the lock: whatever alert it passes over was unheard, and
\* its own is still to be sent to everyone.
LEMMA BeginSends ==
    ASSUME TypeOK, SendInv, sending = 0, NEW n \in Alerts, BeginBroadcast(n),
           dispatched < n, unheard' = unheard,
           \A m \in Alerts : dispatched < m /\ m < n => m \in unheard
    PROVE  SendInv'
  <1>0. n \in Nat \ {0} /\ dispatched \in Nat
    BY DEF TypeOK, Alerts
  <1>1. LockIsHeld'
    BY <1>0 DEF BeginBroadcast, LockIsHeld
  <1>2. InOrder'
    BY DEF BeginBroadcast, SendInv, InOrder
  <1>3. ReceivedIsDispatched'
    <2>1. ASSUME NEW s \in Sockets, NEW i \in DOMAIN received[s]
          PROVE  received[s][i] < n
      <3>1. received[s][i] \in Alerts
        BY LenProperties, ElementOfSeq DEF TypeOK
      <3>2. received[s][i] <= dispatched
        BY DEF SendInv, ReceivedIsDispatched
      <3> QED
        BY <1>0, <3>1, <3>2 DEF Alerts
    <2>2. \A s \in Sockets : s \in remaining' => sending' = n
      BY DEF BeginBroadcast
    <2>3. \A s \in Sockets : \A i \in DOMAIN received[s] :
             received[s][i] \in Alerts
      BY LenProperties, ElementOfSeq DEF TypeOK
    <2> QED
      BY <1>0, <2>1, <2>2, <2>3 DEF BeginBroadcast, ReceivedIsDispatched,
                                    Alerts
  <1>4. NothingSkipped'
    <2> SUFFICES ASSUME NEW t \in connections, NEW m \in Alerts,
                        joined[t] < m, m <= n, m \notin unheard,
                        m # sending' \/ t \notin remaining'
                 PROVE  \E i \in DOMAIN received[t] : received[t][i] = m
      BY DEF NothingSkipped, BeginBroadcast
    <2>1. m # n
      BY DEF BeginBroadcast
    <2>2. m <= dispatched /\ m # 0
      BY <1>0, <2>1 DEF Alerts
    <2>3. t \notin disconnected
      BY DEF SendInv, LockIsHeld
    <2> QED
      BY <2>2, <2>3 DEF SendInv, NothingSkipped
  <1> QED
    BY <1>1, <1>2, <1>3, <1>4 DEF SendInv

\* One send is over, whether it succeeded or not: its socket has received the
\* alert or has failed.
LEMMA SendOver ==
    ASSUME TypeOK, SendInv, NEW rest, NEW failed, SendToNext(rest, failed),
           target # NoSocket, rest = remaining \ {target},
           UNCHANGED <<dispatched, joined, unheard>>,
           \/ /\ failed = disconnected
              /\ received' = [received EXCEPT ![target] = Append(@, sending)]
           \/ /\ failed = disconnected \cup {target}
              /\ UNCHANGED received
    PROVE  SendInv'
  <1>1. /\ sending # 0 /\ target \in remaining /\ sending = dispatched
        /\ sending \in Alerts /\ target \in Sockets
        /\ target \notin disconnected
        /\ remaining \cap disconnected = {}
    BY DEF TypeOK, SendInv, LockIsHeld
  <1>2. LockIsHeld'
    BY <1>1 DEF SendToNext, LockIsHeld
  <1>3. remaining' = rest /\ target \notin remaining'
    BY DEF SendToNext
  <1>4. ASSUME NEW s \in Sockets
        PROVE  /\ Len(received[s]) \in Nat
               /\ DOMAIN received[s] = 1 .. Len(received[s])
               /\ received[s] \in Seq(Alerts)
               /\ \A i \in DOMAIN received[s] : received[s][i] \in Alerts
    BY LenProperties, ElementOfSeq DEF TypeOK
  <1>5. ASSUME NEW s \in Sockets
        PROVE  \/ received'[s] = received[s]
               \/ /\ s = target
                  /\ failed = disconnected
                  /\ DOMAIN received'[s] = 1 .. Len(received[s]) + 1
                  /\ \A i \in DOMAIN received[s] :
                        received'[s][i] = received[s][i]
                  /\ received'[s][Len(received[s]) + 1] = sending
    <2>1. CASE UNCHANGED received \/ s # target
      BY <1>1, <2>1 DEF TypeOK
    <2>2. CASE ~UNCHANGED received /\ s = target
      <3>1. received'[s] = Append(received[s], sending)
        BY <1>1, <2>2 DEF TypeOK
      <3>2. failed = disconnected
        BY <2>2
      <3> QED
        BY <1>1, <1>4, <2>2, <3>1, <3>2
    <2> QED
      BY <2>1, <2>2
  <1>6. ReceivedIsDispatched'
    <2> SUFFICES ASSUME NEW s \in Sockets, NEW i \in DOMAIN received'[s]
                 PROVE  /\ received'[s][i] <= dispatched
                        /\ s \in remaining' => received'[s][i] < sending'
      BY DEF ReceivedIsDispatched
    <2>1. CASE received'[s] = received[s]
      <3>1. /\ received[s][i] <= dispatched
            /\ s \in remaining => received[s][i] < sending
        BY <2>1 DEF SendInv, ReceivedIsDispatched
      <3>2. s \in remaining' => s \in remaining /\ sending' = sending
        BY <1>3 DEF SendToNext
      <3> QED
        BY <2>1, <3>1, <3>2
    <2>2. CASE received'[s] # received[s]
      <3>1. s = target /\ s \notin remaining'
        BY <1>3, <1>5, <2>2
      <3>2. i \in DOMAIN received[s] \/ received'[s][i] = sending
        BY <1>4, <1>5, <2>2
      <3>3. received'[s][i] <= dispatched
        BY <1>1, <1>4, <1>5, <2>2, <3>2
           DEF SendInv, ReceivedIsDispatched, Alerts
      <3> QED
        BY <3>1, <3>3
    <2> QED
      BY <2>1, <2>2
  <1>7. InOrder'
    <2> SUFFICES ASSUME NEW s \in Sockets, NEW i \in DOMAIN received'[s],
                        NEW j \in DOMAIN received'[s], i < j
                 PROVE  received'[s][i] < received'[s][j]
      BY DEF InOrder
    <2>1. CASE received'[s] = received[s]
      BY <2>1 DEF SendInv, InOrder
    <2>2. CASE received'[s] # received[s]
      <3>1. i \in DOMAIN received[s] /\ received'[s][i] = received[s][i]
        BY <1>4, <1>5, <2>2
      <3>2. CASE j \in DOMAIN received[s]
        BY <1>5, <2>2, <3>1, <3>2 DEF SendInv, InOrder
      <3>3. CASE j \notin DOMAIN received[s]
        <4>1. received'[s][j] = sending
          BY <1>4, <1>5, <2>2, <3>3
        <4>2. received[s][i] < sending
          BY <1>1, <1>5, <2>2, <3>1 DEF SendInv, ReceivedIsDispatched
        <4> QED
          BY <3>1, <4>1, <4>2
      <3> QED
        BY <3>2, <3>3
    <2> QED
      BY <2>1, <2>2
  <1>8. NothingSkipped'
    <2> SUFFICES ASSUME NEW s \in connections' \ disconnected',
                        NEW n \in Alerts, joined[s] < n, n <= dispatched,
                        n \notin unheard,
                        n # sending' \/ s \notin remaining'
                 PROVE  \E i \in DOMAIN received'[s] : received'[s][i] = n
      BY DEF NothingSkipped
    <2>1. s \in connections \ failed /\ s \notin disconnected /\ s \in Sockets
      BY DEF SendToNext, TypeOK
    <2>2. CASE n = sending /\ s = target
      <3>1. failed = disconnected
        BY <2>1, <2>2
      <3>2. received'[s] = Append(received[s], sending)
        BY <1>1, <2>1, <2>2, <3>1 DEF TypeOK
      <3>3. /\ Len(received[s]) + 1 \in DOMAIN received'[s]
            /\ received'[s][Len(received[s]) + 1] = n
        BY <1>1, <1>4, <2>1, <2>2, <3>2
      <3> QED
        BY <3>3
    <2>3. CASE ~(n = sending /\ s = target)
      <3>1. n # sending \/ s \notin remaining
        <4>1. CASE remaining' = {}
          BY <1>3, <2>3, <4>1
        <4>2. CASE remaining' # {}
          BY <1>3, <2>3, <4>2 DEF SendToNext
        <4> QED
          BY <4>1, <4>2
      <3>2. PICK i \in DOMAIN received[s] : received[s][i] = n
        BY <2>1, <3>1 DEF SendInv, NothingSkipped
      <3>3. i \in DOMAIN received'[s] /\ received'[s][i] = n
        BY <1>4, <1>5, <2>1, <3>2
      <3> QED
        BY <3>3
    <2> QED
      BY <2>2, <2>3
  <1> QED
    BY <1>2, <1>6, <1>7, <1>8 DEF SendInv

-----------------------------------------------------------------------------
(***************************************************************************)
(* Type correctness.  That what a broadcast has still to do stays within   *)
(* the set of connections holds because disconnect waits for the lock.     *)
(***************************************************************************)
LEMMA InitAlerts == Init => BroadcastInv
  <1> SUFFICES ASSUME Init
               PROVE  BroadcastInv
    OBVIOUS
  <1>1. TypeOK
    BY BroadcastAssumption DEF Init, TypeOK, EndpointStates, Alerts
  <1>2. QueueInv
    BY DEF Init, QueueInv, WaitersInOrder, DueAlertsWait, Alerts
  <1>3. SendInv
    BY DEF Init, SendInv, LockIsHeld, ReceivedIsDispatched, InOrder,
           NothingSkipped
  <1> QED
    BY <1>1, <1>2, <1>3 DEF BroadcastInv

LEMMA TaskTypes ==
    /\ \A s \in Sockets : /\ <<"connect", s>> \in Tasks
                          /\ <<"disconnect", s>> \in Tasks
    /\ \A n \in Alerts : <<"broadcast", n>> \in Tasks
  BY DEF Tasks

LEMMA OtherTasks ==
    \A s \in Sockets : \A n \in Alerts :
        <<"connect", s>> # <<"broadcast", n>>
          /\ <<"disconnect", s>> # <<"broadcast", n>>
  OBVIOUS

LEMMA AddType ==
    ASSUME TypeOK, NEW s \in Sockets, Add(s), lockQueue' \in Seq(Tasks),
           UNCHANGED <<sending, target, remaining, disconnected>>
    PROVE  TypeOK'
  BY DEF TypeOK, Add, Move, EndpointStates

LEMMA DiscardType ==
    ASSUME TypeOK, SendInv, sending = 0, NEW s \in Sockets, Discard(s),
           lockQueue' \in Seq(Tasks),
           UNCHANGED <<sending, target, remaining, disconnected>>
    PROVE  TypeOK'
  BY DEF TypeOK, SendInv, LockIsHeld, Discard, Move, EndpointStates

LEMMA BeginType ==
    ASSUME TypeOK, NEW n \in Alerts, BeginBroadcast(n),
           lockQueue' \in Seq(Tasks), alerts' \in 0 .. MaxAlerts,
           unheard' = unheard
    PROVE  TypeOK'
  <1>1. n \in 0 .. MaxAlerts
    BY BroadcastAssumption DEF Alerts
  <1> QED
    BY <1>1 DEF TypeOK, BeginBroadcast

\* A task comes to the lock.
LEMMA WaitType ==
    ASSUME TypeOK, NEW task \in Tasks, WaitForLock(task),
           endpoint' \in [Sockets -> EndpointStates],
           alerts' \in 0 .. MaxAlerts,
           UNCHANGED <<open, stalled, connections, unheard, dispatched, joined,
                       received>>
    PROVE  TypeOK'
  <1>1. lockQueue' \in Seq(Tasks)
    BY DEF TypeOK, WaitForLock
  <1> QED
    BY <1>1 DEF TypeOK, WaitForLock

\* A send is over.
LEMMA SendType ==
    ASSUME TypeOK, SendInv, NEW rest, NEW failed, SendToNext(rest, failed),
           rest \subseteq remaining, failed \subseteq connections,
           received' \in [Sockets -> Seq(Alerts)],
           rest \cap failed = {},
           UNCHANGED <<endpoint, open, stalled, lockQueue, alerts, unheard,
                       dispatched, joined>>
    PROVE  TypeOK'
  BY DEF TypeOK, SendToNext

-----------------------------------------------------------------------------
(***************************************************************************)
(* One lemma per kind of step.                                             *)
(***************************************************************************)
LEMMA ClientSteps ==
    ASSUME BroadcastInv, NEW s \in Sockets, Accept(s) \/ Stall(s) \/ Close(s)
    PROVE  BroadcastInv'
  <1>1. TypeOK'
    BY DEF BroadcastInv, TypeOK, Accept, Stall, Close, Move, EndpointStates,
           lockVars
  <1>2. /\ UNCHANGED sendVars
        /\ UNCHANGED <<lockQueue, dispatched, alerts, unheard>>
    BY DEF Accept, Stall, Close, lockVars, sendVars
  <1> QED
    BY <1>1, <1>2, SameQueue, SameSends DEF BroadcastInv

\* connect and disconnect, whether they have to wait or not.
LEMMA EndpointSteps ==
    ASSUME BroadcastInv, NEW s \in Sockets, Connect(s) \/ Disconnect(s)
    PROVE  BroadcastInv'
  <1>1. CASE LockFree
    <2>1. /\ sending = 0
          /\ Add(s) \/ Discard(s)
          /\ UNCHANGED lockVars
      BY <1>1 DEF Connect, Disconnect, LockFree
    <2>2. TypeOK'
      BY <2>1, AddType, DiscardType DEF BroadcastInv, lockVars, TypeOK
    <2>3. QueueInv'
      BY <2>1, SameQueue DEF BroadcastInv, lockVars, Add, Discard
    <2>4. SendInv'
      BY <2>1, AddSends, DiscardSends DEF BroadcastInv, lockVars
    <2> QED
      BY <2>2, <2>3, <2>4 DEF BroadcastInv
  <1>2. CASE ~LockFree
    <2>1. PICK task \in {<<"connect", s>>, <<"disconnect", s>>} :
                 WaitForLock(task)
      BY <1>2 DEF Connect, Disconnect
    <2>2. /\ endpoint' \in [Sockets -> EndpointStates]
          /\ UNCHANGED <<open, stalled, connections, alerts, unheard,
                         dispatched, joined, received>>
      BY <1>2 DEF Connect, Disconnect, BroadcastInv, TypeOK, Move,
                  EndpointStates
    <2>3. task \in Tasks /\ \A n \in Alerts : task # <<"broadcast", n>>
      BY TaskTypes, OtherTasks
    <2>4. TypeOK'
      BY <2>1, <2>2, <2>3, WaitType DEF BroadcastInv, TypeOK
    <2>5. QueueInv'
      BY <2>1, <2>2, <2>3, OtherTaskWaits
         DEF BroadcastInv, TypeOK, QueueType, WaitForLock
    <2>6. SendInv'
      BY <2>1, <2>2, SameSends DEF BroadcastInv, WaitForLock, sendVars
    <2> QED
      BY <2>4, <2>5, <2>6 DEF BroadcastInv
  <1> QED
    BY <1>1, <1>2

LEMMA BroadcastStep ==
    ASSUME BroadcastInv, Broadcast
    PROVE  BroadcastInv'
  <1>0. /\ alerts' = alerts + 1 /\ alerts' \in Alerts
        /\ alerts' \in 0 .. MaxAlerts
        /\ alerts < MaxAlerts
        /\ dispatched < alerts'
    BY BroadcastAssumption
       DEF Broadcast, BroadcastInv, TypeOK, QueueInv, WaitersInOrder, Alerts
  <1>q. QueueType
    BY DEF BroadcastInv, TypeOK, QueueType
  <1>1. CASE connections = {}
    <2>1. /\ unheard' = unheard \cup {alerts'}
          /\ UNCHANGED <<endpoint, open, stalled, connections, dispatched,
                         joined, received>>
          /\ UNCHANGED lockVars
      BY <1>1 DEF Broadcast
    <2>2. TypeOK'
      BY <1>0, <2>1 DEF BroadcastInv, TypeOK, lockVars
    <2>3. QueueInv'
      BY <1>0, <1>q, <2>1, AlertUnheard DEF BroadcastInv, lockVars
    <2>4. SendInv'
      BY <2>1, SameSends DEF BroadcastInv, lockVars, sendVars
    <2> QED
      BY <2>2, <2>3, <2>4 DEF BroadcastInv
  <1>2. CASE connections # {} /\ LockFree
    <2>1. /\ BeginBroadcast(alerts')
          /\ UNCHANGED <<lockQueue, unheard>>
          /\ sending = 0 /\ lockQueue = <<>>
      BY <1>2 DEF Broadcast, LockFree
    <2>2. TypeOK'
      BY <1>0, <2>1, BeginType DEF BroadcastInv, TypeOK
    <2>3. /\ QueueInv'
          /\ \A m \in Alerts : dispatched < m /\ m < alerts' => m \in unheard
      BY <1>0, <1>q, <2>1, AlertBegins DEF BroadcastInv, BeginBroadcast
    <2>4. SendInv'
      BY <1>0, <2>1, <2>3, BeginSends DEF BroadcastInv
    <2> QED
      BY <2>2, <2>3, <2>4 DEF BroadcastInv
  <1>3. CASE connections # {} /\ ~LockFree
    <2>1. /\ WaitForLock(<<"broadcast", alerts'>>)
          /\ UNCHANGED <<endpoint, open, stalled, connections, unheard,
                         dispatched, joined, received>>
      BY <1>3 DEF Broadcast
    <2>2. TypeOK'
      BY <1>0, <2>1, TaskTypes, WaitType DEF BroadcastInv, TypeOK
    <2>3. QueueInv'
      BY <1>0, <1>q, <2>1, AlertWaits, BroadcastAssumption
         DEF BroadcastInv, WaitForLock
    <2>4. SendInv'
      BY <2>1, SameSends DEF BroadcastInv, WaitForLock, sendVars
    <2> QED
      BY <2>2, <2>3, <2>4 DEF BroadcastInv
  <1> QED
    BY <1>1, <1>2, <1>3

LEMMA SendSteps ==
    ASSUME BroadcastInv, SendReturns \/ SendRaises
    PROVE  BroadcastInv'
  <1>0. target # NoSocket /\ target \in remaining /\ target \in Sockets
          /\ sending \in Alerts /\ remaining \cap disconnected = {}
          /\ target \in connections
    BY BroadcastAssumption
       DEF SendReturns, SendRaises, BroadcastInv, TypeOK, SendInv, LockIsHeld
  <1>1. CASE SendReturns
    <2>1. received' \in [Sockets -> Seq(Alerts)]
      BY <1>0, <1>1 DEF SendReturns, BroadcastInv, TypeOK
    <2>0. /\ SendToNext(remaining \ {target}, disconnected)
          /\ remaining \ {target} \subseteq remaining
          /\ disconnected \subseteq connections
          /\ (remaining \ {target}) \cap disconnected = {}
          /\ UNCHANGED <<endpoint, open, stalled, lockQueue, alerts, unheard,
                         dispatched, joined>>
      BY <1>0, <1>1 DEF SendReturns, BroadcastInv, TypeOK
    <2>2. TypeOK'
      BY <2>0, <2>1, SendType DEF BroadcastInv
    <2>3. SendInv'
      BY <1>0, <1>1, SendOver DEF SendReturns, BroadcastInv
    <2>4. QueueInv'
      BY <1>1, SameQueue DEF SendReturns, BroadcastInv
    <2> QED
      BY <2>2, <2>3, <2>4 DEF BroadcastInv
  <1>2. CASE SendRaises
    <2>0. /\ SendToNext(remaining \ {target}, disconnected \cup {target})
          /\ remaining \ {target} \subseteq remaining
          /\ disconnected \cup {target} \subseteq connections
          /\ (remaining \ {target}) \cap (disconnected \cup {target}) = {}
          /\ received' \in [Sockets -> Seq(Alerts)]
          /\ UNCHANGED <<endpoint, open, stalled, lockQueue, alerts, unheard,
                         dispatched, joined>>
      BY <1>0, <1>2 DEF SendRaises, BroadcastInv, TypeOK
    <2>1. TypeOK'
      BY <2>0, SendType DEF BroadcastInv
    <2>2. SendInv'
      BY <1>0, <1>2, SendOver DEF SendRaises, BroadcastInv
    <2>3. QueueInv'
      BY <1>2, SameQueue DEF SendRaises, BroadcastInv
    <2> QED
      BY <2>1, <2>2, <2>3 DEF BroadcastInv
  <1> QED
    BY <1>1, <1>2

LEMMA GrantedStep ==
    ASSUME BroadcastInv, Granted
    PROVE  BroadcastInv'
  <1>0. /\ QueueType
        /\ sending = 0 /\ lockQueue # <<>>
        /\ lockQueue' = Tail(lockQueue)
        /\ lockQueue' \in Seq(Tasks)
    BY ServedQueue DEF Granted, BroadcastInv, TypeOK, QueueType
  <1>1. ASSUME NEW s \in Sockets,
               Head(lockQueue) \in {<<"connect", s>>, <<"disconnect", s>>},
               Add(s) \/ Discard(s),
               UNCHANGED <<sending, target, remaining, disconnected>>
        PROVE  BroadcastInv'
    <2>1. TypeOK'
      BY <1>0, <1>1, AddType, DiscardType DEF BroadcastInv
    <2>2. \A n \in Alerts : Head(lockQueue) # <<"broadcast", n>>
      BY <1>1, OtherTasks
    <2>3. UNCHANGED <<dispatched, alerts, unheard>>
      BY <1>1 DEF Add, Discard
    <2>4. QueueInv'
      BY <1>0, <2>2, <2>3, OtherTaskServed DEF BroadcastInv
    <2>5. SendInv'
      BY <1>0, <1>1, AddSends, DiscardSends DEF BroadcastInv
    <2> QED
      BY <2>1, <2>4, <2>5 DEF BroadcastInv
  <1>2. ASSUME NEW n \in Alerts, Head(lockQueue) = <<"broadcast", n>>,
               BeginBroadcast(n), UNCHANGED <<alerts, unheard>>
        PROVE  BroadcastInv'
    <2>1. TypeOK'
      BY <1>0, <1>2, BeginType DEF BroadcastInv, TypeOK
    <2>2. /\ QueueInv'
          /\ dispatched < n
          /\ \A m \in Alerts : dispatched < m /\ m < n => m \in unheard
      BY <1>0, <1>2, AlertServed DEF BroadcastInv, BeginBroadcast
    <2>3. SendInv'
      BY <1>0, <1>2, <2>2, BeginSends DEF BroadcastInv
    <2> QED
      BY <2>1, <2>2, <2>3 DEF BroadcastInv
  <1> QED
    BY <1>1, <1>2 DEF Granted

LEMMA NextAlerts ==
    ASSUME BroadcastInv, [Next]_vars
    PROVE  BroadcastInv'
  <1>1. CASE UNCHANGED vars
    <2>1. TypeOK'
      BY <1>1 DEF vars, BroadcastInv, TypeOK
    <2>2. QueueInv' /\ SendInv'
      BY <1>1, SameQueue, SameSends DEF vars, sendVars, BroadcastInv
    <2> QED
      BY <2>1, <2>2 DEF BroadcastInv
  <1> QED
    BY <1>1, ClientSteps, EndpointSteps, BroadcastStep, SendSteps, GrantedStep
       DEF Next

-----------------------------------------------------------------------------
LEMMA AlertsInvariant == Spec => []BroadcastInv
  BY InitAlerts, NextAlerts, PTL DEF Spec

\* Every variable of the manager has its type, and what a broadcast has still
\* to send to are registered connections.
THEOREM BroadcastTypeCorrect == Spec => []TypeOK
  <1>1. BroadcastInv => TypeOK
    BY DEF BroadcastInv
  <1> QED
    BY <1>1, AlertsInvariant, PTL

\* Every client receives alerts in the order of their generation, whatever
\* connects, goes, fails or hangs meanwhile.
THEOREM AlertsInOrder == Spec => []InOrder
  <1>1. BroadcastInv => InOrder
    BY DEF BroadcastInv, SendInv
  <1> QED
    BY <1>1, AlertsInvariant, PTL

\* A registered client misses no alert but those that found nobody registered
\* and those its own sends failed for.
THEOREM AlertsComplete == Spec => []NothingSkipped
  <1>1. BroadcastInv => NothingSkipped
    BY DEF BroadcastInv, SendInv
  <1> QED
    BY <1>1, AlertsInvariant, PTL
=============================================================================
