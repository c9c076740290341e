---- MODULE HubService_proofs ----
EXTENDS HubTiming, FiniteSetTheorems, TLAPS

(***************************************************************************)
(* Proofs about the hub service, for any places, refreshes, polls and      *)
(* connections, and about the timing of its scheduler.                     *)
(***************************************************************************)

----------------------------------------------------------------------------
(* Type correctness, and how much waits in a queue *)

\* Tasks of the service that have begun and not broadcast yet.
Busy == {t \in Service : pc[t] # "off"}

\* What waits for a connection and what is about to come fit in its queue.
QueueRoom == \A c \in Clients : Len(queue[c]) + Cardinality(Busy) <= MaxQueue

TypeInv == TypeOK /\ DOMAIN cur = Tasks /\ QueueRoom

\* There are finitely many tasks of the service, so busy ones can be counted.
LEMMA BusyFinite ==
    ASSUME NEW B \in SUBSET Service
    PROVE  IsFiniteSet(B) /\ Cardinality(B) \in Nat
<1>1. IsFiniteSet(Service)
  BY HubAssumption, FS_Union, FS_Singleton DEF Service
<1>2. QED
  BY <1>1, FS_Subset, FS_CardinalityType

\* The steps of the hub, by what they do to busy tasks and queues.
LEMMA QueueSteps ==
    ASSUME TypeOK, Next
    PROVE  \/ Busy' \subseteq Busy /\ UNCHANGED queue
           \/ \E t \in Tasks : Begin(t)
           \/ \E t \in Busy, boards \in Boards : Busy' = Busy \ {t} /\ Broadcast(boards)
           \/ \E c \in Clients : Busy' = Busy /\ (SendNext(c) \/ Disconnect(c))
           \/ Busy' = {} /\ Restart
<1> USE DEF TypeOK, Busy, locals, streams, history, coordinator, Loop, Off
<1>0. Sched \in Service /\ Service \subseteq Tasks
  BY DEF Tasks, Service
<1>1. ASSUME NEW t \in Tasks, Step(t)
      PROVE  \/ Busy' \subseteq Busy /\ UNCHANGED queue
             \/ t \in Busy /\ \E boards \in Boards : Busy' = Busy \ {t} /\ Broadcast(boards)
  <2>1. CASE PlacesServed(t) \/ PlacesFails(t) \/ Upsert(t) \/ UpsertFails(t)
    BY <1>0, <2>1 DEF PlacesServed, PlacesFails, Upsert, UpsertFails
  <2>2. ASSUME NEW p \in Places, ShowServed(t, p) \/ ShowFails(t, p) \/ ShowEmpty(t, p)
        PROVE  Busy' \subseteq Busy /\ UNCHANGED queue
    BY <1>0, <2>2 DEF ShowServed, ShowFails, ShowEmpty, Shown
  <2>3. CASE Synced(t) \/ Polled(t)
    BY <1>0, <2>3 DEF Synced, Polled
  <2>4. CASE Pushed(t)
    <3>1. payload[t] \in Boards
      OBVIOUS
    <3>2. CASE t \in Refreshes
      BY <1>0, <2>4, <3>1, <3>2 DEF Pushed, Service
    <3>3. CASE t \notin Refreshes
      BY <1>0, <2>4, <3>3 DEF Pushed
    <3>4. QED
      BY <3>2, <3>3
  <2>5. QED
    BY <1>1, <2>1, <2>2, <2>3, <2>4 DEF Step
<1>2. CASE SchedSynced \/ SchedPolled \/ SchedFails
  <2>1. CASE counter + SyncInterval >= PollInterval /\ SchedSynced
    BY <1>0, <2>1 DEF SchedSynced
  <2>2. CASE ~(counter + SyncInterval >= PollInterval) /\ SchedSynced
    <3>1. Busy' = Busy \ {Sched} /\ Sched \in Busy
      BY <1>0, <2>2 DEF SchedSynced
    <3>2. Broadcast(db) /\ db \in Boards
      BY <2>2 DEF SchedSynced
    <3>3. QED
      BY <3>1, <3>2
  <2>3. CASE SchedPolled
    BY <1>0, <2>3 DEF SchedPolled
  <2>4. CASE SchedFails
    BY <1>0, <2>4 DEF SchedFails
  <2>5. QED
    BY <1>2, <2>1, <2>2, <2>3, <2>4
<1>3. ASSUME NEW c \in Clients, Join(c) \/ Stream(c) \/ Disconnect(c)
      PROVE  Busy' = Busy /\ (UNCHANGED queue \/ SendNext(c) \/ Disconnect(c))
  BY <1>3 DEF Join, Stream, SendSnapshot, Await, SendNext, Disconnect
<1>4. ASSUME NEW p \in Places, Change(p) \/ Remove(p) PROVE Busy' = Busy /\ UNCHANGED queue
  BY <1>4 DEF Change, Remove
<1>5. CASE CalmDown
  BY <1>5 DEF CalmDown
<1>6. CASE Restart
  BY <1>0, <1>6 DEF Restart
<1>7. QED
  BY <1>0, <1>1, <1>2, <1>3, <1>4, <1>5, <1>6 DEF Next, Elsewhere

\* No step lets a queue grow past its bound.
LEMMA RoomStep ==
    ASSUME TypeOK, QueueRoom, [Next]_vars
    PROVE  QueueRoom'
<1> DEFINE n == Cardinality(Busy)
           m == Cardinality(Busy')
<1>1. IsFiniteSet(Busy) /\ n \in Nat
  BY BusyFinite DEF Busy
<1>2. \A c \in Clients : Len(queue[c]) \in Nat /\ Len(queue[c]) + n <= MaxQueue /\ queue[c] \in Seq(Boards)
  BY <1>1 DEF TypeOK, QueueRoom
<1> SUFFICES ASSUME NEW c \in Clients PROVE Len(queue'[c]) + m <= MaxQueue
  BY DEF QueueRoom
<1>3. CASE Busy' \subseteq Busy /\ UNCHANGED queue
  <2>1. m <= n /\ m \in Nat
    BY <1>1, <1>3, FS_Subset, FS_CardinalityType
  <2>2. QED
    BY <1>1, <1>2, <1>3, <2>1, HubAssumption
<1>4. ASSUME NEW t \in Tasks, Begin(t)
      PROVE  Len(queue'[c]) + m <= MaxQueue
  <2>1. queue' = queue /\ Len(queue[c]) + n < MaxQueue
    BY <1>4 DEF Begin, Room, Busy, streams
  <2>2. Busy' \subseteq Busy \cup {t}
    BY <1>4 DEF Begin, Busy, TypeOK
  <2>3. m <= n + 1 /\ m \in Nat
    <3>1. IsFiniteSet(Busy \cup {t}) /\ (Cardinality(Busy \cup {t}) = n \/ Cardinality(Busy \cup {t}) = n + 1)
      BY <1>1, FS_AddElement
    <3>2. m <= Cardinality(Busy \cup {t}) /\ m \in Nat /\ Cardinality(Busy \cup {t}) \in Nat
      BY <2>2, <3>1, FS_Subset, FS_CardinalityType
    <3>3. QED
      BY <1>1, <3>1, <3>2
  <2>4. QED
    BY <1>1, <1>2, <2>1, <2>3, HubAssumption
<1>5. ASSUME NEW t \in Busy, NEW boards \in Boards, Busy' = Busy \ {t}, Broadcast(boards)
      PROVE  Len(queue'[c]) + m <= MaxQueue
  <2>1. m = n - 1
    BY <1>1, <1>5, FS_RemoveElement
  <2>2. Len(queue'[c]) <= Len(queue[c]) + 1 /\ Len(queue'[c]) \in Nat
    BY <1>2, <1>5 DEF Broadcast
  <2>3. QED
    BY <1>1, <1>2, <2>1, <2>2, HubAssumption
<1>6. ASSUME NEW d \in Clients, Busy' = Busy, SendNext(d) \/ Disconnect(d)
      PROVE  Len(queue'[c]) + m <= MaxQueue
  <2>1. Len(queue'[c]) <= Len(queue[c]) /\ Len(queue'[c]) \in Nat
    <3>1. CASE SendNext(d) /\ c = d
      <4>1. queue'[c] = Tail(queue[c]) /\ queue[c] # << >>
        BY <3>1 DEF SendNext, Send, TypeOK
      <4>2. Len(Tail(queue[c])) = Len(queue[c]) - 1 /\ Len(queue[c]) # 0
        BY <1>2, <4>1
      <4>3. QED
        BY <1>2, <4>1, <4>2
    <3>2. CASE SendNext(d) /\ c # d
      BY <1>2, <3>2 DEF SendNext, Send, TypeOK
    <3>3. CASE Disconnect(d)
      BY <1>2, <3>3 DEF Disconnect, TypeOK
    <3>4. QED
      BY <1>6, <3>1, <3>2, <3>3
  <2>2. QED
    BY <1>1, <1>2, <1>6, <2>1, HubAssumption
<1>7. CASE Busy' = {} /\ Restart
  BY <1>7, FS_EmptySet, HubAssumption DEF Restart
<1>8. CASE UNCHANGED vars
  BY <1>2, <1>8 DEF vars, streams, Busy
<1>9. QED
  BY <1>3, <1>4, <1>5, <1>6, <1>7, <1>8, QueueSteps

\* What the queries of the coordinator answer is a status.
LEMMA AnswersTyped ==
    ASSUME TypeOK
    PROVE  /\ \A p \in Places : Read(coord[p]) \in Statuses
           /\ Down \in Statuses /\ Idle \in Statuses /\ NoBoards \in Boards
  BY HubAssumption DEF TypeOK, Statuses, Boards, NoBoards, Read, Down, Idle

\* Every step keeps the variables in their types and the queues in their bounds.
LEMMA TypeStep == TypeInv /\ [Next]_vars => TypeInv'
<1> SUFFICES ASSUME TypeInv, [Next]_vars PROVE TypeInv'
  OBVIOUS
<1>1. QueueRoom' /\ \A c \in Clients : queue'[c] \in Seq(Boards) => Len(queue'[c]) <= MaxQueue
  <2>1. QueueRoom' /\ Cardinality(Busy') \in Nat
    BY RoomStep, BusyFinite DEF TypeInv, Busy
  <2>2. QED
    BY <2>1, HubAssumption DEF QueueRoom
<1>2. Sched \in Service /\ Service \subseteq Tasks
  BY DEF Tasks, Service
<1> USE HubAssumption, AnswersTyped DEF TypeInv, TypeOK, coordinator, locals, streams, history, Loop, Off
<1>3. ASSUME NEW t \in Tasks, Step(t) PROVE TypeInv'
  <2>1. CASE PlacesServed(t)
    BY <1>1, <2>1 DEF PlacesServed
  <2>2. CASE PlacesFails(t)
    BY <1>1, <2>2 DEF PlacesFails
  <2>3. ASSUME NEW p \in Places, ShowServed(t, p) \/ ShowFails(t, p) \/ ShowEmpty(t, p)
        PROVE  TypeInv'
    <3>1. PICK v \in Statuses : Shown(t, p, v)
      BY <2>3 DEF ShowServed, ShowFails, ShowEmpty
    <3>2. QED
      BY <1>1, <3>1 DEF Shown
  <2>4. CASE Upsert(t)
    BY <1>1, <2>4 DEF Upsert, Boards
  <2>5. CASE UpsertFails(t)
    BY <1>1, <2>5 DEF UpsertFails
  <2>6. CASE Synced(t)
    BY <1>1, <2>6 DEF Synced
  <2>7. CASE Polled(t)
    BY <1>1, <2>7 DEF Polled
  <2>8. CASE Pushed(t)
    <3>1. CASE t \in Refreshes
      <4>1. pc' = [pc EXCEPT ![t] = "off"] /\ payload' = [payload EXCEPT ![t] = NoBoards]
        BY <2>8 DEF Pushed
      <4>2. Broadcast(payload[t]) /\ payload[t] \in Boards
        BY <2>8, <3>1 DEF Pushed
      <4>3. UNCHANGED <<coordinator, todo, cur, answer, counter, db, clean, settled>>
        BY <2>8 DEF Pushed
      <4>4. QED
        BY <1>1, <4>1, <4>2, <4>3 DEF Broadcast
    <3>2. CASE t \notin Refreshes
      BY <1>1, <2>8, <3>2 DEF Pushed
    <3>3. QED
      BY <3>1, <3>2
  <2>9. QED
    BY <1>3, <2>1, <2>2, <2>3, <2>4, <2>5, <2>6, <2>7, <2>8 DEF Step
<1>4. ASSUME NEW t \in Tasks, Begin(t) PROVE TypeInv'
  BY <1>1, <1>4 DEF Begin
<1>5. CASE SchedSynced
  <2>1. CASE counter + SyncInterval >= PollInterval
    <3>1. counter' = 0 /\ pc' = [pc EXCEPT ![Sched] = "telemetry"] /\ UNCHANGED <<streams, newest>>
      BY <1>5, <2>1 DEF SchedSynced
    <3>2. counter' \in 0..PollInterval
      BY <3>1
    <3>3. UNCHANGED <<coordinator, locals, db, clean, settled>>
      BY <1>5 DEF SchedSynced
    <3>4. QED
      BY <1>1, <1>2, <3>1, <3>2, <3>3
  <2>2. CASE ~(counter + SyncInterval >= PollInterval)
    <3>1. counter' = counter + SyncInterval /\ pc' = [pc EXCEPT ![Sched] = "off"] /\ Broadcast(db)
      BY <1>5, <2>2 DEF SchedSynced
    <3>2. counter' \in 0..PollInterval
      BY <2>2, <3>1
    <3>3. UNCHANGED <<coordinator, locals, db, clean, settled>>
      BY <1>5 DEF SchedSynced
    <3>4. QED
      BY <1>1, <1>2, <3>1, <3>2, <3>3 DEF Broadcast
  <2>3. QED
    BY <2>1, <2>2
<1>6. CASE SchedPolled
  BY <1>1, <1>2, <1>6 DEF SchedPolled, Broadcast
<1>7. CASE SchedFails
  BY <1>1, <1>2, <1>7 DEF SchedFails
<1>8. ASSUME NEW c \in Clients, Join(c) PROVE TypeInv'
  BY <1>1, <1>8 DEF Join
<1>9. ASSUME NEW c \in Clients, SendSnapshot(c) \/ Await(c) PROVE TypeInv'
  BY <1>1, <1>9 DEF SendSnapshot, Await, Send
<1>10. ASSUME NEW c \in Clients, SendNext(c) PROVE TypeInv'
  BY <1>1, <1>10 DEF SendNext, Send
<1>11. ASSUME NEW c \in Clients, Disconnect(c) PROVE TypeInv'
  BY <1>1, <1>11 DEF Disconnect
<1>12. CASE Restart
  BY <1>1, <1>12 DEF Restart
<1>13. ASSUME NEW p \in Places, Change(p) \/ Remove(p) PROVE TypeInv'
  <2>1. CASE Change(p)
    <3>1. coord' \in [Places -> 0..MaxChanges]
      BY <2>1 DEF Change
    <3>2. settled' \in BOOLEAN /\ clean' = {} /\ UNCHANGED newest
      BY <2>1, Zenon DEF Change, Changed
    <3>3. UNCHANGED <<listed, calm, pc, locals, counter, db, streams>>
      BY <2>1 DEF Change
    <3>4. QED
      BY <1>1, <3>1, <3>2, <3>3
  <2>2. CASE Remove(p)
    BY <1>1, <1>13, <2>2 DEF Remove, Changed
  <2>3. QED
    BY <1>13, <2>1, <2>2
<1>14. CASE CalmDown
  BY <1>1, <1>14 DEF CalmDown
<1>15. CASE UNCHANGED vars
  BY <1>1, <1>15 DEF vars
<1>16. QED
  BY <1>2, <1>3, <1>4, <1>5, <1>6, <1>7, <1>8, <1>9, <1>10, <1>11, <1>12, <1>13, <1>14, <1>15
     DEF Next, Elsewhere, Stream

\* Every reachable state of the hub is well typed, and no queue overflows.
LEMMA TypeInvariance == Spec => []TypeInv
<1>1. Init => TypeInv
  <2> SUFFICES ASSUME Init PROVE TypeInv
    OBVIOUS
  <2>1. QueueRoom
    <3>1. Busy = {}
      BY DEF Init, Busy, Tasks
    <3>2. QED
      BY <3>1, FS_EmptySet, HubAssumption DEF Init, QueueRoom
  <2>2. NoBoards \in Boards /\ Idle \in Statuses
    BY DEF Statuses, Boards, NoBoards, Idle
  <2>3. TypeOK
    <3>1. calm \in BOOLEAN /\ settled \in BOOLEAN
      BY Zenon DEF Init
    <3>2. \A t \in Tasks : pc[t] = "off"
      BY DEF Init
    <3>3. QED
      BY <2>2, <3>1, <3>2, HubAssumption DEF Init, TypeOK
  <2>4. QED
    BY <2>1, <2>3 DEF Init, TypeInv
<1>2. QED
  BY <1>1, TypeStep, PTL DEF Spec

\* The hub's variables have their types, and each queue its bound, in every
\* reachable state.
THEOREM TypeCorrect == Spec => []TypeOK
<1>1. TypeInv => TypeOK
  BY DEF TypeInv
<1>2. QED
  BY <1>1, TypeInvariance, PTL

----------------------------------------------------------------------------
(* The event stream *)

\* A connection is registered as long as it is open, and its queue ends with the
\* last broadcast of its time; what it was sent last is that one once the queue
\* is empty.
StreamInv == \A c \in Clients :
    /\ Connected(c) => c \in subscribers
    /\ ~Connected(c) => queue[c] = << >>
    /\ queue[c] # << >> => newest[c] = <<queue[c][Len(queue[c])]>>
    /\ Connected(c) /\ queue[c] = << >> /\ newest[c] # << >> =>
          phase[c] \in {"sending", "waiting"} /\ newest[c] = <<view[c]>>

\* A broadcast reaches every open connection.
LEMMA BroadcastStep ==
    ASSUME TypeOK, StreamInv, NEW boards \in Boards, Broadcast(boards)
    PROVE  StreamInv'
<1> SUFFICES ASSUME NEW c \in Clients
             PROVE  /\ Connected(c)' => c \in subscribers'
                    /\ ~Connected(c)' => queue'[c] = << >>
                    /\ queue'[c] # << >> => newest'[c] = <<queue'[c][Len(queue'[c])]>>
                    /\ Connected(c)' /\ queue'[c] = << >> /\ newest'[c] # << >> =>
                          phase'[c] \in {"sending", "waiting"} /\ newest'[c] = <<view'[c]>>
  BY DEF StreamInv
<1>1. UNCHANGED <<subscribers, phase, view>> /\ queue[c] \in Seq(Boards)
  BY DEF Broadcast, TypeOK
<1>2. CASE Connected(c)
  <2>1. queue'[c] = Append(queue[c], boards) /\ newest'[c] = <<boards>>
    BY <1>2 DEF Broadcast, StreamInv
  <2>2. queue'[c] # << >> /\ queue'[c][Len(queue'[c])] = boards
    BY <1>1, <2>1
  <2>3. QED
    BY <1>1, <1>2, <2>1, <2>2 DEF StreamInv, Connected
<1>3. CASE ~Connected(c)
  <2>1. queue'[c] = << >>
    BY <1>3 DEF Broadcast, StreamInv
  <2>2. QED
    BY <1>1, <1>3, <2>1 DEF Connected
<1>4. QED
  BY <1>2, <1>3

\* Which steps touch the streams.
LEMMA StreamSteps ==
    ASSUME TypeOK, Next
    PROVE  \/ UNCHANGED <<subscribers, phase, queue, view, newest>>
           \/ \E boards \in Boards : Broadcast(boards)
           \/ \E c \in Clients : Join(c) \/ Stream(c) \/ Disconnect(c)
           \/ Restart
<1> USE DEF streams, history
<1>1. ASSUME NEW t \in Tasks, Step(t)
      PROVE  \/ UNCHANGED <<subscribers, phase, queue, view, newest>>
             \/ \E boards \in Boards : Broadcast(boards)
  <2>1. CASE Pushed(t)
    <3>1. payload[t] \in Boards
      BY DEF TypeOK
    <3>2. QED
      BY <2>1, <3>1 DEF Pushed
  <2>2. QED
    BY <1>1, <2>1 DEF Step, PlacesServed, PlacesFails, ShowServed, ShowFails, ShowEmpty, Shown,
       Upsert, UpsertFails, Synced, Polled
<1>2. CASE SchedSynced \/ SchedPolled \/ SchedFails
  <2>1. db \in Boards
    BY DEF TypeOK
  <2>2. QED
    BY <1>2, <2>1 DEF SchedSynced, SchedPolled, SchedFails
<1>3. ASSUME NEW t \in Tasks, Begin(t)
      PROVE  UNCHANGED <<subscribers, phase, queue, view, newest>>
  BY <1>3 DEF Begin
<1>4. ASSUME NEW p \in Places, Change(p) \/ Remove(p)
      PROVE  UNCHANGED <<subscribers, phase, queue, view, newest>>
  BY <1>4 DEF Change, Remove, Changed
<1>5. CASE CalmDown
  BY <1>5 DEF CalmDown
<1>6. QED
  BY <1>1, <1>2, <1>3, <1>4, <1>5 DEF Next, Elsewhere, Tasks, Service

\* Every step keeps the connections up to date with the broadcasts.
LEMMA StreamStep ==
    ASSUME TypeInv, StreamInv, [Next]_vars
    PROVE  StreamInv'
<1>0. TypeOK
  BY DEF TypeInv
<1> USE DEF StreamInv, Connected
<1>1. CASE UNCHANGED <<subscribers, phase, queue, view, newest>>
  BY <1>1
<1>2. ASSUME NEW boards \in Boards, Broadcast(boards) PROVE StreamInv'
  BY <1>0, <1>2, BroadcastStep
<1>3. ASSUME NEW c \in Clients, Join(c) PROVE StreamInv'
  BY <1>0, <1>3 DEF Join, TypeOK
<1>4. ASSUME NEW c \in Clients, SendSnapshot(c) PROVE StreamInv'
  BY <1>0, <1>4 DEF SendSnapshot, Send, TypeOK, history
<1>5. ASSUME NEW c \in Clients, Await(c) PROVE StreamInv'
  BY <1>0, <1>5 DEF Await, TypeOK, history
<1>6. ASSUME NEW c \in Clients, SendNext(c) PROVE StreamInv'
  <2>1. queue[c] \in Seq(Boards) /\ queue[c] # << >> /\ newest[c] = <<queue[c][Len(queue[c])]>>
    BY <1>0, <1>6 DEF SendNext, TypeOK
  <2>2. queue'[c] = Tail(queue[c]) /\ view'[c] = Head(queue[c]) /\ phase'[c] = "sending"
    BY <1>0, <1>6 DEF SendNext, Send, TypeOK
  <2>3. UNCHANGED <<subscribers, newest>> /\ \A d \in Clients \ {c} :
          queue'[d] = queue[d] /\ view'[d] = view[d] /\ phase'[d] = phase[d]
    BY <1>0, <1>6 DEF SendNext, Send, TypeOK, history
  <2>4. CASE Tail(queue[c]) = << >>
    <3>1. Len(queue[c]) = 1 /\ Head(queue[c]) = queue[c][1]
      <4>1. Len(Tail(queue[c])) = Len(queue[c]) - 1 /\ Len(queue[c]) \in Nat
        BY <2>1
      <4>2. ASSUME Len(queue[c]) # 1 PROVE FALSE
        <5>1. Len(Tail(queue[c])) # 0
          BY <2>1, <4>1, <4>2
        <5>2. Len(<< >>) = 0
          OBVIOUS
        <5>3. QED
          BY <2>4, <5>1, <5>2, Zenon
      <4>3. QED
        BY <2>1, <4>1, <4>2
    <3>2. newest'[c] = <<view'[c]>>
      BY <2>1, <2>2, <2>3, <3>1
    <3>3. c \in subscribers'
      BY <1>6, <2>3 DEF SendNext
    <3>4. QED
      BY <2>2, <2>3, <2>4, <3>2, <3>3
  <2>5. CASE Tail(queue[c]) # << >>
    <3>1. Tail(queue[c])[Len(Tail(queue[c]))] = queue[c][Len(queue[c])]
      BY <2>1, <2>5
    <3>2. c \in subscribers'
      BY <1>6, <2>3 DEF SendNext
    <3>3. QED
      BY <2>1, <2>2, <2>3, <2>5, <3>1, <3>2
  <2>6. QED
    BY <2>4, <2>5
<1>7. ASSUME NEW c \in Clients, Disconnect(c) PROVE StreamInv'
  BY <1>0, <1>7 DEF Disconnect, TypeOK, history
<1>8. CASE Restart
  BY <1>8 DEF Restart
<1>9. QED
  BY <1>0, <1>1, <1>2, <1>3, <1>4, <1>5, <1>6, <1>7, <1>8, StreamSteps DEF Stream, vars, streams, history

\* For any tasks and connections, through restarts and failing reads: once a
\* connection has read its queue, it shows the last broadcast of its time.
THEOREM NoMissedBroadcastHolds == Spec => []NoMissedBroadcast
<1>1. Init => StreamInv
  BY DEF Init, StreamInv, Connected
<1>2. TypeInv /\ StreamInv /\ [Next]_vars => StreamInv'
  BY StreamStep
<1>3. StreamInv => NoMissedBroadcast
  BY DEF StreamInv, NoMissedBroadcast, Connected
<1>4. QED
  BY <1>1, <1>2, <1>3, TypeInvariance, PTL DEF Spec

----------------------------------------------------------------------------
(* Synchronisation with the coordinator *)

\* A stored or answered status that is not older than the reservation.
UpToDate(status, p) == status.kind = "read" => status.version = coord[p]

\* Either no sync began after the last change, or all that run did.
AllClean == settled \/ clean # {} => \A t \in Tasks : Running(t) => t \in clean

\* The answer that such a sync is about to store is up to date ...
CleanAnswer == \A t \in clean : pc[t] = "shown" => UpToDate(answer[t], cur[t])

\* ... and so is the row of each place that it has been through.
CleanRows == \A t \in clean : pc[t] \in {"show", "shown"} =>
    \A p \in listed \ todo[t] : UpToDate(db[p], p)

CleanInv == AllClean /\ CleanAnswer /\ CleanRows /\ SettledSync

\* Every step keeps what clean syncs have read and stored up to date.
LEMMA CleanStep ==
    ASSUME TypeInv, CleanInv, [Next]_vars
    PROVE  CleanInv'
<1>0. TypeOK /\ DOMAIN cur = Tasks
  BY DEF TypeInv
<1>2. Sched \in Service /\ Service \subseteq Tasks
  BY DEF Tasks, Service
<1> USE DEF TypeOK, CleanInv, AllClean, CleanAnswer, CleanRows, SettledSync, UpToDate, Running, coordinator, locals,
        streams, history, Loop, Off
<1>3. ASSUME NEW t \in Tasks, Step(t) PROVE CleanInv'
  <2>1. CASE PlacesServed(t)
    BY <1>0, <2>1 DEF PlacesServed
  <2>2. CASE PlacesFails(t)
    BY <1>0, <2>2 DEF PlacesFails
  <2>3. ASSUME NEW p \in Places, ShowServed(t, p)
        PROVE  CleanInv'
    BY <1>0, <2>3 DEF ShowServed, Shown, Read
  <2>4. ASSUME NEW p \in Places, ShowFails(t, p) \/ ShowEmpty(t, p)
        PROVE  CleanInv'
    <3>1. PICK v \in {Down, Idle} : Shown(t, p, v)
      BY <2>4 DEF ShowFails, ShowEmpty
    <3>2. v.kind # "read"
      BY DEF Down, Idle
    <3>3. QED
      BY <1>0, <3>1, <3>2 DEF Shown
  <2>5. CASE Upsert(t)
    BY <1>0, <2>5 DEF Upsert, Boards
  <2>6. CASE UpsertFails(t)
    BY <1>0, <2>6 DEF UpsertFails
  <2>7. CASE Synced(t) \/ Polled(t) \/ Pushed(t)
    <3>1. CASE Synced(t)
      BY <1>0, <3>1 DEF Synced
    <3>2. CASE Polled(t)
      BY <1>0, <3>2 DEF Polled
    <3>3. CASE Pushed(t)
      BY <1>0, <3>3 DEF Pushed
    <3>4. QED
      BY <2>7, <3>1, <3>2, <3>3
  <2>8. QED
    BY <1>3, <2>1, <2>2, <2>3, <2>4, <2>5, <2>6, <2>7 DEF Step
<1>4. ASSUME NEW t \in Tasks, Begin(t) PROVE CleanInv'
  BY <1>0, <1>4 DEF Begin
<1>5. CASE SchedSynced
  <2>1. UNCHANGED <<coord, listed, todo, cur, answer, db, clean, settled>>
    BY <1>5 DEF SchedSynced
  <2>2. pc' \in {[pc EXCEPT ![Sched] = "telemetry"], [pc EXCEPT ![Sched] = "off"]}
    BY <1>5 DEF SchedSynced
  <2>3. \A t \in Tasks : pc'[t] = pc[t] \/ pc'[t] \in {"telemetry", "off"}
    BY <1>0, <1>2, <2>2
  <2>4. QED
    BY <1>0, <2>1, <2>3
<1>6. CASE SchedPolled \/ SchedFails
  <2>1. CASE SchedPolled
    BY <1>0, <1>2, <2>1 DEF SchedPolled
  <2>2. CASE SchedFails
    BY <1>0, <1>2, <2>2 DEF SchedFails
  <2>3. QED
    BY <1>6, <2>1, <2>2
<1>7. ASSUME NEW c \in Clients, Join(c) \/ Stream(c) \/ Disconnect(c) PROVE CleanInv'
  BY <1>0, <1>7 DEF Join, Stream, SendSnapshot, Await, SendNext, Disconnect
<1>8. CASE Restart
  BY <1>0, <1>8 DEF Restart
<1>9. ASSUME NEW p \in Places, Change(p) \/ Remove(p) PROVE CleanInv'
  BY <1>0, <1>9 DEF Change, Remove, Changed
<1>10. CASE CalmDown
  BY <1>0, <1>10 DEF CalmDown
<1>11. CASE UNCHANGED vars
  BY <1>0, <1>11 DEF vars
<1>12. QED
  BY <1>2, <1>3, <1>4, <1>5, <1>6, <1>7, <1>8, <1>9, <1>10, <1>11 DEF Next, Elsewhere

\* For any places and any tasks that sync at the same time, whatever fails: what
\* a sync begun after the last change leaves behind is not older than the change.
THEOREM SettledSyncHolds == Spec => []SettledSync
<1>1. Init => CleanInv
  BY DEF Init, CleanInv, AllClean, CleanAnswer, CleanRows, SettledSync, Running, Tasks
<1>2. TypeInv /\ CleanInv /\ [Next]_vars => CleanInv'
  BY CleanStep
<1>3. CleanInv => SettledSync
  BY DEF CleanInv
<1>4. QED
  BY <1>1, <1>2, <1>3, TypeInvariance, PTL DEF Spec

----------------------------------------------------------------------------
(* Rows of a hub that has no task but the scheduler *)

\* What is stored is a version the coordinator had, and so is the answer about to
\* be stored, which was read after the row that it replaces.
RowsBehind ==
    /\ \A p \in Places : db[p].version <= coord[p]
    /\ pc[Sched] = "shown" =>
        /\ answer[Sched].version <= coord[cur[Sched]]
        /\ answer[Sched].kind = "read" => db[cur[Sched]].version <= answer[Sched].version

\* A row that is read again is not older than it was.
NoOlderRow ==
    \A p \in Places : db[p].kind = "read" /\ db'[p].kind = "read" => db[p].version <= db'[p].version

\* Every step keeps the rows behind the coordinator and takes none back.
LEMMA RowsStep ==
    ASSUME Tasks = {Sched}, TypeInv, RowsBehind, [Next]_vars
    PROVE  RowsBehind' /\ NoOlderRow
<1>0. TypeOK /\ DOMAIN cur = Tasks /\ Sched \in Tasks
  BY DEF TypeInv
<1> USE DEF TypeOK, RowsBehind, NoOlderRow, Boards, Statuses, coordinator, locals, streams, history, Loop, Off
<1>1. CASE PlacesServed(Sched) \/ PlacesFails(Sched) \/ UpsertFails(Sched) \/ Begin(Sched)
  BY <1>0, <1>1 DEF PlacesServed, PlacesFails, UpsertFails, Begin
<1>2. ASSUME NEW p \in Places, ShowServed(Sched, p) \/ ShowFails(Sched, p) \/ ShowEmpty(Sched, p)
      PROVE  RowsBehind' /\ NoOlderRow
  <2>1. PICK v \in {Read(coord[p]), Down, Idle} : Shown(Sched, p, v)
    BY <1>2 DEF ShowServed, ShowFails, ShowEmpty
  <2>2. v.version <= coord[p] /\ (v.kind = "read" => v.version = coord[p])
    BY <1>0, <2>1 DEF Read, Down, Idle
  <2>3. QED
    BY <1>0, <2>1, <2>2 DEF Shown
<1>3. CASE Upsert(Sched)
  <2> DEFINE p == cur[Sched]
  <2>1. p \in Places /\ db' = [db EXCEPT ![p] = answer[Sched]] /\ pc'[Sched] # "shown" /\ coord' = coord
    BY <1>0, <1>3 DEF Upsert
  <2>2. answer[Sched].version <= coord[p] /\ (answer[Sched].kind = "read" => db[p].version <= answer[Sched].version)
    BY <1>3 DEF Upsert
  <2>3. QED
    BY <1>0, <2>1, <2>2
<1>4. CASE SchedSynced \/ SchedPolled \/ SchedFails
  BY <1>0, <1>4 DEF SchedSynced, SchedPolled, SchedFails
<1>5. CASE Synced(Sched) \/ Polled(Sched) \/ Pushed(Sched)
  BY <1>0, <1>5 DEF Synced, Polled, Pushed
<1>6. ASSUME NEW c \in Clients, Join(c) \/ Stream(c) \/ Disconnect(c)
      PROVE  RowsBehind' /\ NoOlderRow
  BY <1>0, <1>6 DEF Join, Stream, SendSnapshot, Await, SendNext, Disconnect
<1>7. CASE Restart
  <2>1. pc'[Sched] = "off" /\ UNCHANGED <<coord, db>>
    BY <1>0, <1>7 DEF Restart, Service
  <2>2. QED
    BY <1>0, <2>1
<1>8. ASSUME NEW p \in Places, Change(p) \/ Remove(p)
      PROVE  RowsBehind' /\ NoOlderRow
  <2>1. UNCHANGED <<pc, cur, answer, db>>
    BY <1>8 DEF Change, Remove
  <2>2. coord' = coord \/ coord' = [coord EXCEPT ![p] = @ + 1]
    BY <1>8 DEF Change, Remove
  <2>3. \A q \in Places : coord[q] \in Nat /\ coord'[q] \in Nat /\ coord[q] <= coord'[q]
    <3>1. coord \in [Places -> Nat]
      BY <1>0, HubAssumption
    <3>2. \A q \in Places : coord'[q] = coord[q] \/ coord'[q] = coord[q] + 1
      BY <2>2, <3>1
    <3>3. QED
      BY <3>1, <3>2
  <2>4. \A q \in Places : db[q].version \in Nat
    BY <1>0
  <2>5. pc[Sched] = "shown" => cur[Sched] \in Places /\ answer[Sched].version \in Nat
    BY <1>0
  <2>6. RowsBehind'
    BY <2>1, <2>3, <2>4, <2>5
  <2>7. QED
    BY <1>0, <2>1, <2>6
<1>9. CASE CalmDown \/ UNCHANGED vars
  BY <1>0, <1>9 DEF CalmDown, vars
<1>10. QED
  BY <1>1, <1>2, <1>3, <1>4, <1>5, <1>6, <1>7, <1>8, <1>9 DEF Next, Elsewhere, Step

\* As long as nobody calls a refresh or runs `hub.py poll`, a row is never
\* replaced by an older reading: only syncs that overlap can do that.
THEOREM AloneNeverBack == Tasks = {Sched} => (Spec => [][NoOlderRow]_vars)
<1> SUFFICES ASSUME Tasks = {Sched} PROVE Spec => [][NoOlderRow]_vars
  OBVIOUS
<1>1. Init => RowsBehind
  BY DEF Init, RowsBehind, NoBoards, Idle, Tasks, Service
<1>2. TypeInv /\ RowsBehind /\ [Next]_vars => RowsBehind' /\ [NoOlderRow]_vars
  BY RowsStep
<1>3. QED
  BY <1>1, <1>2, TypeInvariance, PTL DEF Spec

----------------------------------------------------------------------------
(* How far apart the scheduler's polls are *)

\* The timed hub does what the hub does.
LEMMA TimedStep == TimedNext => Next
<1> SUFFICES ASSUME TimedNext PROVE Next
  OBVIOUS
<1>1. QED
  BY DEF TimedNext, SleepEnds, PollStarts, NoPollDue, PollEnds, SyncRaises, PollRaises, ServiceRestarts,
     Meanwhile, Next

\* So all that is proved of the hub holds when its steps take time.
THEOREM TimedImplementsHub == TimedSpec => Spec
<1>1. TimedInit => Init
  BY DEF TimedInit
<1>2. [TimedNext]_<<vars, timing>> => [Next]_vars
  BY TimedStep
<1>3. QED
  BY <1>1, <1>2, PTL DEF TimedSpec, Spec

\* The sleep that an iteration which is over has still to wait for.
SleepDue == IF pc[Sched] = "off" THEN SyncInterval ELSE 0

\* The counter holds SyncInterval for each iteration since the last poll that
\* did not raise.
Counted(rounds) ==
    /\ rounds \in 0..(Rounds - 1)
    /\ counter = rounds * SyncInterval
    /\ (rounds + 1) * SyncInterval <= since + SleepDue
    /\ since + SleepDue <= MaxPoll + SyncInterval + (rounds + skips) * (SyncInterval + MaxSync)

ScheduleInv ==
    /\ TimingOK /\ GapBounded
    /\ pc[Sched] # "pushing"
    /\ polled /\ pc[Sched] = "telemetry" => counter = 0 /\ since = 0 /\ skips = 0
    /\ polled /\ pc[Sched] # "telemetry" => \E rounds \in Nat : Counted(rounds)

\* Rounds iterations reach the poll interval, and fewer do not.
LEMMA RoundsEnough ==
    ASSUME NEW n \in Nat
    PROVE  /\ n * SyncInterval < PollInterval => n <= Rounds - 1
           /\ n >= Rounds => n * SyncInterval >= PollInterval
           /\ n * SyncInterval \in Nat
<1> USE HubAssumption, TimingAssumption
<1>1. n * SyncInterval \in Nat /\ Rounds * SyncInterval \in Nat
  OBVIOUS
<1>2. n >= Rounds => n * SyncInterval >= Rounds * SyncInterval
  <2>1. ASSUME n >= Rounds PROVE (n - Rounds) * SyncInterval >= 0
    BY <2>1
  <2>2. n * SyncInterval = (n - Rounds) * SyncInterval + Rounds * SyncInterval
    OBVIOUS
  <2>3. QED
    BY <1>1, <2>1, <2>2
<1>3. QED
  BY <1>1, <1>2

\* Adding one to the number of rounds and skips.
LEMMA OneMore ==
    ASSUME NEW n \in Nat, NEW c \in Nat
    PROVE  (n + 1) * c = n * c + c
OBVIOUS

\* While the scheduler waits, nothing changes its counter, and it neither ends
\* its iteration nor begins one.
LEMMA MeanwhileSteps ==
    ASSUME TypeOK, pc[Sched] # "pushing", Meanwhile
    PROVE  /\ counter' = counter
           /\ \/ pc'[Sched] = pc[Sched]
              \/ pc[Sched] \notin {"off", "telemetry"} /\ pc'[Sched] \notin {"off", "telemetry", "pushing"}
<1> USE DEF TypeOK, locals, coordinator, streams, history, Loop, Off, Tasks, Service
<1>1. ASSUME NEW t \in Tasks, t # Sched, Begin(t)
      PROVE  counter' = counter /\ pc'[Sched] = pc[Sched]
  BY <1>1 DEF Begin
<1>2. ASSUME NEW t \in Tasks, Step(t)
      PROVE  /\ counter' = counter
             /\ \/ pc'[Sched] = pc[Sched]
                \/ pc[Sched] \notin {"off", "telemetry"} /\ pc'[Sched] \notin {"off", "telemetry", "pushing"}
  <2>1. CASE PlacesServed(t) \/ PlacesFails(t) \/ Upsert(t) \/ UpsertFails(t)
    BY <2>1 DEF PlacesServed, PlacesFails, Upsert, UpsertFails
  <2>2. ASSUME NEW p \in Places, NEW v, Shown(t, p, v)
        PROVE  /\ counter' = counter
               /\ \/ pc'[Sched] = pc[Sched]
                  \/ pc[Sched] \notin {"off", "telemetry"} /\ pc'[Sched] \notin {"off", "telemetry", "pushing"}
    BY <2>2 DEF Shown
  <2>3. CASE Synced(t) \/ Polled(t) \/ Pushed(t)
    BY <2>3 DEF Synced, Polled, Pushed
  <2>4. QED
    BY <1>2, <2>1, <2>2, <2>3 DEF Step, ShowServed, ShowFails, ShowEmpty
<1>3. ASSUME NEW c \in Clients, Join(c) \/ Stream(c) \/ Disconnect(c)
      PROVE  counter' = counter /\ pc'[Sched] = pc[Sched]
  BY <1>3 DEF Join, Stream, SendSnapshot, Await, SendNext, Disconnect
<1>4. ASSUME NEW p \in Places, Change(p) \/ Remove(p)
      PROVE  counter' = counter /\ pc'[Sched] = pc[Sched]
  BY <1>4 DEF Change, Remove
<1>5. CASE CalmDown
  BY <1>5 DEF CalmDown
<1>6. QED
  BY <1>1, <1>2, <1>3, <1>4, <1>5 DEF Meanwhile, Elsewhere

\* The time between two polls, when the second is due after these rounds.
LEMMA PollDue ==
    ASSUME TimingOK, NEW rounds \in Nat, Counted(rounds), pc[Sched] = "synced",
           NEW sync \in 0..MaxSync, counter + SyncInterval >= PollInterval
    PROVE  /\ PollInterval <= since + sync
           /\ since + sync <= MaxPoll + (Rounds + skips) * (SyncInterval + MaxSync)
<1> USE HubAssumption, TimingAssumption DEF TimingOK, Counted, SleepDue
<1> DEFINE D == SyncInterval + MaxSync
<1>1. D \in Nat /\ since \in Nat /\ skips \in Nat
  OBVIOUS
<1>2. counter + SyncInterval = (rounds + 1) * SyncInterval /\ (rounds + 1) * SyncInterval \in Nat
  BY OneMore
<1>3. since + sync <= MaxPoll + D + (rounds + skips) * D
  OBVIOUS
<1>4. (rounds + skips + 1) * D = (rounds + skips) * D + D
  BY <1>1
<1>5. (rounds + skips + 1) * D <= (Rounds + skips) * D
  <2>1. (Rounds - (rounds + 1)) * D >= 0
    BY <1>1
  <2>2. (Rounds + skips) * D = (Rounds - (rounds + 1)) * D + (rounds + skips + 1) * D
    BY <1>1
  <2>3. (Rounds + skips) * D \in Nat /\ (rounds + skips + 1) * D \in Nat /\ (Rounds - (rounds + 1)) * D \in Int
    BY <1>1
  <2>4. QED
    BY <2>1, <2>2, <2>3
<1>6. (rounds + skips) * D \in Nat /\ (rounds + skips + 1) * D \in Nat /\ (Rounds + skips) * D \in Nat
  BY <1>1
<1>7. PollInterval <= since + sync
  BY <1>2
<1>8. since + sync <= MaxPoll + (Rounds + skips) * D
  BY <1>1, <1>3, <1>4, <1>5, <1>6
<1>9. QED
  BY <1>7, <1>8

\* Every timed step keeps the schedule.
LEMMA ScheduleStep ==
    ASSUME TypeInv, TypeInv', ScheduleInv, [TimedNext]_<<vars, timing>>
    PROVE  ScheduleInv'
<1> USE HubAssumption, TimingAssumption DEF TypeInv, ScheduleInv, TimingOK
<1> DEFINE D == SyncInterval + MaxSync
<1>0. Sched \in Tasks /\ D \in Nat
  BY DEF Tasks, Service
<1>1. CASE SleepEnds
  <2>1. pc[Sched] = "off" /\ pc'[Sched] = "places" /\ counter' = counter
    BY <1>0, <1>1 DEF SleepEnds, Begin, TypeOK, locals
  <2>2. UNCHANGED <<skips, polled, gap>> /\ (polled => since' = since + SyncInterval) /\ since' \in Nat
    BY <1>1 DEF SleepEnds, Elapse
  <2>3. ASSUME polled PROVE \E rounds \in Nat : Counted(rounds)'
    <3>1. PICK rounds \in Nat : Counted(rounds)
      BY <2>1, <2>3
    <3>2. Counted(rounds)'
      BY <2>1, <2>2, <2>3, <3>1 DEF Counted, SleepDue
    <3>3. QED
      BY <3>2
  <2>4. QED
    BY <2>1, <2>2, <2>3 DEF GapBounded
<1>2. ASSUME NEW sync \in 0..MaxSync, PollStarts(sync) PROVE ScheduleInv'
  <2>1. pc[Sched] = "synced" /\ pc'[Sched] = "telemetry" /\ counter + SyncInterval >= PollInterval /\ counter' = 0
    BY <1>0, <1>2 DEF PollStarts, SchedSynced, TypeOK, Off
  <2>2. polled' = TRUE /\ since' = 0 /\ skips' = 0
        /\ gap' = IF polled THEN [time |-> since + sync, skips |-> skips] ELSE gap
    BY <1>2 DEF PollStarts
  <2>3. CASE ~polled
    BY <2>1, <2>2, <2>3 DEF GapBounded
  <2>4. CASE polled
    <3>1. PICK rounds \in Nat : Counted(rounds)
      BY <2>1, <2>4
    <3>2. /\ PollInterval <= since + sync
          /\ since + sync <= MaxPoll + (Rounds + skips) * D
      BY <2>1, <3>1, PollDue
    <3>3. QED
      BY <2>1, <2>2, <2>4, <3>2 DEF GapBounded
  <2>5. QED
    BY <2>3, <2>4
<1>3. ASSUME NEW sync \in 0..MaxSync, NoPollDue(sync) PROVE ScheduleInv'
  <2>1. /\ pc[Sched] = "synced" /\ pc'[Sched] = "off"
        /\ counter + SyncInterval < PollInterval /\ counter' = counter + SyncInterval
    BY <1>0, <1>3 DEF NoPollDue, SchedSynced, TypeOK, Off
  <2>2. UNCHANGED <<skips, polled, gap>> /\ (polled => since' = since + sync) /\ since' \in Nat
    BY <1>3 DEF NoPollDue, Elapse
  <2>3. ASSUME polled PROVE \E rounds \in Nat : Counted(rounds)'
    <3>1. PICK rounds \in Nat : Counted(rounds)
      BY <2>1, <2>3
    <3>2. counter' = (rounds + 1) * SyncInterval
      BY <2>1, <3>1, OneMore DEF Counted
    <3>3. rounds + 1 \in 0..(Rounds - 1)
      BY <2>1, <3>1, <3>2, RoundsEnough
    <3>4. (rounds + 1 + 1) * SyncInterval <= since' + SleepDue'
      BY <2>1, <2>2, <2>3, <3>1, OneMore DEF Counted, SleepDue
    <3>5. (rounds + 1 + skips) * D = (rounds + skips) * D + D /\ (rounds + skips) * D \in Nat
      BY <1>0
    <3>6. since' + SleepDue' <= MaxPoll + SyncInterval + (rounds + 1 + skips) * D
      BY <1>0, <2>1, <2>2, <2>3, <3>1, <3>5 DEF Counted, SleepDue
    <3>7. Counted(rounds + 1)'
      BY <2>2, <3>2, <3>3, <3>4, <3>6 DEF Counted
    <3>8. QED
      BY <3>7
  <2>4. QED
    BY <2>1, <2>2, <2>3 DEF GapBounded
<1>4. ASSUME NEW poll \in 0..MaxPoll, PollEnds(poll) \/ PollRaises(poll) PROVE ScheduleInv'
  <2>1. pc[Sched] = "telemetry" /\ pc'[Sched] = "off" /\ counter' = counter
    BY <1>0, <1>4 DEF PollEnds, PollRaises, SchedPolled, SchedFails, TypeOK, Off
  <2>2. UNCHANGED <<skips, polled, gap>> /\ (polled => since' = since + poll) /\ since' \in Nat
    BY <1>4 DEF PollEnds, PollRaises, Elapse
  <2>3. polled => Counted(0)'
    BY <2>1, <2>2 DEF Counted, SleepDue
  <2>4. QED
    BY <2>1, <2>2, <2>3 DEF GapBounded
<1>5. ASSUME NEW sync \in 0..MaxSync, SyncRaises(sync) PROVE ScheduleInv'
  <2>1. pc[Sched] = "synced" /\ pc'[Sched] = "off" /\ counter' = counter
    BY <1>0, <1>5 DEF SyncRaises, SchedFails, TypeOK, Off
  <2>2. UNCHANGED <<polled, gap>> /\ skips' = skips + 1 /\ (polled => since' = since + sync) /\ since' \in Nat
    BY <1>5 DEF SyncRaises, Elapse
  <2>3. ASSUME polled PROVE \E rounds \in Nat : Counted(rounds)'
    <3>1. PICK rounds \in Nat : Counted(rounds)
      BY <2>1, <2>3
    <3>2. (rounds + skips + 1) * D = (rounds + skips) * D + D /\ (rounds + skips) * D \in Nat
      BY <1>0
    <3>3. since' + SleepDue' <= MaxPoll + SyncInterval + (rounds + skips + 1) * D
      BY <1>0, <2>1, <2>2, <2>3, <3>1, <3>2 DEF Counted, SleepDue
    <3>4. (rounds + 1) * SyncInterval <= since' + SleepDue'
      BY <1>0, <2>1, <2>2, <2>3, <3>1, OneMore DEF Counted, SleepDue
    <3>5. Counted(rounds)'
      BY <2>1, <2>2, <3>1, <3>3, <3>4 DEF Counted
    <3>6. QED
      BY <3>5
  <2>4. QED
    BY <2>1, <2>2, <2>3 DEF GapBounded
<1>6. CASE ServiceRestarts
  <2>1. pc'[Sched] = "off" /\ ~polled' /\ polled' \in BOOLEAN /\ since' = 0 /\ skips' = 0 /\ UNCHANGED gap
    BY <1>0, <1>6 DEF ServiceRestarts, Restart, Service
  <2>2. QED
    BY <2>1 DEF GapBounded
<1>7. CASE Meanwhile
  <2>1. counter' = counter /\ UNCHANGED timing
        /\ (pc'[Sched] = "telemetry" <=> pc[Sched] = "telemetry") /\ pc'[Sched] # "pushing"
        /\ SleepDue' = SleepDue
    BY <1>7, MeanwhileSteps DEF Meanwhile, SleepDue
  <2>2. \A rounds \in Nat : Counted(rounds) => Counted(rounds)'
    BY <2>1 DEF Counted, timing
  <2>3. QED
    BY <2>1, <2>2 DEF GapBounded, timing
<1>8. CASE UNCHANGED <<vars, timing>>
  <2>1. counter' = counter /\ pc' = pc /\ UNCHANGED timing
    BY <1>8 DEF vars
  <2>2. \A rounds \in Nat : Counted(rounds) => Counted(rounds)'
    BY <2>1 DEF Counted, timing, SleepDue
  <2>3. QED
    BY <2>1, <2>2 DEF GapBounded, timing
<1>9. QED
  BY <1>1, <1>2, <1>3, <1>4, <1>5, <1>6, <1>7, <1>8 DEF TimedNext

\* Both invariants hold in every state of the timed hub.
LEMMA ScheduleInvariance == TimedSpec => [](TypeInv /\ ScheduleInv)
<1>1. TimedInit /\ TypeInv => ScheduleInv
  <2> SUFFICES ASSUME TimedInit, TypeInv PROVE ScheduleInv
    OBVIOUS
  <2>1. polled \in BOOLEAN /\ ~polled
    BY Zenon DEF TimedInit
  <2>2. since \in Nat /\ skips \in Nat /\ gap \in [time : Nat, skips : Nat] /\ GapBounded
    BY DEF TimedInit, GapBounded
  <2>3. pc[Sched] # "pushing"
    BY DEF TimedInit, Init, Tasks, Service
  <2>4. QED
    BY <2>1, <2>2, <2>3 DEF ScheduleInv, TimingOK, TypeInv
<1>2. TypeInv /\ TypeInv' /\ ScheduleInv /\ [TimedNext]_<<vars, timing>> => ScheduleInv'
  BY ScheduleStep
<1>3. QED
  BY <1>1, <1>2, TimedImplementsHub, TypeInvariance, PTL DEF TimedSpec

\* The timed hub is well typed.
THEOREM TimingCorrect == TimedSpec => []TimingOK
<1>1. ScheduleInv => TimingOK
  BY DEF ScheduleInv
<1>2. QED
  BY <1>1, ScheduleInvariance, PTL

\* Polls of the hardware are never closer than the poll interval, and drift at
\* most by what the syncs and one poll take: for every interval and duration,
\* whatever refreshes, failures and restarts come in between.
THEOREM GapBoundedHolds == TimedSpec => []GapBounded
<1>1. ScheduleInv => GapBounded
  BY DEF ScheduleInv
<1>2. QED
  BY <1>1, ScheduleInvariance, PTL
====
