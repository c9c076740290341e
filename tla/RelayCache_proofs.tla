---- MODULE RelayCache_proofs ----
(* Proofs about RelayCache for any tasks, pages, bounds and faults. *)
EXTENDS RelayCache, TLAPS

----------------------------------------------------------------------------
(* Steps *)

\* What a step does to the POSTs: one more is sent, one is taken for ended, or
\* one leaves the network.
Sends(t, k, v) ==
    /\ ~InFlight(t, k)
    /\ waiting' = waiting \cup {[task |-> t, type |-> k, version |-> v]}
    /\ network' = network \cup {[task |-> t, type |-> k, version |-> v]}

\* A push sends or is skipped; it leaves the relay's entries alone.
LEMMA PushSplit ==
    ASSUME NEW t, NEW k, NEW v, Push(t, k, v)
    PROVE  UNCHANGED cache /\ UNCHANGED calm /\ (Sends(t, k, v) \/ UNCHANGED <<waiting, network>>)
BY DEF Push, Sends

----------------------------------------------------------------------------
(* Types *)

\* A push adds at most one POST, and only where none of its type is in flight.
LEMMA PushTyped ==
    ASSUME TypeOK, NEW t \in Tasks, NEW k \in Types, NEW v \in 0..MaxVersion, Push(t, k, v)
    PROVE  /\ waiting' \in SUBSET Posts /\ network' \in SUBSET Posts
           /\ \A m, n \in waiting' : m.type = n.type /\ SameProcess(m.task, n.task) => m = n
<1> DEFINE new == [task |-> t, type |-> k, version |-> v]
<1>1. new \in Posts /\ new.type = k /\ new.task = t
  BY DEF Posts
<1> HIDE DEF new
<1>2. CASE UNCHANGED <<waiting, network>>
  BY <1>2 DEF TypeOK
<1>3. CASE Sends(t, k, v)
  <2>1. waiting' = waiting \cup {new} /\ network' = network \cup {new}
    BY <1>3 DEF Sends, new
  <2>2. \A m \in waiting : ~(m.type = k /\ SameProcess(m.task, t))
    BY <1>3 DEF Sends, InFlight
  <2>3. \A m \in waiting : m.type = k => ~SameProcess(t, m.task)
    BY <2>2 DEF SameProcess
  <2>4. QED
    BY <1>1, <2>1, <2>2, <2>3 DEF TypeOK
<1>4. QED
  BY <1>2, <1>3, PushSplit

\* Fewer POSTs are as well typed.
LEMMA FewerTyped ==
    ASSUME TypeOK, waiting' \subseteq waiting, network' \subseteq network
    PROVE  /\ waiting' \in SUBSET Posts /\ network' \in SUBSET Posts
           /\ \A m, n \in waiting' : m.type = n.type /\ SameProcess(m.task, n.task) => m = n
BY DEF TypeOK

\* Every step keeps hub, relay and pages typed.
LEMMA TypeStep == TypeOK /\ [Next]_vars => TypeOK'
<1> SUFFICES ASSUME TypeOK, [Next]_vars PROVE TypeOK'
  OBVIOUS
<1> DEFINE Sent == /\ waiting' \in SUBSET Posts /\ network' \in SUBSET Posts
                   /\ \A m, n \in waiting' : m.type = n.type /\ SameProcess(m.task, n.task) => m = n
<1>0. Sched \in Tasks /\ Callers \subseteq Tasks /\ Types = {"reservations", "telemetry"}
  BY DEF Tasks, Types
<1>1. CASE Change
  BY <1>1, RelayAssumption DEF Change, TypeOK, relay, pages
<1>2. CASE SchedReservations \/ SchedTelemetry
  <2>1. \E k \in Types : Push(Sched, k, version)
    BY <1>0, <1>2 DEF SchedReservations, SchedTelemetry
  <2>2. Sent
    BY <1>0, <2>1, PushTyped DEF TypeOK
  <2>3. UNCHANGED cache /\ UNCHANGED calm
    BY <2>1, PushSplit
  <2>4. due' \in BOOLEAN
    BY <1>2 DEF SchedReservations, SchedTelemetry
  <2>5. UNCHANGED <<version, pc, boards, fetch, view>>
    BY <1>2 DEF SchedReservations, SchedTelemetry, pages
  <2>6. QED
    BY <2>2, <2>3, <2>4, <2>5 DEF TypeOK
<1>3. ASSUME NEW t \in Callers, Read(t) PROVE TypeOK'
  <2>1. Push(t, "reservations", version) /\ version \in 0..MaxVersion
    BY <1>3 DEF Read, TypeOK
  <2>2. Sent
    BY <1>0, <2>1, PushTyped
  <2>3. UNCHANGED cache /\ UNCHANGED calm
    BY <2>1, PushSplit
  <2>4. QED
    BY <1>0, <1>3, <2>1, <2>2, <2>3 DEF Read, TypeOK, pages
<1>4. ASSUME NEW t \in Callers, PushNext(t) PROVE TypeOK'
  <2>1. Push(t, "telemetry", boards[t]) /\ boards[t] \in 0..MaxVersion
    BY <1>4 DEF PushNext, TypeOK
  <2>2. Sent
    BY <1>0, <2>1, PushTyped
  <2>3. UNCHANGED cache /\ UNCHANGED calm
    BY <2>1, PushSplit
  <2>4. QED
    BY <1>0, <1>4, <2>2, <2>3 DEF PushNext, TypeOK, pages
<1>5. ASSUME NEW t \in Callers, Return(t) PROVE TypeOK'
  BY <1>5, RelayAssumption DEF Return, TypeOK, relay, pages
<1>6. ASSUME NEW m \in waiting \cup network, Answered(m) \/ TimesOut(m) \/ Lose(m) PROVE TypeOK'
  <2>1. waiting' \subseteq waiting /\ network' \subseteq network
    BY <1>6 DEF Answered, TimesOut, Lose
  <2>2. Sent
    BY <2>1, FewerTyped
  <2>3. UNCHANGED <<version, due, pc, boards, cache, calm, fetch, view>>
    BY <1>6 DEF Answered, TimesOut, Lose, hub, pages
  <2>4. QED
    BY <2>2, <2>3 DEF TypeOK
<1>7. ASSUME NEW m \in waiting \cup network, Execute(m) PROVE TypeOK'
  <2>1. waiting' \subseteq waiting /\ network' \subseteq network
    BY <1>7 DEF Execute
  <2>2. Sent
    BY <2>1, FewerTyped
  <2>3. m.version \in Entries
    BY RelayAssumption DEF TypeOK, Posts, Entries, Empty
  <2>4. cache' \in [Types -> Entries]
    BY <1>7, <2>3 DEF Execute, TypeOK
  <2>5. UNCHANGED <<version, due, pc, boards, calm, fetch, view>>
    BY <1>7 DEF Execute, hub, pages
  <2>6. QED
    BY <2>2, <2>4, <2>5 DEF TypeOK
<1>8. ASSUME NEW k \in Types, Evict(k) PROVE TypeOK'
  <2>1. Empty \in Entries
    BY RelayAssumption DEF Empty, Entries
  <2>2. QED
    BY <1>8, <2>1 DEF Evict, TypeOK, hub, pages
<1>9. CASE CalmDown
  BY <1>9 DEF CalmDown, TypeOK, hub, pages
<1>10. ASSUME NEW g \in Pages, NEW f \in Fetches, Serve(g, f) \/ Show(g, f) \/ FetchFails(g, f)
       PROVE  TypeOK'
  <2>1. Empty \in Entries /\ Status \in Entries
    BY <1>0, RelayAssumption DEF Empty, Entries, Status, TypeOK
  <2>2. CASE Serve(g, f)
    BY <2>1, <2>2 DEF Serve, TypeOK, hub, relay
  <2>3. CASE Show(g, f)
    BY <2>1, <2>3 DEF Show, TypeOK, hub, relay
  <2>4. CASE FetchFails(g, f)
    BY <2>1, <2>4 DEF FetchFails, TypeOK, hub, relay
  <2>5. QED
    BY <1>10, <2>2, <2>3, <2>4
<1>11. CASE UNCHANGED vars
  BY <1>11 DEF vars, hub, relay, pages, TypeOK
<1>12. QED
  BY <1>1, <1>2, <1>3, <1>4, <1>5, <1>6, <1>7, <1>8, <1>9, <1>10, <1>11 DEF Next

\* The first state is typed.
LEMMA InitTyped == Init => TypeOK
<1> SUFFICES ASSUME Init PROVE TypeOK
  OBVIOUS
<1>1. Empty \in Entries /\ 0 \in 0..MaxVersion
  BY RelayAssumption DEF Empty, Entries
<1>2. fetch \in [Pages -> [Fetches -> [state : {"off", "served"}, status : Entries]]]
  BY <1>1 DEF Init
<1>3. QED
  BY <1>1, <1>2 DEF Init, TypeOK

\* Hub, relay and pages are always well typed; above all, no process has two
\* threads waiting with POSTs of one type.
THEOREM TypeCorrect == Spec => []TypeOK
<1>1. QED
  BY InitTyped, TypeStep, PTL DEF Spec

----------------------------------------------------------------------------
(* The order of the entries *)

\* A POST that carries what the hub's database held when it was sent.
Fresh(m) == m.type = "reservations" \/ m.task = Sched

\* Nothing is newer than the database; nothing that can still reach the relay,
\* or is there, is newer than a fresh POST that is waited for.
NewestInv ==
    /\ TypeOK
    /\ \A m \in network : m.version <= version
    /\ \A k \in Types : cache[k] <= version
    /\ \A t \in Callers : boards[t] <= version
    /\ \A m \in waiting : Fresh(m) =>
         /\ cache[m.type] <= m.version
         /\ \A n \in network : n.type = m.type => n.version <= m.version

\* A push keeps the order in a single process: it finds no POST of its type
\* waiting, and what it carries is at least as new as all that is under way.
LEMMA PushOrdered ==
    ASSUME Polls = {}, NewestInv, UNCHANGED <<version, cache>>,
           NEW t \in Tasks, NEW k \in Types, NEW v \in 0..MaxVersion, v <= version,
           k = "reservations" \/ t = Sched => v = version, Push(t, k, v)
    PROVE  /\ \A m \in network' : m.version <= version
           /\ \A m \in waiting' : Fresh(m) =>
                /\ cache[m.type] <= m.version
                /\ \A n \in network' : n.type = m.type => n.version <= m.version
<1> DEFINE new == [task |-> t, type |-> k, version |-> v]
<1>1. new.type = k /\ new.task = t /\ new.version = v
  OBVIOUS
<1> HIDE DEF new
<1>2. CASE UNCHANGED <<waiting, network>>
  BY <1>2 DEF NewestInv
<1>3. CASE Sends(t, k, v)
  <2>1. waiting' = waiting \cup {new} /\ network' = network \cup {new}
    BY <1>3 DEF Sends, new
  <2>2. \A m \in waiting : m.type # k
    BY <1>3 DEF Sends, InFlight, SameProcess
  <2>3. \A m \in network' : m.version <= version
    BY <1>1, <2>1 DEF NewestInv
  <2>4. ASSUME NEW m \in waiting', Fresh(m)
        PROVE  /\ cache[m.type] <= m.version
               /\ \A n \in network' : n.type = m.type => n.version <= m.version
    <3>1. CASE m = new
      BY <1>1, <2>3, <2>4, <3>1 DEF NewestInv, Fresh
    <3>2. CASE m \in waiting
      BY <1>1, <2>1, <2>2, <2>4, <3>2 DEF NewestInv
    <3>3. QED
      BY <2>1, <2>4, <3>1, <3>2
  <2>5. QED
    BY <2>3, <2>4
<1>4. QED
  BY <1>2, <1>3, PushSplit

\* Every step keeps the order when there are no poll processes.
LEMMA NewestStep == ASSUME Polls = {} PROVE NewestInv /\ [Next]_vars => NewestInv'
<1> SUFFICES ASSUME NewestInv, [Next]_vars PROVE NewestInv'
  OBVIOUS
<1>0. TypeOK' /\ TypeOK
  BY TypeStep DEF NewestInv
<1> DEFINE Ordered == /\ \A m \in network' : m.version <= version
                      /\ \A m \in waiting' : Fresh(m) =>
                           /\ cache[m.type] <= m.version
                           /\ \A n \in network' : n.type = m.type => n.version <= m.version
<1>1. Sched \in Tasks /\ Callers \subseteq Tasks /\ "reservations" \in Types /\ "telemetry" \in Types
  BY DEF Tasks, Types
<1>2. version \in 0..MaxVersion /\ version <= version
  BY <1>0 DEF TypeOK
<1>3. CASE Change
  <2>1. version' = version + 1 /\ UNCHANGED <<boards, waiting, network, cache>>
    BY <1>3 DEF Change, relay
  <2>2. /\ \A m \in network : m.version \in Int
        /\ \A k \in Types : cache[k] \in Int
        /\ \A t \in Callers : boards[t] \in Int
        /\ version \in Int
    BY <1>0 DEF TypeOK, Posts, Entries, Empty
  <2>3. QED
    BY <1>0, <2>1, <2>2 DEF NewestInv, Fresh
<1>4. CASE SchedReservations \/ SchedTelemetry
  <2>1. PICK k \in Types : Push(Sched, k, version)
    BY <1>1, <1>4 DEF SchedReservations, SchedTelemetry
  <2>2. UNCHANGED <<version, boards>> /\ UNCHANGED cache
    BY <1>4, <2>1, PushSplit DEF SchedReservations, SchedTelemetry
  <2>3. Ordered
    BY <1>1, <1>2, <2>1, <2>2, PushOrdered
  <2>4. QED
    BY <1>0, <2>2, <2>3 DEF NewestInv, Fresh
<1>5. ASSUME NEW t \in Callers, Read(t) PROVE NewestInv'
  <2>1. Push(t, "reservations", version)
    BY <1>5 DEF Read
  <2>2. UNCHANGED version /\ UNCHANGED cache /\ boards' = [boards EXCEPT ![t] = version]
    BY <1>5, <2>1, PushSplit DEF Read
  <2>3. Ordered
    BY <1>1, <1>2, <2>1, <2>2, PushOrdered
  <2>4. QED
    BY <1>0, <1>2, <2>2, <2>3 DEF NewestInv, Fresh, TypeOK
<1>6. ASSUME NEW t \in Callers, PushNext(t) PROVE NewestInv'
  <2>1. Push(t, "telemetry", boards[t]) /\ boards[t] \in 0..MaxVersion /\ boards[t] <= version
    BY <1>6 DEF PushNext, NewestInv, TypeOK
  <2>2. UNCHANGED <<version, boards>> /\ UNCHANGED cache
    BY <1>6, <2>1, PushSplit DEF PushNext
  <2>3. t # Sched /\ "telemetry" # "reservations"
    BY RelayAssumption
  <2>4. Ordered
    BY <1>1, <2>1, <2>2, <2>3, PushOrdered
  <2>5. QED
    BY <1>0, <2>2, <2>4 DEF NewestInv, Fresh
<1>7. ASSUME NEW t \in Callers, Return(t) PROVE NewestInv'
  <2>1. UNCHANGED <<version, waiting, network, cache>> /\ boards' = [boards EXCEPT ![t] = 0]
    BY <1>7 DEF Return, relay
  <2>2. 0 <= version
    BY <1>2
  <2>3. QED
    BY <1>0, <2>1, <2>2 DEF NewestInv, Fresh, TypeOK
<1>8. ASSUME NEW m \in waiting \cup network, Answered(m) \/ TimesOut(m) \/ Lose(m) PROVE NewestInv'
  <2>1. waiting' \subseteq waiting /\ network' \subseteq network /\ UNCHANGED <<version, boards, cache>>
    BY <1>8 DEF Answered, TimesOut, Lose, hub
  <2>2. QED
    BY <1>0, <2>1 DEF NewestInv, Fresh
<1>9. ASSUME NEW m \in waiting \cup network, Execute(m) PROVE NewestInv'
  <2>1. /\ m \in network /\ network' \subseteq network /\ UNCHANGED <<version, boards, waiting>>
        /\ cache' = [cache EXCEPT ![m.type] = m.version]
    BY <1>9 DEF Execute, hub
  <2>2. m.version <= version /\ m.type \in Types
    BY <1>0, <2>1 DEF NewestInv, TypeOK, Posts
  <2>3. \A k \in Types : cache'[k] <= version
    BY <1>0, <2>1, <2>2 DEF NewestInv, TypeOK
  <2>4. ASSUME NEW n \in waiting, Fresh(n) PROVE cache'[n.type] <= n.version
    <3>1. n.type \in Types
      BY <1>0 DEF TypeOK, Posts
    <3>2. CASE n.type = m.type
      BY <1>0, <2>1, <2>4, <3>1, <3>2 DEF NewestInv, TypeOK
    <3>3. CASE n.type # m.type
      BY <1>0, <2>1, <2>4, <3>1, <3>3 DEF NewestInv, TypeOK
    <3>4. QED
      BY <3>2, <3>3
  <2>5. QED
    BY <1>0, <2>1, <2>3, <2>4 DEF NewestInv, Fresh
<1>10. ASSUME NEW k \in Types, Evict(k) PROVE NewestInv'
  <2>1. UNCHANGED <<version, boards, waiting, network>> /\ cache' = [cache EXCEPT ![k] = -1]
    BY <1>10 DEF Evict, Empty, hub
  <2>2. -1 <= version /\ \A m \in waiting : -1 <= m.version /\ m.type \in Types
    BY <1>0, <1>2 DEF TypeOK, Posts
  <2>3. \A i \in Types : cache'[i] \in {-1, cache[i]}
    BY <1>0, <2>1 DEF TypeOK
  <2>4. QED
    BY <1>0, <2>1, <2>2, <2>3 DEF NewestInv, Fresh
<1>11. ASSUME UNCHANGED <<version, boards, waiting, network, cache>> PROVE NewestInv'
  BY <1>0, <1>11 DEF NewestInv, Fresh
<1>12. QED
  BY <1>3, <1>4, <1>5, <1>6, <1>7, <1>8, <1>9, <1>10, <1>11
     DEF Next, CalmDown, Serve, Show, FetchFails, vars, hub, relay, pages

\* In one process, whatever is given up, lost, evicted or late, a POST of the
\* reservations, or of the scheduler's telemetry, that is waited for never takes
\* the relay back in time.
THEOREM AwaitedIsNewestHolds == ASSUME Polls = {} PROVE Spec => []AwaitedIsNewest
<1>1. Init => NewestInv
  <2> SUFFICES ASSUME Init PROVE NewestInv
    OBVIOUS
  <2>1. TypeOK
    BY InitTyped
  <2>2. version = 0 /\ waiting = {} /\ network = {} /\ boards = [t \in Callers |-> 0] /\ cache = [k \in Types |-> -1]
    BY DEF Init, Empty
  <2>3. QED
    BY <2>1, <2>2 DEF NewestInv
<1>2. NewestInv => AwaitedIsNewest
  BY DEF NewestInv, AwaitedIsNewest, Fresh
<1>3. NewestInv /\ [Next]_vars => NewestInv'
  BY NewestStep
<1>4. QED
  BY <1>1, <1>2, <1>3, PTL DEF Spec
====
