---- MODULE HubService ----
(***************************************************************************)
(* The hub service (hub/app/main.py, coordinator.py): the background       *)
(* scheduler, the POST /api/v1/refresh handlers and `hub.py poll`          *)
(* processes read the coordinator's places with labgrid-client, store them *)
(* in SQLite and broadcast the stored boards to the SSE connections.       *)
(*                                                                         *)
(* A place's reservation is a version number that grows with each acquire  *)
(* or release: odd while acquired.  Tasks of the service share one thread  *)
(* and interleave at their awaits only.                                    *)
(***************************************************************************)
EXTENDS Integers, Sequences, FiniteSets

CONSTANTS
    Places,
    Sched,         \* the background_scheduler task
    Refreshes,     \* POST /api/v1/refresh handlers
    Polls,         \* `hub.py poll` processes
    Clients,       \* connections of GET /api/v1/stream
    PollInterval,  \* POLL_INTERVAL_SECS
    SyncInterval,  \* COORDINATOR_POLL_INTERVAL_SECS
    MaxChanges,    \* bound: reservations and releases of one place
    MaxQueue,      \* bound: payloads waiting for one connection
    Faults         \* subset of {"client", "empty", "locked", "dbread", "removal", "restart", "disconnect"}

Service == {Sched} \cup Refreshes
Tasks == Service \cup Polls

ASSUME HubAssumption ==
    /\ Sched \notin Refreshes /\ Polls \cap Service = {} /\ IsFiniteSet(Refreshes)
    /\ PollInterval \in Nat \ {0} /\ SyncInterval \in Nat \ {0}
    /\ MaxChanges \in Nat /\ MaxQueue \in Nat \ {0}

VARIABLES
    coord,        \* coordinator: version of each place's reservation
    listed,       \* coordinator: the places it knows
    calm,         \* failures and restarts have ceased
    pc,           \* where each task is
    todo,         \* discovered_places still to be shown
    cur,          \* place being shown
    answer,       \* what parse_place_show returns
    payload,      \* boards a refresh is about to broadcast
    counter,      \* coord_counter
    db,           \* the places table
    subscribers,  \* active_subscribers
    phase,        \* where each event_generator is
    queue,        \* its asyncio.Queue
    view,         \* the boards each client was sent last
    clean,        \* history: syncs begun after the last change and all syncs older than it
    settled,      \* history: such a sync has ended
    newest        \* history: the last broadcast of each connection's time, if any

coordinator == <<coord, listed, calm>>
locals == <<todo, cur, answer, payload>>
streams == <<subscribers, phase, queue, view>>
history == <<clean, settled, newest>>
vars == <<coordinator, pc, locals, counter, db, streams, history>>

\* A stored status: read from the coordinator in some version, "offline" after
\* a failed query, or the "idle" that a row and a query start with.
Statuses == [kind : {"read", "offline", "idle"}, version : Nat]
Read(n) == [kind |-> "read", version |-> n]
Down == [kind |-> "offline", version |-> 0]
Idle == [kind |-> "idle", version |-> 0]

Boards == [Places -> Statuses]
NoBoards == [p \in Places |-> Idle]

TypeOK ==
    /\ coord \in [Places -> 0..MaxChanges]
    /\ listed \in SUBSET Places /\ calm \in BOOLEAN
    /\ pc \in [Tasks -> {"off", "places", "show", "shown", "synced", "telemetry", "pushing"}]
    /\ todo \in [Tasks -> SUBSET Places]
    /\ \A t \in Tasks : pc[t] = "shown" => cur[t] \in todo[t]
    /\ answer \in [Tasks -> Statuses]
    /\ payload \in [Tasks -> Boards]
    /\ counter \in 0..PollInterval
    /\ db \in Boards
    /\ subscribers \in SUBSET Clients
    /\ phase \in [Clients -> {"away", "joining", "sending", "waiting"}]
    /\ queue \in [Clients -> Seq(Boards)] /\ \A c \in Clients : Len(queue[c]) <= MaxQueue
    /\ view \in [Clients -> Boards]
    /\ newest \in [Clients -> Seq(Boards)] /\ \A c \in Clients : Len(newest[c]) <= 1
    /\ clean \in SUBSET Tasks /\ settled \in BOOLEAN

Init ==
    /\ coord = [p \in Places |-> 0] /\ listed = Places /\ calm = FALSE
    /\ pc = [t \in Tasks |-> "off"]
    /\ todo = [t \in Tasks |-> {}]
    /\ cur = [t \in Tasks |-> CHOOSE p \in Places : TRUE]
    /\ answer = [t \in Tasks |-> Idle]
    /\ payload = [t \in Tasks |-> NoBoards]
    /\ counter = PollInterval
    /\ db = NoBoards
    /\ subscribers = {}
    /\ phase = [c \in Clients |-> "away"]
    /\ queue = [c \in Clients |-> << >>]
    /\ view = [c \in Clients |-> NoBoards] /\ newest = queue
    /\ clean = {} /\ settled = FALSE

MayFail(kind) == kind \in Faults /\ ~calm

\* No task of the service is between two awaits ...
LoopFree == \A u \in Service : pc[u] # "synced"

\* ... except t.
Turn(t) == t \in Service => \A u \in Service \ {t} : pc[u] # "synced"

----------------------------------------------------------------------------
(* The coordinator *)

Changed == clean' = {} /\ settled' = FALSE /\ UNCHANGED newest

\* Someone acquires or releases the place.
Change(p) ==
    /\ p \in listed /\ coord[p] < MaxChanges
    /\ coord' = [coord EXCEPT ![p] = @ + 1]
    /\ Changed
    /\ UNCHANGED <<listed, calm, pc, locals, counter, db, streams>>

\* An administrator deletes the place.
Remove(p) ==
    /\ "removal" \in Faults /\ p \in listed
    /\ listed' = listed \ {p}
    /\ Changed
    /\ UNCHANGED <<coord, calm, pc, locals, counter, db, streams>>

\* From now on nothing fails and the service runs: what Converges waits for.
CalmDown ==
    /\ ~calm
    /\ calm' = TRUE
    /\ UNCHANGED <<coord, listed, pc, locals, counter, db, streams, history>>

----------------------------------------------------------------------------
(* sync_coordinator_state *)

Running(t) == pc[t] \in {"places", "show", "shown"}

\* Bound: what waits in a queue and what is about to come fit in it.
Room ==
    \A c \in Clients : Len(queue[c]) + Cardinality({t \in Service : pc[t] # "off"}) < MaxQueue

\* labgrid-client places is started.
Begin(t) ==
    /\ pc[t] = "off" /\ Turn(t) /\ Room
    /\ pc' = [pc EXCEPT ![t] = "places"]
    /\ clean' = IF \A u \in Tasks : Running(u) => u \in clean THEN clean \cup {t} ELSE clean \ {t}
    /\ UNCHANGED <<coordinator, locals, counter, db, streams, settled, newest>>

\* The loop over the places goes on with those in left, or is over.
Loop(t, left) ==
    /\ todo' = [todo EXCEPT ![t] = left]
    /\ pc' = [pc EXCEPT ![t] = IF left = {} THEN "synced" ELSE "show"]

PlacesServed(t) ==
    /\ pc[t] = "places" /\ Turn(t)
    /\ Loop(t, listed)
    /\ settled' = (settled \/ (listed = {} /\ t \in clean))
    /\ UNCHANGED <<coordinator, cur, answer, payload, counter, db, streams, clean, newest>>

\* The query fails or takes 4 s: this sync stores nothing.
PlacesFails(t) ==
    /\ pc[t] = "places" /\ Turn(t) /\ MayFail("client")
    /\ Loop(t, {})
    /\ clean' = clean \ {t}
    /\ UNCHANGED <<coordinator, cur, answer, payload, counter, db, streams, settled, newest>>

Shown(t, p, v) ==
    /\ pc[t] = "show" /\ p \in todo[t]
    /\ pc' = [pc EXCEPT ![t] = "shown"]
    /\ cur' = [cur EXCEPT ![t] = p]
    /\ answer' = [answer EXCEPT ![t] = v]
    /\ UNCHANGED <<coordinator, todo, payload, counter, db, streams, history>>

\* The coordinator answers labgrid-client show; the task has not resumed yet.
ShowServed(t, p) == p \in listed /\ Shown(t, p, Read(coord[p]))

\* An exception or the timeout of 3 s.
ShowFails(t, p) == MayFail("client") /\ Shown(t, p, Down)

\* labgrid-client fails with its message on stderr: no line of output sets a
\* status.  So it does for a place that is gone.
ShowEmpty(t, p) == (p \notin listed \/ MayFail("empty")) /\ Shown(t, p, Idle)

\* Mutant: only reservations are stored, a free place keeps its row.
Upsert_KeepsRow(t) ==
    /\ pc[t] = "shown" /\ Turn(t)
    /\ db' = IF answer[t].version % 2 = 1 THEN [db EXCEPT ![cur[t]] = answer[t]] ELSE db
    /\ Loop(t, todo[t] \ {cur[t]})
    /\ answer' = [answer EXCEPT ![t] = Idle]
    /\ settled' = (settled \/ (todo[t] = {cur[t]} /\ t \in clean))
    /\ UNCHANGED <<coordinator, cur, payload, counter, streams, clean, newest>>

\* Mutant: the result is stored under any place of the loop (late binding).
Upsert_LateBinding(t) ==
    /\ pc[t] = "shown" /\ Turn(t)
    /\ \E p \in todo[t] : db' = [db EXCEPT ![p] = answer[t]]
    /\ Loop(t, todo[t] \ {cur[t]})
    /\ answer' = [answer EXCEPT ![t] = Idle]
    /\ settled' = (settled \/ (todo[t] = {cur[t]} /\ t \in clean))
    /\ UNCHANGED <<coordinator, cur, payload, counter, streams, clean, newest>>

\* upsert_place, and on to the next place.
Upsert(t) ==
    /\ pc[t] = "shown" /\ Turn(t)
    /\ db' = [db EXCEPT ![cur[t]] = answer[t]]
    /\ Loop(t, todo[t] \ {cur[t]})
    /\ answer' = [answer EXCEPT ![t] = Idle]
    /\ settled' = (settled \/ (todo[t] = {cur[t]} /\ t \in clean))
    /\ UNCHANGED <<coordinator, cur, payload, counter, streams, clean, newest>>

\* "database is locked": the rest of the places is skipped.
UpsertFails(t) ==
    /\ pc[t] = "shown" /\ Turn(t) /\ MayFail("locked")
    /\ Loop(t, {})
    /\ answer' = [answer EXCEPT ![t] = Idle]
    /\ clean' = clean \ {t}
    /\ UNCHANGED <<coordinator, cur, payload, counter, db, streams, settled, newest>>

----------------------------------------------------------------------------
(* Server-sent events *)

Connected(c) == phase[c] # "away"

\* Mutant: a connection that lags behind is skipped.
Broadcast_SkipsSlow(boards) ==
    /\ queue' = [c \in Clients |->
                    IF c \in subscribers /\ Connected(c) /\ queue[c] = << >>
                    THEN <<boards>> ELSE queue[c]]
    /\ newest' = [c \in Clients |-> IF Connected(c) THEN <<boards>> ELSE newest[c]]
    /\ UNCHANGED <<subscribers, phase, view>>

\* broadcast_event: one put for each queue.  What waits in the queue of a
\* connection that is gone is seen by nobody and left out.
Broadcast(boards) ==
    /\ queue' = [c \in Clients |->
                    IF c \in subscribers /\ Connected(c)
                    THEN Append(queue[c], boards) ELSE queue[c]]
    /\ newest' = [c \in Clients |-> IF Connected(c) THEN <<boards>> ELSE newest[c]]
    /\ UNCHANGED <<subscribers, phase, view>>

\* sse_stream: the queue is registered before the generator runs.
Join(c) ==
    /\ phase[c] = "away" /\ c \notin subscribers /\ LoopFree
    /\ phase' = [phase EXCEPT ![c] = "joining"]
    /\ subscribers' = subscribers \cup {c}
    /\ newest' = [newest EXCEPT ![c] = << >>]
    /\ UNCHANGED <<coordinator, pc, locals, counter, db, queue, view, clean, settled>>

Send(c, boards) ==
    /\ phase' = [phase EXCEPT ![c] = "sending"]
    /\ view' = [view EXCEPT ![c] = boards]

\* The first yield: a snapshot of the database.
SendSnapshot(c) ==
    /\ phase[c] = "joining" /\ LoopFree
    /\ Send(c, db)
    /\ UNCHANGED <<coordinator, pc, locals, counter, db, subscribers, queue, history>>

\* The payload has left; the generator awaits its queue.
Await(c) ==
    /\ phase[c] = "sending" /\ LoopFree
    /\ phase' = [phase EXCEPT ![c] = "waiting"]
    /\ UNCHANGED <<coordinator, pc, locals, counter, db, subscribers, queue, view, history>>

SendNext(c) ==
    /\ phase[c] = "waiting" /\ queue[c] # << >> /\ LoopFree
    /\ Send(c, Head(queue[c]))
    /\ queue' = [queue EXCEPT ![c] = Tail(@)]
    /\ UNCHANGED <<coordinator, pc, locals, counter, db, subscribers, history>>

\* The client leaves.  CancelledError is raised at `await queue.get()` only: a
\* generator closed at a yield, or before it ran, leaves its queue registered.
Disconnect(c) ==
    /\ Connected(c) /\ "disconnect" \in Faults /\ LoopFree
    /\ phase' = [phase EXCEPT ![c] = "away"]
    /\ subscribers' = IF phase[c] = "waiting" THEN subscribers \ {c} ELSE subscribers
    /\ queue' = [queue EXCEPT ![c] = << >>]
    /\ UNCHANGED <<coordinator, pc, locals, counter, db, view, history>>

----------------------------------------------------------------------------
(* background_scheduler, trigger_refresh and run_poll after the sync *)

Off(t) == pc' = [pc EXCEPT ![t] = "off"]

\* Mutant: the counter is never reset.
SchedSynced_NoReset ==
    /\ pc[Sched] = "synced"
    /\ counter' = counter + SyncInterval
    /\ pc' = [pc EXCEPT ![Sched] = "telemetry"]
    /\ UNCHANGED <<coordinator, locals, db, streams, clean, settled, newest>>

\* Mutant: the counter starts again with what is over.
SchedSynced_KeepsRest ==
    /\ pc[Sched] = "synced"
    /\ IF counter + SyncInterval >= PollInterval
       THEN /\ counter' = counter + SyncInterval - PollInterval
            /\ pc' = [pc EXCEPT ![Sched] = "telemetry"]
            /\ UNCHANGED <<streams, newest>>
       ELSE /\ counter' = counter + SyncInterval
            /\ Off(Sched)
            /\ Broadcast(db)
    /\ UNCHANGED <<coordinator, locals, db, clean, settled>>

\* The scheduler counts SyncInterval for each sync, however long it took.
SchedSynced ==
    /\ pc[Sched] = "synced"
    /\ IF counter + SyncInterval >= PollInterval
       THEN /\ counter' = 0
            /\ pc' = [pc EXCEPT ![Sched] = "telemetry"]
            /\ UNCHANGED <<streams, newest>>
       ELSE /\ counter' = counter + SyncInterval
            /\ Off(Sched)
            /\ Broadcast(db)
    /\ UNCHANGED <<coordinator, locals, db, clean, settled>>

\* The boards are read again after run_telemetry_loop, and sent at once.
SchedPolled ==
    /\ pc[Sched] = "telemetry" /\ Turn(Sched)
    /\ Off(Sched)
    /\ Broadcast(db)
    /\ UNCHANGED <<coordinator, locals, counter, db, clean, settled>>

\* get_all_boards_aggregated raises: the rest of the iteration is skipped.
SchedFails ==
    /\ pc[Sched] \in {"synced", "telemetry"} /\ Turn(Sched) /\ MayFail("dbread")
    /\ Off(Sched)
    /\ UNCHANGED <<coordinator, locals, counter, db, streams, history>>

\* A refresh or a poll goes on with the telemetry.
Synced(t) ==
    /\ t # Sched /\ pc[t] = "synced"
    /\ pc' = [pc EXCEPT ![t] = "telemetry"]
    /\ UNCHANGED <<coordinator, locals, counter, db, streams, history>>

\* It reads the boards, then awaits the pushes to the relays.
Polled(t) ==
    /\ t # Sched /\ pc[t] = "telemetry" /\ Turn(t)
    /\ payload' = [payload EXCEPT ![t] = db]
    /\ pc' = [pc EXCEPT ![t] = "pushing"]
    /\ UNCHANGED <<coordinator, todo, cur, answer, counter, db, streams, history>>

Pushed(t) ==
    /\ pc[t] = "pushing" /\ Turn(t)
    /\ Off(t)
    /\ payload' = [payload EXCEPT ![t] = NoBoards]
    /\ IF t \in Refreshes THEN Broadcast(payload[t]) ELSE UNCHANGED <<streams, newest>>
    /\ UNCHANGED <<coordinator, todo, cur, answer, counter, db, clean, settled>>

\* The service is stopped, by a crash or deploy.sh, and started again.
Restart ==
    /\ MayFail("restart")
    /\ pc' = [t \in Tasks |-> IF t \in Service THEN "off" ELSE pc[t]]
    /\ todo' = [t \in Tasks |-> IF t \in Service THEN {} ELSE todo[t]]
    /\ payload' = [t \in Tasks |-> IF t \in Service THEN NoBoards ELSE payload[t]]
    /\ counter' = PollInterval
    /\ subscribers' = {}
    /\ phase' = [c \in Clients |-> "away"]
    /\ queue' = [c \in Clients |-> << >>]
    /\ clean' = clean \ Service
    /\ UNCHANGED <<coordinator, cur, answer, db, view, settled, newest>>

----------------------------------------------------------------------------

Step(t) ==
    \/ PlacesServed(t) \/ PlacesFails(t)
    \/ \E p \in Places : ShowServed(t, p) \/ ShowFails(t, p) \/ ShowEmpty(t, p)
    \/ Upsert(t) \/ UpsertFails(t)
    \/ Synced(t) \/ Polled(t) \/ Pushed(t)

SchedStep == Step(Sched) \/ SchedSynced \/ SchedPolled \/ SchedFails

Stream(c) == SendSnapshot(c) \/ Await(c) \/ SendNext(c)

\* Whatever happens beside the scheduler's own iteration and restarts.
Elsewhere ==
    \/ \E p \in Places : Change(p) \/ Remove(p)
    \/ \E t \in Tasks : (t # Sched /\ Begin(t)) \/ Step(t)
    \/ \E c \in Clients : Join(c) \/ Stream(c) \/ Disconnect(c)
    \/ CalmDown

Next ==
    \/ Begin(Sched) \/ SchedSynced \/ SchedPolled \/ SchedFails
    \/ Restart \/ Elsewhere

Spec == Init /\ [][Next]_vars

\* The event loop runs what is ready, and labgrid-client, ssh and urlopen all
\* have timeouts: no task waits for ever.  The scheduler loops; nobody has to
\* call a refresh.  A connection that is read gets what its queue holds.
Fairness ==
    /\ SF_vars(Begin(Sched))
    /\ SF_vars(SchedStep)
    /\ \A t \in Refreshes \cup Polls : SF_vars(Step(t))
    /\ \A c \in Clients : SF_vars(Stream(c))

FairSpec == Spec /\ Fairness

----------------------------------------------------------------------------
(* Properties *)

\* A sync that began after the last change, when no older sync was under way,
\* leaves every listed place as the coordinator has it, or "offline" or "idle"
\* if a query failed: no answer read before the change is stored afterwards.
SettledSync ==
    settled => \A p \in listed : db[p].kind = "read" => db[p].version = coord[p]

\* What a connection was sent last is the last broadcast made since it was
\* opened, once its queue is empty: the registration misses none.
NoMissedBroadcast ==
    \A c \in Clients :
        phase[c] = "waiting" /\ queue[c] = << >> /\ newest[c] # << >> => newest[c] = <<view[c]>>

\* Once reservations stop changing, and failures and restarts cease, rows and live
\* views follow the coordinator: nothing older is stored or shown for good.
Converges ==
    <>calm =>
        /\ \A p \in Places : <>[](p \in listed => db[p] = Read(coord[p]))
        /\ \A c \in Clients : <>[](phase[c] = "waiting" /\ queue[c] = << >> =>
                                      \A p \in listed : view[c][p] = Read(coord[p]))
====
