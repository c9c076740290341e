---- MODULE RelayCache ----
(***************************************************************************)
(* The public copy of the hub's state: push_reservations and               *)
(* push_telemetry (hub/app/relay.py) POST snapshots of the boards to the   *)
(* Apps Script relay (hub/gas/Code.gs), which keeps the last one of each   *)
(* type in its cache and serves both to the pages (hub/static/index.html). *)
(*                                                                         *)
(* A snapshot is the version of the reservations it was taken at.  The     *)
(* relay runs every request by itself: a POST the client has given up      *)
(* after 8 s may still be executed.                                        *)
(***************************************************************************)
EXTENDS Integers, FiniteSets

CONSTANTS
    Sched,        \* the background_scheduler task
    Refreshes,    \* POST /api/v1/refresh handlers
    Polls,        \* `hub.py poll` processes
    Pages,        \* pages showing the relay's state
    MaxVersion,   \* bound: changes of the reservations
    MaxPosts,     \* bound: requests under way to the relay
    MaxFetches,   \* bound: fetches of a page under way
    Faults        \* subset of {"timeout", "loss", "evict"}

Callers == Refreshes \cup Polls
Tasks == {Sched} \cup Callers
Types == {"reservations", "telemetry"}
Fetches == 1..MaxFetches

ASSUME RelayAssumption ==
    /\ Sched \notin Callers /\ Refreshes \cap Polls = {}
    /\ MaxVersion \in Nat /\ MaxPosts \in Nat \ {0} /\ MaxFetches \in Nat \ {0}

VARIABLES
    version,  \* the reservations in the hub's database
    due,      \* the scheduler is in an iteration that polls the telemetry
    pc,       \* where each refresh and poll is
    boards,   \* the snapshot it pushes
    waiting,  \* POSTs whose thread waits for the relay
    network,  \* POSTs the relay has not executed
    cache,    \* the relay's entries
    calm,     \* losses and evictions have ceased
    fetch,    \* a page's fetches
    view      \* what each page shows

hub == <<version, due, pc, boards>>
relay == <<waiting, network, cache, calm>>
pages == <<fetch, view>>
vars == <<hub, relay, pages>>

Empty == -1
Entries == Empty..MaxVersion
Posts == [task : Tasks, type : Types, version : 0..MaxVersion]

\* Tasks of one process share its _IN_FLIGHT_TYPES.
SameProcess(t, u) == t = u \/ (t \notin Polls /\ u \notin Polls)

\* At most one POST of each type per process has a thread waiting.
TypeOK ==
    /\ version \in 0..MaxVersion
    /\ due \in BOOLEAN
    /\ pc \in [Callers -> {"off"} \cup Types]
    /\ boards \in [Callers -> 0..MaxVersion]
    /\ waiting \in SUBSET Posts /\ network \in SUBSET Posts
    /\ cache \in [Types -> Entries] /\ calm \in BOOLEAN
    /\ fetch \in [Pages -> [Fetches -> [state : {"off", "served"}, status : Entries]]]
    /\ view \in [Pages -> Entries]
    /\ \A m, n \in waiting : m.type = n.type /\ SameProcess(m.task, n.task) => m = n

Init ==
    /\ version = 0
    /\ due = FALSE
    /\ pc = [t \in Callers |-> "off"]
    /\ boards = [t \in Callers |-> 0]
    /\ waiting = {} /\ network = {}
    /\ cache = [k \in Types |-> Empty] /\ calm = FALSE
    /\ fetch = [g \in Pages |-> [f \in Fetches |-> [state |-> "off", status |-> Empty]]]
    /\ view = [g \in Pages |-> Empty]

----------------------------------------------------------------------------
(* The hub *)

\* A sync stores other reservations: the scheduler's own, unless it is polling
\* the telemetry.
Change ==
    /\ version < MaxVersion /\ (due => Callers # {})
    /\ version' = version + 1
    /\ UNCHANGED <<due, pc, boards, relay, pages>>

InFlight_Never(t, k) == FALSE  \* mutant: every push is sent

InFlight(t, k) == \E m \in waiting : m.type = k /\ SameProcess(m.task, t)

\* _push_payload_to_all, up to its await: skipped while the type is in flight.
Push(t, k, v) ==
    LET m == [task |-> t, type |-> k, version |-> v]
    IN  /\ IF InFlight(t, k)
           THEN UNCHANGED <<waiting, network>>
           ELSE waiting' = waiting \cup {m} /\ network' = network \cup {m}
        /\ UNCHANGED <<cache, calm>>

\* Bound on what is under way.
Room == Cardinality(waiting \cup network) < MaxPosts

\* One iteration of the scheduler: the push is a task of its own.  Whether the
\* iteration polls the telemetry is up to coord_counter (PollSchedule).
SchedReservations ==
    /\ ~due /\ Room
    /\ Push(Sched, "reservations", version)
    /\ due' \in BOOLEAN
    /\ UNCHANGED <<version, pc, boards, pages>>

\* The poll is over: the boards are read again and pushed.
SchedTelemetry ==
    /\ due /\ Room
    /\ Push(Sched, "telemetry", version)
    /\ due' = FALSE
    /\ UNCHANGED <<version, pc, boards, pages>>

\* A refresh or a poll has synced and reads the boards; the first push starts.
Read(t) ==
    /\ pc[t] = "off" /\ Room
    /\ boards' = [boards EXCEPT ![t] = version]
    /\ Push(t, "reservations", version)
    /\ pc' = [pc EXCEPT ![t] = "reservations"]
    /\ UNCHANGED <<version, due, pages>>

Awaits(t, k) == \E m \in waiting : m.task = t /\ m.type = k

\* The first push was skipped or is over: the same boards are pushed again.
PushNext(t) ==
    /\ pc[t] = "reservations" /\ ~Awaits(t, "reservations") /\ Room
    /\ Push(t, "telemetry", boards[t])
    /\ pc' = [pc EXCEPT ![t] = "telemetry"]
    /\ UNCHANGED <<version, due, boards, pages>>

Return(t) ==
    /\ pc[t] = "telemetry" /\ ~Awaits(t, "telemetry")
    /\ pc' = [pc EXCEPT ![t] = "off"]
    /\ boards' = [boards EXCEPT ![t] = 0]
    /\ UNCHANGED <<version, due, relay, pages>>

\* The response of an executed POST reaches its thread.
Answered(m) ==
    /\ m \in waiting \ network
    /\ waiting' = waiting \ {m}
    /\ UNCHANGED <<hub, network, cache, calm, pages>>

\* The thread waits 8 s at most; the request stays under way.
TimesOut(m) ==
    /\ "timeout" \in Faults /\ m \in waiting
    /\ waiting' = waiting \ {m}
    /\ UNCHANGED <<hub, network, cache, calm, pages>>

----------------------------------------------------------------------------
(* The relay *)

\* Mutant: an entry once made is kept while it lives.
Execute_KeepsEntry(m) ==
    /\ m \in network
    /\ network' = network \ {m}
    /\ cache' = IF cache[m.type] = Empty THEN [cache EXCEPT ![m.type] = m.version] ELSE cache
    /\ UNCHANGED <<hub, waiting, calm, pages>>

\* doPost: whatever comes is put, its updated_at is not compared.
Execute(m) ==
    /\ m \in network
    /\ network' = network \ {m}
    /\ cache' = [cache EXCEPT ![m.type] = m.version]
    /\ UNCHANGED <<hub, waiting, calm, pages>>

\* The request does not arrive, or doPost answers with an error.
Lose(m) ==
    /\ "loss" \in Faults /\ ~calm /\ m \in network
    /\ network' = network \ {m}
    /\ UNCHANGED <<hub, waiting, cache, calm, pages>>

\* An entry is six hours old, or evicted before.
Evict(k) ==
    /\ "evict" \in Faults /\ ~calm /\ cache[k] # Empty
    /\ cache' = [cache EXCEPT ![k] = Empty]
    /\ UNCHANGED <<hub, waiting, network, calm, pages>>

\* From now on nothing is lost or evicted: what FollowsHub waits for.
CalmDown ==
    /\ ~calm
    /\ calm' = TRUE
    /\ UNCHANGED <<hub, waiting, network, cache, pages>>

\* doGet: the reservations are laid over the telemetry's boards.
Status == IF cache["reservations"] # Empty THEN cache["reservations"] ELSE cache["telemetry"]

----------------------------------------------------------------------------
(* A page: setInterval starts a fetch every 3 s, whatever became of the last *)

\* doGet serves a fetch whenever it comes.
Serve(g, f) ==
    /\ fetch[g][f].state = "off"
    /\ fetch' = [fetch EXCEPT ![g][f] = [state |-> "served", status |-> Status]]
    /\ UNCHANGED <<hub, relay, view>>

\* boards.value = data.boards: an empty array too.
Show(g, f) ==
    /\ fetch[g][f].state = "served"
    /\ view' = [view EXCEPT ![g] = fetch[g][f].status]
    /\ fetch' = [fetch EXCEPT ![g][f] = [state |-> "off", status |-> Empty]]
    /\ UNCHANGED <<hub, relay>>

FetchFails(g, f) ==
    /\ "loss" \in Faults /\ ~calm /\ fetch[g][f].state = "served"
    /\ fetch' = [fetch EXCEPT ![g][f] = [state |-> "off", status |-> Empty]]
    /\ UNCHANGED <<hub, relay, view>>

----------------------------------------------------------------------------

Next ==
    \/ Change \/ SchedReservations \/ SchedTelemetry
    \/ \E t \in Callers : Read(t) \/ PushNext(t) \/ Return(t)
    \/ \E m \in waiting \cup network : Answered(m) \/ TimesOut(m) \/ Execute(m) \/ Lose(m)
    \/ \E k \in Types : Evict(k)
    \/ CalmDown
    \/ \E g \in Pages, f \in Fetches : Serve(g, f) \/ Show(g, f) \/ FetchFails(g, f)

Spec == Init /\ [][Next]_vars

Executes(k) == \E m \in network : m.type = k /\ Execute(m)
Ends(t, k) == \E m \in waiting : m.task = t /\ m.type = k /\ (Answered(m) \/ TimesOut(m))

\* The scheduler goes round for ever, threads have a timeout; the relay executes
\* what reaches it and serves the fetches of the pages, which are visible.
Fairness ==
    /\ SF_vars(SchedReservations) /\ SF_vars(SchedReservations /\ due') /\ SF_vars(SchedTelemetry)
    /\ \A t \in Callers : SF_vars(PushNext(t)) /\ WF_vars(Return(t))
    /\ \A k \in Types : WF_vars(Executes(k))
    /\ \A t \in Tasks, k \in Types : WF_vars(Ends(t, k))
    /\ \A g \in Pages, f \in Fetches :
         WF_vars(Serve(g, f)) /\ WF_vars(Show(g, f) \/ FetchFails(g, f))

FairSpec == Spec /\ Fairness

----------------------------------------------------------------------------
(* Properties *)

\* Within one process, a POST its thread still waits for is never older than
\* the entry it will replace: the guard on the types in flight keeps the POSTs
\* apart, so that entries go back in time only by requests that were given up.
\* For the telemetry that is so of the scheduler's own, which are not delayed
\* by another push.
AwaitedIsNewest ==
    \A m \in network \cap waiting :
        m.type = "reservations" \/ m.task = Sched => cache[m.type] <= m.version

\* Once reservations stop changing, and losses and evictions cease, the relay
\* and the pages follow, whatever was given up, skipped or overtaken before.
FollowsHub ==
    <>calm =>
        /\ \A k \in Types : <>[](cache[k] = version)
        /\ \A g \in Pages : <>[](view[g] = version)
====
