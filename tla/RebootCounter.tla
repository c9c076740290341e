---- MODULE RebootCounter ----
(***************************************************************************)
(* How the hub counts the reboots of a board: poll_board_telemetry         *)
(* (hub/app/telemetry.py) and upsert_telemetry (hub/app/db.py) for one     *)
(* board; the rows of different boards are independent.                    *)
(*                                                                         *)
(* Polls run as tasks of the hub service (the scheduler's, and one for     *)
(* each POST /api/v1/refresh) or as `hub.py poll` processes.  The tasks of *)
(* the service share one thread: upsert_telemetry runs without an await.   *)
(* Between processes only SQLite's write lock excludes, and the SELECT of  *)
(* the previous uptime comes before the transaction that takes it.         *)
(***************************************************************************)
EXTENDS Integers

CONSTANTS
    Service,    \* poll tasks of the hub service
    Cli,        \* `hub.py poll` processes, one poll each at a time
    None,       \* nobody
    MaxBoots,   \* bound: how often the board boots
    MaxUptime,  \* bound: uptime of one boot, in ticks
    MaxCount,   \* bound: no ssh answers once this many boots are counted
    Faults      \* subset of {"crash", "emptyssh"}

Tasks == Service \cup Cli

ASSUME CounterAssumption ==
    /\ None \notin Tasks
    /\ MaxBoots \in Nat \ {0} /\ MaxUptime \in Nat \ {0} /\ MaxCount \in Nat

VARIABLES
    boots,     \* the board: number of its current boot
    up,        \* the board: port 22 answers
    uptime,    \* the board: ticks since the boot
    alive,     \* the tasks whose process is running
    pc,        \* where each poll is
    sample,    \* what each poll is about to store
    prev,      \* uptime each poll has SELECTed
    writer,    \* the poll that holds SQLite's write lock
    seeded,    \* init_db has inserted the board's rows
    row,       \* committed board_telemetry row
    session,   \* committed cycle_counters.session_uboot_cycles
    lifetime,  \* committed cycle_counters.lifetime_uboot_cycles
    reboots,   \* committed events_log rows of type 'reboot'
    seen,      \* history: the last sample stored with an uptime
    strayed,   \* history: a poll has stored its sample out of turn
    hidden     \* history: the uptimes stored have passed over a reboot

hardware == <<boots, up, uptime>>
polls == <<pc, sample, prev>>
db == <<seeded, row, session, lifetime, reboots, seen, strayed, hidden>>
vars == <<boots, up, uptime, alive, pc, sample, prev, writer,
          seeded, row, session, lifetime, reboots, seen, strayed, hidden>>

\* A telemetry value, with the boot it was read in (0 when no uptime was read).
Rows == [online : BOOLEAN, uptime : Nat, boot : Nat]
Offline == [online |-> FALSE, uptime |-> 0, boot |-> 0]
Unread_MinusOne == [online |-> TRUE, uptime |-> -1, boot |-> 0]  \* mutant: no uptime is -1
Unread == [online |-> TRUE, uptime |-> 0, boot |-> 0]

TypeOK ==
    /\ boots \in Nat \ {0} /\ up \in BOOLEAN /\ uptime \in Nat
    /\ alive \in SUBSET Tasks
    /\ pc \in [Tasks -> {"idle", "ssh", "store", "begin", "commit"}]
    /\ sample \in [Tasks -> Rows]
    /\ prev \in [Tasks -> Nat]
    /\ writer \in Tasks \cup {None}
    /\ seeded \in BOOLEAN
    /\ row \in Rows
    /\ session \in Nat /\ lifetime \in Nat /\ reboots \in Nat
    /\ seen \in Rows /\ strayed \in BOOLEAN /\ hidden \in BOOLEAN

Init ==
    /\ boots = 1 /\ up = TRUE /\ uptime = 1
    /\ alive = {}
    /\ pc = [t \in Tasks |-> "idle"]
    /\ sample = [t \in Tasks |-> Offline]
    /\ prev = [t \in Tasks |-> 0]
    /\ writer = None
    /\ seeded = FALSE
    /\ row = Offline
    /\ session = 0 /\ lifetime = 0 /\ reboots = 0
    /\ seen = Offline /\ strayed = FALSE /\ hidden = FALSE

----------------------------------------------------------------------------
(* Processes *)

\* The tasks that live and die with t.
Process(t) == IF t \in Service THEN Service ELSE {t}

\* init_db: CREATE TABLE IF NOT EXISTS and INSERT OR IGNORE.
Start(t) ==
    /\ t \notin alive
    /\ alive' = alive \cup Process(t)
    /\ seeded' = TRUE
    /\ lifetime' = IF seeded THEN lifetime ELSE 1
    /\ UNCHANGED <<hardware, polls, writer, row, session, reboots, seen, strayed, hidden>>

\* Stop, kill or redeployment; an open transaction is rolled back.
Crash(t) ==
    /\ t \in alive /\ "crash" \in Faults
    /\ alive' = alive \ Process(t)
    /\ pc' = [u \in Tasks |-> IF u \in Process(t) THEN "idle" ELSE pc[u]]
    /\ sample' = [u \in Tasks |-> IF u \in Process(t) THEN Offline ELSE sample[u]]
    /\ prev' = [u \in Tasks |-> IF u \in Process(t) THEN 0 ELSE prev[u]]
    /\ writer' = IF writer \in Process(t) THEN None ELSE writer
    /\ UNCHANGED <<hardware, db>>

----------------------------------------------------------------------------
(* One poll: poll_board_telemetry *)

Sampled(t, v) ==
    /\ pc' = [pc EXCEPT ![t] = "store"]
    /\ sample' = [sample EXCEPT ![t] = v]
    /\ UNCHANGED <<hardware, alive, prev, writer, db>>

\* The poll is over and forgets its locals.
Return(t) ==
    /\ pc' = [pc EXCEPT ![t] = "idle"]
    /\ sample' = [sample EXCEPT ![t] = Offline]
    /\ prev' = [prev EXCEPT ![t] = 0]

GiveUp(t) == Return(t) /\ UNCHANGED <<hardware, alive, writer, db>>

\* check_port_open says no, because the board is down or slow to answer.
PortClosed(t) ==
    /\ t \in alive /\ pc[t] = "idle"
    /\ Sampled(t, Offline)

PortOpen(t) ==
    /\ t \in alive /\ pc[t] = "idle" /\ up
    /\ pc' = [pc EXCEPT ![t] = "ssh"]
    /\ sample' = [sample EXCEPT ![t] = [online |-> FALSE, uptime |-> 0, boot |-> boots]]
    /\ UNCHANGED <<hardware, alive, prev, writer, db>>

\* A whole reboot does not fit between the port check and the answer.
SshReturns(t) ==
    /\ pc[t] = "ssh" /\ up /\ sample[t].boot = boots /\ lifetime < MaxCount
    /\ Sampled(t, [online |-> TRUE, uptime |-> uptime, boot |-> boots])

\* ssh exits with an error and prints nothing: uptime_seconds keeps its
\* default while is_online is TRUE.  A board going down does that; so does one
\* that refuses the login.
SshEmpty(t) ==
    /\ pc[t] = "ssh" /\ (~up \/ "emptyssh" \in Faults) /\ lifetime < MaxCount
    /\ Sampled(t, Unread)

\* Timeout of 4 s, or any other exception: nothing is stored.
SshFails(t) ==
    /\ pc[t] = "ssh"
    /\ GiveUp(t)

----------------------------------------------------------------------------
(* upsert_telemetry *)

\* Inside upsert_telemetry a service task does not yield to the others.
LoopFree(t) ==
    t \in Service => \A u \in Service \ {t} : pc[u] \notin {"begin", "commit"}

\* SELECT uptime_seconds, in autocommit mode.
Select(t) ==
    /\ pc[t] = "store" /\ LoopFree(t)
    /\ prev' = [prev EXCEPT ![t] = row.uptime]
    /\ pc' = [pc EXCEPT ![t] = "begin"]
    /\ UNCHANGED <<hardware, alive, sample, writer, db>>

\* Mutant: the previous uptime may be that of an offline board.
DetectsReboot_Always(t) == sample[t].uptime <= prev[t] /\ sample[t].online

\* Mutant: a small drop is taken for jitter.
DetectsReboot_Margin(t) == prev[t] > 0 /\ sample[t].uptime + 1 < prev[t] /\ sample[t].online

DetectsReboot(t) ==
    prev[t] > 0 /\ sample[t].uptime < prev[t] /\ sample[t].online

\* Mutant: the counters are in a transaction of their own, before the rest.
Begin_CommitsCounters(t) ==
    /\ pc[t] = "begin" /\ writer = None
    /\ writer' = t
    /\ pc' = [pc EXCEPT ![t] = "commit"]
    /\ IF DetectsReboot(t)
       THEN session' = session + 1 /\ lifetime' = lifetime + 1
       ELSE UNCHANGED <<session, lifetime>>
    /\ UNCHANGED <<hardware, alive, sample, prev, seeded, row, reboots, seen, strayed, hidden>>

\* The first statement that writes opens the transaction.
Begin(t) ==
    /\ pc[t] = "begin" /\ writer = None
    /\ writer' = t
    /\ pc' = [pc EXCEPT ![t] = "commit"]
    /\ UNCHANGED <<hardware, alive, sample, prev, db>>

\* "database is locked" after the 10 s of the connection; swallowed above.
Busy(t) ==
    /\ pc[t] = "begin" /\ writer # None
    /\ GiveUp(t)

\* What t stores is out of turn: another poll has stored since its SELECT, ssh
\* printed nothing, or it is older than a sample stored before.
Strays(t) ==
    \/ prev[t] # row.uptime
    \/ sample[t].online /\ sample[t].uptime = 0
    \/ /\ sample[t].uptime > 0 /\ seen.uptime > 0
       /\ \/ sample[t].boot < seen.boot
          \/ sample[t].boot = seen.boot /\ sample[t].uptime < seen.uptime

\* What t stores hides a reboot: no uptime where there was one, that of a boot
\* that is not the next one, or one that has grown past the last.
Hides(t) ==
    IF sample[t].uptime = 0
    THEN seen.uptime > 0
    ELSE /\ sample[t].boot # seen.boot
         /\ \/ sample[t].boot # seen.boot + 1
            \/ seen.uptime > 0 /\ sample[t].uptime >= seen.uptime

\* Counters, event and telemetry row are committed together.
Commit(t) ==
    /\ pc[t] = "commit"
    /\ IF DetectsReboot(t)
       THEN session' = session + 1 /\ lifetime' = lifetime + 1 /\ reboots' = reboots + 1
       ELSE UNCHANGED <<session, lifetime, reboots>>
    /\ row' = sample[t]
    /\ seen' = IF sample[t].uptime > 0 THEN sample[t] ELSE seen
    /\ strayed' = IF Strays(t) THEN TRUE ELSE strayed
    /\ hidden' = IF Hides(t) THEN TRUE ELSE hidden
    /\ writer' = None
    /\ Return(t)
    /\ UNCHANGED <<hardware, alive, seeded>>

----------------------------------------------------------------------------
(* The board *)

Tick ==
    /\ up /\ uptime < MaxUptime
    /\ uptime' = uptime + 1
    /\ UNCHANGED <<boots, up, alive, polls, writer, db>>

Reboot ==
    /\ boots < MaxBoots
    /\ boots' = boots + 1 /\ up' = FALSE /\ uptime' = 0
    /\ UNCHANGED <<alive, polls, writer, db>>

ComeUp ==
    /\ ~up
    /\ up' = TRUE /\ uptime' = 1
    /\ UNCHANGED <<boots, alive, polls, writer, db>>

----------------------------------------------------------------------------

Next ==
    \/ \E t \in Tasks :
         \/ Start(t) \/ Crash(t)
         \/ PortClosed(t) \/ PortOpen(t) \/ SshReturns(t) \/ SshEmpty(t) \/ SshFails(t)
         \/ Select(t) \/ Begin(t) \/ Busy(t) \/ Commit(t)
    \/ Tick \/ Reboot \/ ComeUp

Spec == Init /\ [][Next]_vars

----------------------------------------------------------------------------
(* Properties *)

\* Counters and event log agree in every committed state, whatever crashes and
\* however many pollers write: one transaction covers the three of them.
LogMatchesCounters ==
    /\ reboots = session
    /\ seeded => lifetime = session + 1

\* "Check if uptime dropped, which indicates a reboot cycle!": every count is a
\* reboot, the counter never exceeds the number of boots.
NeverOvercounts == lifetime <= boots

\* There are three ways to count a reboot that did not happen: two polls whose
\* SELECTs and commits interleave, an ssh that prints nothing, and a sample
\* stored after a newer one.  Whatever else fails, the counter is right.
OnlyStraysOvercount == ~strayed => NeverOvercounts

\* Nor is a reboot missed but in three ways: a poll that finds the board down or
\* without an uptime wipes the last one, a board reboots twice between polls, or
\* its uptime grows past the last one stored.  Else the count is exact.
CountsWhatItSees ==
    ~strayed /\ ~hidden /\ seen.uptime > 0 => lifetime = seen.boot
====
