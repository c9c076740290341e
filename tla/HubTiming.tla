---- MODULE HubTiming ----
(***************************************************************************)
(* When background_scheduler (hub/app/main.py) polls the hardware.  The    *)
(* scheduler of HubService adds SyncInterval to coord_counter for each     *)
(* sync and polls when the counter reaches PollInterval; the time a sync   *)
(* or a poll takes is not counted.  Here its steps take time, in seconds,  *)
(* which history variables measure: they add nothing to what the hub does. *)
(***************************************************************************)
EXTENDS HubService

CONSTANTS
    Rounds,        \* how many SyncIntervals make a PollInterval, rounded up
    MaxSync,       \* bound by the timeouts of labgrid-client: a sync
    MaxPoll,       \* bound by the timeouts of the port check and ssh: a poll
    MaxSkips       \* bound: iterations between two polls that raise

ASSUME TimingAssumption ==
    /\ Rounds \in Nat \ {0}
    /\ (Rounds - 1) * SyncInterval < PollInterval /\ PollInterval <= Rounds * SyncInterval
    /\ MaxSync \in Nat /\ MaxPoll \in Nat /\ MaxSkips \in Nat

VARIABLES
    since,    \* history: time from the start of the last poll to this step
    skips,    \* history: iterations since then that raised before the counter
    polled,   \* history: this run of the service has polled
    gap       \* history: time between the starts of two polls, and skips in it

timing == <<since, skips, polled, gap>>

TimingOK ==
    /\ TypeOK
    /\ since \in Nat /\ skips \in Nat
    /\ polled \in BOOLEAN
    /\ gap \in [time : Nat, skips : Nat]

TimedInit ==
    /\ Init
    /\ since = 0 /\ skips = 0
    /\ polled = FALSE
    /\ gap = [time |-> 0, skips |-> 0]

\* d seconds pass; before the first poll nothing is measured.
Elapse(d) == since' = IF polled THEN since + d ELSE since

----------------------------------------------------------------------------
(* The scheduler *)

\* The sleep is over and the next sync begins; the first one waits for nothing.
SleepEnds ==
    /\ Begin(Sched)
    /\ Elapse(SyncInterval)
    /\ UNCHANGED <<skips, polled, gap>>

\* The sync has taken its time, and a poll is due.
PollStarts(sync) ==
    /\ SchedSynced /\ pc'[Sched] = "telemetry"
    /\ gap' = IF polled THEN [time |-> since + sync, skips |-> skips] ELSE gap
    /\ since' = 0 /\ skips' = 0
    /\ polled' = TRUE

NoPollDue(sync) ==
    /\ SchedSynced /\ pc'[Sched] = "off"
    /\ Elapse(sync)
    /\ UNCHANGED <<skips, polled, gap>>

PollEnds(poll) ==
    /\ SchedPolled
    /\ Elapse(poll)
    /\ UNCHANGED <<skips, polled, gap>>

\* get_all_boards_aggregated raises after the sync: the iteration ends with the
\* sleep and does not count.
SyncRaises(sync) ==
    /\ SchedFails /\ pc[Sched] = "synced"
    /\ skips < MaxSkips
    /\ skips' = skips + 1
    /\ Elapse(sync)
    /\ UNCHANGED <<polled, gap>>

\* It raises after the poll, which has been counted.
PollRaises(poll) ==
    /\ SchedFails /\ pc[Sched] = "telemetry"
    /\ Elapse(poll)
    /\ UNCHANGED <<skips, polled, gap>>

\* The next run of the service polls at once.
ServiceRestarts ==
    /\ Restart
    /\ since' = 0 /\ skips' = 0
    /\ polled' = FALSE
    /\ UNCHANGED gap

\* What else the hub does while the scheduler waits: refreshes, polls, streams.
Meanwhile == Elsewhere /\ UNCHANGED timing

TimedNext ==
    \/ SleepEnds
    \/ \E sync \in 0..MaxSync : PollStarts(sync) \/ NoPollDue(sync) \/ SyncRaises(sync)
    \/ \E poll \in 0..MaxPoll : PollEnds(poll) \/ PollRaises(poll)
    \/ ServiceRestarts \/ Meanwhile

TimedSpec == TimedInit /\ [][TimedNext]_<<vars, timing>>

----------------------------------------------------------------------------
(* Properties *)

\* Polls of the hardware start at least PollInterval apart, and at most Rounds
\* iterations and one poll apart, not counting the iterations that raised,
\* whatever refreshes and restarts come in between.
GapBounded ==
    gap.time > 0 =>
        /\ PollInterval <= gap.time
        /\ gap.time <= MaxPoll + (Rounds + gap.skips) * (SyncInterval + MaxSync)
====
