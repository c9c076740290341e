\* A poll interval that is no multiple of the sync interval; slow queries, a
\* refresh in between, reads that raise and restarts.
CONSTANTS
    p1 = p1
    sched = sched
    r1 = r1
    Sched = sched
    Places = {p1}
    Refreshes = {r1}
    Polls = {}
    Clients = {}
    PollInterval = 7
    SyncInterval = 2
    Rounds = 4
    MaxChanges = 0
    MaxQueue = 2
    MaxSync = 2
    MaxPoll = 3
    MaxSkips = 2
    Faults = {"dbread", "restart"}
SPECIFICATION TimedSpec
INVARIANTS
    TimingOK
    GapBounded
