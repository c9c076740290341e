\* One place, scheduler, refresh and a connection; writes and reads fail, the service restarts.
CONSTANTS
    p1 = p1
    p2 = p2
    sched = sched
    r1 = r1
    r2 = r2
    cli = cli
    c1 = c1
    c2 = c2
    Sched = sched
    Places = {p1}
    Refreshes = {r1}
    Polls = {}
    Clients = {c1}
    PollInterval = 2
    SyncInterval = 1
    MaxChanges = 1
    MaxQueue = 2
    Faults = {"disconnect", "restart", "locked", "dbread"}
SPECIFICATION FairSpec
INVARIANTS
    NoMissedBroadcast
PROPERTIES
    Converges
