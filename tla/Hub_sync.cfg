\* The scheduler and a hub.py poll on two places; queries, writes and reads fail.
CONSTANTS
    p1 = p1
    p2 = p2
    sched = sched
    r1 = r1
    r2 = r2
    cli = cli
    c1 = c1
    c2 = c2
    Sched = sched
    Places = {p1, p2}
    Refreshes = {}
    Polls = {cli}
    Clients = {}
    PollInterval = 1
    SyncInterval = 1
    MaxChanges = 1
    MaxQueue = 2
    Faults = {"client", "empty", "locked", "dbread", "removal", "restart"}
SPECIFICATION Spec
INVARIANTS
    TypeOK
    SettledSync
