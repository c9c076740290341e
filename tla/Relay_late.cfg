\* Scheduler, refresh and page; POSTs are given up, lost, late, entries vanish.
CONSTANTS
    sched = sched
    r1 = r1
    cli = cli
    g1 = g1
    Sched = sched
    Refreshes = {r1}
    Polls = {}
    Pages = {g1}
    MaxVersion = 1
    MaxPosts = 2
    MaxFetches = 1
    Faults = {"timeout", "loss", "evict"}
SPECIFICATION FairSpec
INVARIANTS
    TypeOK
    AwaitedIsNewest
PROPERTIES
    FollowsHub
