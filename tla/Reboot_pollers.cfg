\* Two tasks of the service and a command-line poll; crashes, empty answers.
CONSTANTS
    sched = sched
    refresh = refresh
    cli = cli
    None = None
    Service = {sched, refresh}
    Cli = {cli}
    MaxBoots = 3
    MaxUptime = 2
    MaxCount = 4
    Faults = {"crash", "emptyssh"}
SPECIFICATION Spec
SYMMETRY Symmetry
INVARIANTS
    TypeOK
    LogMatchesCounters
    OnlyStraysOvercount
    CountsWhatItSees
