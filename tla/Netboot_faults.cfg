\* Three sessions on one board, one of them by --place; every failure may happen.
CONSTANTS
    s1 = s1
    s2 = s2
    s3 = s3
    p1 = p1
    p2 = p2
    None = None
    Sessions = {s1, s2, s3}
    Places = {p1}
    Pool = {p1}
    Override <- OneOverride
    FallbackConsole = p1
    Faults = {"client", "serial", "path", "board", "kill"}
SPECIFICATION Spec
SYMMETRY PoolSymmetry
INVARIANTS
    TypeOK
    ConsoleExclusive
    LeakOnlyIfCut
    PassedMeansRestored
    LockDiscipline
PROPERTIES
    NoResetUnderfoot
    ImplementsConsoleUse
\* sessions are one-shot processes: the system stops when they are over
CHECK_DEADLOCK FALSE
