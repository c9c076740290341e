\* Two runs of each kind of workflow on a board, one as another user, and two runners.
CONSTANTS
    t1 = t1
    t2 = t2
    n1 = n1
    n2 = n2
    s1 = s1
    s2 = s2
    ci = ci
    staff = staff
    r1 = r1
    r2 = r2
    Telemetry = {t1, t2}
    Trials = {n1, n2}
    Sessions = {s1, s2}
    Runners = {r1, r2}
    User <- MCUser
    Nobody = Nobody
SPECIFICATION FairSpec
INVARIANTS
    TypeOK
    SharedOnlyAcross
    LeakExplained
PROPERTIES
    RequestsEnd
CHECK_DEADLOCK FALSE
