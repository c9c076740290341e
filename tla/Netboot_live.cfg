\* Three sessions on two boards, one of them by --place; transfers and checks
\* may fail, the coordinator, the serial lines and the boards do not.
CONSTANTS
    s1 = s1
    s2 = s2
    s3 = s3
    p1 = p1
    p2 = p2
    None = None
    Sessions = {s1, s2, s3}
    Places = {p1, p2}
    Pool = {p1, p2}
    Override <- OneOverride
    FallbackConsole = p1
    Faults = {}
SPECIFICATION RecoverySpec
PROPERTIES
    BoardsComeBack
CHECK_DEADLOCK FALSE
