---- MODULE MCBoardAccess ----
EXTENDS BoardAccess

CONSTANTS t1, t2, n1, n2, s1, s2, ci, staff, r1, r2

\* The second telemetry job runs as another user than the runner's.
MCUser == [j \in Jobs |-> IF j = t2 THEN staff ELSE ci]
====
