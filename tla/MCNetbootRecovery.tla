---- MODULE MCNetbootRecovery ----
EXTENDS NetbootRecovery

CONSTANTS s1, s2, s3, p1, p2

\* One session names its place, the others go through the pool.
OneOverride == [s \in Sessions |-> IF s = s1 THEN p1 ELSE None]
====
