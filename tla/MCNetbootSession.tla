---- MODULE MCNetbootSession ----
EXTENDS NetbootSession, TLC

CONSTANTS s1, s2, s3, p1, p2

\* One session names its place, the others go through the pool.
OneOverride == [s \in Sessions |-> IF s = s1 THEN p1 ELSE None]

\* The two sessions that go through the pool are interchangeable.
PoolSymmetry == Permutations(Sessions \ {s1})
====
