---- MODULE MCHubTiming ----
EXTENDS HubTiming

CONSTANTS p1, sched, r1
====
