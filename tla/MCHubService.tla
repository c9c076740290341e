---- MODULE MCHubService ----
EXTENDS HubService

CONSTANTS p1, p2, sched, r1, r2, cli, c1, c2
====
