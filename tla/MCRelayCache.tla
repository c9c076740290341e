---- MODULE MCRelayCache ----
EXTENDS RelayCache

CONSTANTS sched, r1, cli, g1
====
