---- MODULE MCRebootCounter ----
EXTENDS RebootCounter, TLC

CONSTANTS sched, refresh, cli

\* Tasks of the service differ in nothing but their names.
Symmetry == Permutations(Service)
====
