---- MODULE NetbootRecovery ----
(***************************************************************************)
(* NetbootSession with a history of its recoveries, to say on which boards *)
(* the finally block of test_yocto_netboot.py does what it is there for.   *)
(***************************************************************************)
EXTENDS NetbootSession

VARIABLE deaf  \* history: boards whose last recovery a running command swallowed

RecoveryInit == Init /\ deaf = {}

\* The step closes the console of p at the end of the finally block's first part.
Recovers(s, p) == pc[s] = "recover" /\ cons[s] = p /\ cons'[s] = None /\ pc'[s] # "dead"

Swallowed(s, p) == Recovers(s, p) /\ outcome[s] # "passed" /\ board[p] = "busy"

\* A board is deaf from a swallowed recovery to the next one that is heard.
Recall ==
    deaf' = {p \in Places : IF \E s \in Sessions : Recovers(s, p)
                             THEN \E s \in Sessions : Swallowed(s, p) ELSE p \in deaf}

RecoveryNext == Next /\ Recall

RecoverySpec == RecoveryInit /\ [][RecoveryNext]_<<vars, deaf>> /\ Fairness

\* Whatever transfers and checks fail, and whoever had the board before, a board
\* ends up on its Debian baseline for good, with one exception: "sync; reboot -f"
\* and "reset" typed while a transfer that timed out still holds U-Boot are lost,
\* and that board stays at the prompt until another session boots it.
BoardsComeBack ==
    <>[](\A p \in Places : board[p] = IF p \in deaf THEN "prompt" ELSE "debian")
====
