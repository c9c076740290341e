---- MODULE ConsoleUse ----
(***************************************************************************)
(* What Labgrid promises to whoever uses a board's serial console: at any  *)
(* time a console has at most one user, and a user never goes from one     *)
(* console to another without closing the first.                           *)
(***************************************************************************)
CONSTANTS Sessions, Places

VARIABLE users  \* the sessions that have each place's console open

Init == users = [p \in Places |-> {}]

Open(s, p) ==
    /\ users[p] = {}
    /\ \A q \in Places : s \notin users[q]
    /\ users' = [users EXCEPT ![p] = {s}]

Close(s, p) ==
    /\ users[p] = {s}
    /\ users' = [users EXCEPT ![p] = {}]

Next == \E s \in Sessions, p \in Places : Open(s, p) \/ Close(s, p)

Spec == Init /\ [][Next]_users
====
