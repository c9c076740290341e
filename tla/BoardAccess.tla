---- MODULE BoardAccess ----
(***************************************************************************)
(* The workflows of .github/workflows on one A210 board.  Two mechanisms   *)
(* keep them apart: the concurrency group board-farm-<board>, in which     *)
(* telemetry and netboot trials wait for each other, and the Labgrid lock, *)
(* which telemetry and Yocto sessions take.  A trial takes no lock, a      *)
(* session is in no group but that of its own run.                         *)
(*                                                                         *)
(* The coordinator knows the user that holds a lock, not the job: lock is  *)
(* the job that took it, and any job of the same user may release it.      *)
(***************************************************************************)

CONSTANTS
    Telemetry,  \* runs of a210_telemetry.yml
    Trials,     \* runs of a210_netboot.yml and a210_labgrid_uboot.yml
    Sessions,   \* hardware jobs of yocto-zhihe-a210.yml, on this board
    Runners,    \* runners with the label board-farm-controller
    User,       \* the user each job's labgrid-client runs as
    Nobody

Grouped == Telemetry \cup Trials
Jobs == Grouped \cup Sessions

ASSUME JobsAssumption ==
    /\ Telemetry \cap Trials = {} /\ Grouped \cap Sessions = {}
    /\ Nobody \notin Jobs

VARIABLES
    pc,       \* where each job is
    group,    \* the job that holds the concurrency group
    pending,  \* the job that waits for it
    on,       \* the job on each runner
    lock,     \* the job whose acquire took the Labgrid lock
    left,     \* history: jobs that were cut off, failed a test or could not release
    robbed    \* history: jobs whose lock another job released

vars == <<pc, group, pending, on, lock, left, robbed>>

TypeOK ==
    /\ pc \in [Jobs -> {"idle", "pending", "ready", "acquire", "test", "console",
                        "release", "done", "dropped"}]
    /\ group \in Grouped \cup {Nobody} /\ pending \in Grouped \cup {Nobody}
    /\ on \in [Runners -> Jobs \cup {Nobody}]
    /\ lock \in (Telemetry \cup Sessions) \cup {Nobody}
    /\ left \subseteq Jobs /\ robbed \subseteq Jobs

Init ==
    /\ pc = [j \in Jobs |-> "idle"]
    /\ group = Nobody /\ pending = Nobody
    /\ on = [r \in Runners |-> Nobody]
    /\ lock = Nobody /\ left = {} /\ robbed = {}

----------------------------------------------------------------------------
(* GitHub *)

Go(j, place) == pc' = [pc EXCEPT ![j] = place]

\* Mutant: sessions take the group too, without waiting for it.
Dispatch_AnyTakes(j) ==
    /\ pc[j] = "idle"
    /\ IF j \in Grouped /\ group # Nobody
       THEN /\ pc' = [k \in Jobs |-> IF k = j THEN "pending" ELSE IF k = pending THEN "dropped" ELSE pc[k]]
            /\ pending' = j
            /\ UNCHANGED group
       ELSE Go(j, "ready") /\ group' = j /\ UNCHANGED pending
    /\ UNCHANGED <<on, lock, left, robbed>>

\* A run is asked for.  A group has one job and one that waits: a third takes
\* the place of the one that waits.
Dispatch(j) ==
    /\ pc[j] = "idle"
    /\ IF j \in Grouped /\ group # Nobody
       THEN /\ pc' = [k \in Jobs |-> IF k = j THEN "pending" ELSE IF k = pending THEN "dropped" ELSE pc[k]]
            /\ pending' = j
            /\ UNCHANGED group
       ELSE /\ Go(j, "ready")
            /\ group' = IF j \in Grouped THEN j ELSE group
            /\ UNCHANGED pending
    /\ UNCHANGED <<on, lock, left, robbed>>

\* A free runner takes the job; a trial starts with the console.
PickUp(j) ==
    /\ pc[j] = "ready"
    /\ \E r \in Runners : on[r] = Nobody /\ on' = [on EXCEPT ![r] = j]
    /\ Go(j, IF j \in Trials THEN "console" ELSE "acquire")
    /\ UNCHANGED <<group, pending, lock, left, robbed>>

\* Mutant: the group stays with the job.
End_KeepsGroup(j) ==
    /\ Go(j, "done")
    /\ on' = [r \in Runners |-> IF on[r] = j THEN Nobody ELSE on[r]]
    /\ UNCHANGED <<group, pending>>

\* A job ends: its runner is free, and its group goes to the job that waits.
End(j) ==
    /\ on' = [r \in Runners |-> IF on[r] = j THEN Nobody ELSE on[r]]
    /\ IF group = j
       THEN /\ pc' = [k \in Jobs |-> IF k = j THEN "done" ELSE IF k = pending THEN "ready" ELSE pc[k]]
            /\ group' = pending /\ pending' = Nobody
       ELSE Go(j, "done") /\ UNCHANGED <<group, pending>>

Started(j) == pc[j] \in {"acquire", "test", "console", "release"}

\* Somebody cancels the job, or its time is up: 25 minutes for a session.
Cut(j) ==
    /\ Started(j)
    /\ End(j)
    /\ left' = left \cup {j}
    /\ UNCHANGED <<lock, robbed>>

----------------------------------------------------------------------------
(* The lock *)

Acquire(j, place) ==
    /\ pc[j] = "acquire" /\ lock = Nobody
    /\ lock' = j
    /\ Go(j, place)
    /\ UNCHANGED <<group, pending, on, left, robbed>>

\* The last command of a job: the lock is released whoever took it, if it is
\* of the job's user.
Release(j) ==
    /\ pc[j] = "release"
    /\ End(j)
    /\ IF lock # Nobody /\ User[lock] = User[j]
       THEN lock' = Nobody /\ robbed' = robbed \cup ({lock} \ {j})
       ELSE UNCHANGED <<lock, robbed>>
    /\ UNCHANGED left

\* An error exit of release is ignored ("|| true", check=False).
ReleaseFails(j) ==
    /\ pc[j] = "release"
    /\ End(j)
    /\ left' = left \cup {j}
    /\ UNCHANGED <<lock, robbed>>

----------------------------------------------------------------------------
(* a210_telemetry.yml *)

\* "acquire || true": refused, for whatever reason, and on.
GoOn(j) ==
    /\ j \in Telemetry /\ pc[j] = "acquire"
    /\ Go(j, "test")
    /\ UNCHANGED <<group, pending, on, lock, left, robbed>>

\* Mutant: a test that passes ends the job.
TestPasses_Ends(j) ==
    /\ pc[j] = "test" /\ lock # Nobody /\ User[lock] = User[j]
    /\ End(j)
    /\ UNCHANGED <<lock, left, robbed>>

\* RemotePlace wants a place that the user has acquired, in whatever job.
TestPasses(j) ==
    /\ pc[j] = "test" /\ lock # Nobody /\ User[lock] = User[j]
    /\ Go(j, "release")
    /\ UNCHANGED <<group, pending, on, lock, left, robbed>>

\* pytest fails, and with it the step: the release is not reached.
TestFails(j) ==
    /\ pc[j] = "test"
    /\ End(j)
    /\ left' = left \cup {j}
    /\ UNCHANGED <<lock, robbed>>

TelemetryStep(j) ==
    Acquire(j, "test") \/ GoOn(j) \/ TestPasses(j) \/ TestFails(j) \/ Release(j) \/ ReleaseFails(j)

----------------------------------------------------------------------------
(* The users of the console *)

\* Mutant: a refused acquire does not stop the session.
Refused_GoesOn(j) ==
    /\ j \in Sessions /\ pc[j] = "acquire"
    /\ Go(j, "console")
    /\ UNCHANGED <<group, pending, on, lock, left, robbed>>

\* A session that gets no lock, for whatever reason, fails and releases nothing.
Refused(j) ==
    /\ j \in Sessions /\ pc[j] = "acquire"
    /\ End(j)
    /\ UNCHANGED <<lock, left, robbed>>

\* The test is over, its console closed.
CloseConsole(j) ==
    /\ pc[j] = "console"
    /\ Go(j, "release")
    /\ UNCHANGED <<group, pending, on, lock, left, robbed>>

SessionStep(j) ==
    Acquire(j, "console") \/ Refused(j) \/ CloseConsole(j) \/ Release(j) \/ ReleaseFails(j)

\* run_tftp_trial.py or the U-Boot test ends, well or not.
TrialEnds(j) ==
    /\ pc[j] = "console"
    /\ End(j)
    /\ UNCHANGED <<lock, left, robbed>>

----------------------------------------------------------------------------
(* Specification *)

Step(j) ==
    \/ j \in Telemetry /\ TelemetryStep(j)
    \/ j \in Sessions /\ SessionStep(j)
    \/ j \in Trials /\ TrialEnds(j)
    \/ Cut(j)

Next == \E j \in Jobs : Dispatch(j) \/ PickUp(j) \/ Step(j)

Spec == Init /\ [][Next]_vars

\* Runners take what is ready, and what has started ends: it has time limits.
\* Nobody has to ask for a run.
Fairness == \A j \in Jobs : WF_vars(PickUp(j)) /\ WF_vars(Step(j))

FairSpec == Spec /\ Fairness

----------------------------------------------------------------------------
(* Properties *)

AtConsole == {j \in Jobs : pc[j] = "console"}

\* Each mechanism works among its own: no two trials are at the console, and no
\* two sessions unless another job has released the lock of one of them.  A
\* trial and a session may be, since neither mechanism knows them both.
SharedOnlyAcross ==
    \A i, j \in AtConsole :
        i # j => /\ ~(i \in Grouped /\ j \in Grouped)
                 /\ i \in Sessions /\ j \in Sessions => {i, j} \cap robbed # {}

\* A lock outlives its job only if the job was cut off, its test failed or its
\* release did: no order of dispatches, refusals and releases leaks one.
LeakExplained == lock # Nobody /\ pc[lock] = "done" => lock \in left

\* Whoever asks for a run gets it, unless a later request for the same board
\* takes its place in the queue; no runner and no group is blocked for ever.
RequestsEnd == \A j \in Jobs : pc[j] # "idle" ~> pc[j] \in {"done", "dropped"}
====
