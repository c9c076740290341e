---- MODULE BoardAccess_proofs ----
(***************************************************************************)
(* For any jobs, runners and users: what the concurrency group and the     *)
(* lock keep apart, and that with one runner nothing else is needed.       *)
(***************************************************************************)
EXTENDS BoardAccess, TLAPS

Holding == {"test", "console", "release"}
Active == {"ready", "acquire"} \cup Holding

\* The active job of a group holds it; the job that waits has not begun.
GroupInv ==
    /\ \A j \in Grouped : pc[j] \in Active => group = j
    /\ pending # Nobody => pc[pending] = "pending"

\* A session that uses the console or has yet to release holds the lock, unless
\* it was robbed of it.
LockInv == \A s \in Sessions : pc[s] \in {"console", "release"} => lock = s \/ s \in robbed

\* The job that took the lock holds it, or ended without a release.
HolderInv ==
    lock # Nobody => pc[lock] \in Holding \/ (pc[lock] = "done" /\ lock \in left)

\* A job that has started has a runner.
RunnerInv == \A j \in Jobs : Started(j) => \E r \in Runners : on[r] = j

IInv == TypeOK /\ GroupInv /\ LockInv /\ HolderInv /\ RunnerInv

\* What the end of a job does to the places of the jobs and to the group.
LEMMA EndEffect ==
    ASSUME IInv, NEW j \in Jobs, Started(j), End(j)
    PROVE  /\ pc' \in [Jobs -> {"idle", "pending", "ready", "acquire", "test", "console",
                                "release", "done", "dropped"}]
           /\ pc'[j] = "done"
           /\ \A k \in Jobs \ {j} : pc'[k] = pc[k] \/ (k = pending /\ pc'[k] = "ready")
           /\ group' \in Grouped \cup {Nobody} /\ pending' \in Grouped \cup {Nobody}
           /\ on' \in [Runners -> Jobs \cup {Nobody}]
           /\ GroupInv' /\ RunnerInv'
<1>1. /\ pc' \in [Jobs -> {"idle", "pending", "ready", "acquire", "test", "console",
                           "release", "done", "dropped"}]
      /\ pc'[j] = "done"
      /\ \A k \in Jobs \ {j} : pc'[k] = pc[k] \/ (k = pending /\ pc'[k] = "ready")
      /\ group' \in Grouped \cup {Nobody} /\ pending' \in Grouped \cup {Nobody}
  BY DEF End, Go, IInv, TypeOK
<1>2. on' \in [Runners -> Jobs \cup {Nobody}]
  BY DEF End, IInv, TypeOK
<1>3. GroupInv'
  <2>1. CASE group = j
    <3>1. /\ pc' = [k \in Jobs |-> IF k = j THEN "done" ELSE IF k = pending THEN "ready" ELSE pc[k]]
          /\ group' = pending /\ pending' = Nobody
      BY <2>1 DEF End
    <3>2. ASSUME NEW k \in Grouped, pc'[k] \in Active PROVE group' = k
      <4>1. k \in Jobs /\ k # j
        BY <1>1, <3>2 DEF Active, Holding, Jobs
      <4>2. k = pending \/ pc[k] \in Active
        BY <3>1, <3>2, <4>1
      <4> QED BY <2>1, <3>1, <4>1, <4>2 DEF IInv, GroupInv
    <3> QED BY <3>1, <3>2 DEF GroupInv
  <2>2. CASE group # j
    <3>1. pc' = [pc EXCEPT ![j] = "done"] /\ group' = group /\ pending' = pending
      BY <2>2 DEF End, Go
    <3>2. pending # j
      BY JobsAssumption DEF IInv, GroupInv, Started, Jobs
    <3> QED BY <1>1, <3>1, <3>2, JobsAssumption DEF IInv, TypeOK, GroupInv, Active, Holding, Jobs
  <2> QED BY <2>1, <2>2
<1>4. RunnerInv'
  <2>1. ASSUME NEW k \in Jobs, Started(k)' PROVE \E r \in Runners : on'[r] = k
    <3>1. k # j /\ Started(k)
      BY <1>1, <2>1 DEF Started
    <3>2. PICK r \in Runners : on[r] = k
      BY <3>1 DEF IInv, RunnerInv
    <3>3. on'[r] = k
      BY <3>1, <3>2 DEF End
    <3> QED BY <3>3
  <2> QED BY <2>1 DEF RunnerInv
<1> QED BY <1>1, <1>2, <1>3, <1>4

\* A job that ends keeps LockInv and HolderInv, if it leaves the lock with a
\* holder that has not ended well.
LEMMA EndKeeps ==
    ASSUME IInv, NEW j \in Jobs, Started(j), End(j), UNCHANGED <<lock, robbed>>,
           left' \in {left, left \cup {j}}, lock = j => left' = left \cup {j}
    PROVE  IInv'
<1>1. TypeOK'
  BY EndEffect DEF IInv, TypeOK
<1>2. LockInv'
  <2>1. ASSUME NEW s \in Sessions, pc'[s] \in {"console", "release"}
        PROVE  lock' = s \/ s \in robbed'
    <3>1. s \in Jobs /\ s # j /\ pc[s] = pc'[s]
      BY <2>1, EndEffect DEF Jobs
    <3> QED BY <2>1, <3>1 DEF IInv, LockInv
  <2> QED BY <2>1 DEF LockInv
<1>3. HolderInv'
  <2>1. ASSUME lock # Nobody PROVE pc'[lock] \in Holding \/ (pc'[lock] = "done" /\ lock \in left')
    <3>1. lock \in Jobs
      BY <2>1 DEF IInv, TypeOK, Jobs, Grouped
    <3>2. CASE lock = j
      BY <3>2, EndEffect
    <3>3. CASE lock # j
      <4>1. pc[lock] \in Holding \/ (pc[lock] = "done" /\ lock \in left)
        BY <2>1 DEF IInv, HolderInv
      <4>2. lock # pending
        BY <2>1, <4>1 DEF IInv, GroupInv, Holding
      <4> QED BY <3>1, <3>3, <4>1, <4>2, EndEffect
    <3> QED BY <3>2, <3>3
  <2> QED BY <2>1 DEF HolderInv
<1> QED BY <1>1, <1>2, <1>3, EndEffect DEF IInv

\* A request.
LEMMA DispatchKeeps ==
    ASSUME IInv, NEW j \in Jobs, Dispatch(j)
    PROVE  IInv'
<1>1. /\ \A k \in Jobs : pc'[k] = pc[k] \/ (pc'[k] \in {"pending", "dropped"} /\ k \in {j, pending})
                          \/ (k = j /\ pc'[k] = "ready")
      /\ UNCHANGED <<on, lock, left, robbed>> /\ pc[j] = "idle"
  BY DEF Dispatch, Go, IInv, TypeOK
<1>2. TypeOK'
  BY DEF Dispatch, Go, IInv, TypeOK
<1>3. GroupInv'
  <2>1. CASE j \in Grouped /\ group # Nobody
    <3>1. /\ pc' = [k \in Jobs |-> IF k = j THEN "pending" ELSE IF k = pending THEN "dropped" ELSE pc[k]]
          /\ pending' = j /\ group' = group
      BY <2>1 DEF Dispatch
    <3> QED BY <3>1 DEF IInv, GroupInv, Active, Holding, Jobs
  <2>2. CASE j \in Grouped /\ group = Nobody
    <3>1. pc' = [pc EXCEPT ![j] = "ready"] /\ group' = j /\ pending' = pending
      BY <2>2 DEF Dispatch, Go
    <3> QED BY <1>1, <2>2, <3>1, JobsAssumption DEF IInv, TypeOK, GroupInv, Jobs
  <2>3. CASE j \notin Grouped
    <3>1. pc' = [pc EXCEPT ![j] = "ready"] /\ group' = group /\ pending' = pending
      BY <2>3 DEF Dispatch, Go
    <3> QED BY <1>1, <2>3, <3>1 DEF IInv, TypeOK, GroupInv, Jobs
  <2> QED BY <2>1, <2>2, <2>3
<1>4. LockInv'
  BY <1>1 DEF IInv, LockInv, Jobs
<1>5. HolderInv'
  <2>1. ASSUME lock # Nobody PROVE pc'[lock] = pc[lock]
    <3>1. lock \in Jobs /\ pc[lock] \in Holding \cup {"done"}
      BY <2>1 DEF IInv, TypeOK, HolderInv, Jobs, Grouped
    <3>2. lock # j /\ lock # pending
      BY <1>1, <2>1, <3>1 DEF IInv, GroupInv, Holding
    <3> QED BY <1>1, <3>1, <3>2
  <2> QED BY <1>1, <2>1 DEF IInv, HolderInv
<1>6. RunnerInv'
  BY <1>1 DEF IInv, RunnerInv, Started
<1> QED BY <1>2, <1>3, <1>4, <1>5, <1>6 DEF IInv

\* A runner takes a job.
LEMMA PickUpKeeps ==
    ASSUME IInv, NEW j \in Jobs, PickUp(j)
    PROVE  IInv'
<1>1. /\ pc' = [pc EXCEPT ![j] = IF j \in Trials THEN "console" ELSE "acquire"]
      /\ pc[j] = "ready" /\ UNCHANGED <<group, pending, lock, left, robbed>>
  BY DEF PickUp, Go
<1>2. PICK r \in Runners : on[r] = Nobody /\ on' = [on EXCEPT ![r] = j]
  BY DEF PickUp
<1>3. TypeOK'
  BY <1>1, <1>2 DEF IInv, TypeOK
<1>4. GroupInv'
  BY <1>1 DEF IInv, TypeOK, GroupInv, Active, Holding
<1>5. LockInv'
  BY <1>1, JobsAssumption DEF IInv, TypeOK, LockInv, Jobs, Grouped
<1>6. HolderInv'
  BY <1>1 DEF IInv, TypeOK, HolderInv, Holding
<1>7. RunnerInv'
  <2>1. ASSUME NEW k \in Jobs, Started(k)' PROVE \E q \in Runners : on'[q] = k
    <3>1. CASE k = j
      BY <1>2, <3>1 DEF IInv, TypeOK
    <3>2. CASE k # j
      <4>1. PICK q \in Runners : on[q] = k
        BY <1>1, <2>1, <3>2 DEF IInv, TypeOK, RunnerInv, Started
      <4>2. q # r
        BY <1>2, <4>1, JobsAssumption
      <4> QED BY <1>2, <4>1, <4>2 DEF IInv, TypeOK
    <3> QED BY <3>1, <3>2
  <2> QED BY <2>1 DEF RunnerInv
<1> QED BY <1>3, <1>4, <1>5, <1>6, <1>7 DEF IInv

\* A job takes the lock or moves on without it, its group and its runner.
LEMMA MovesKeep ==
    ASSUME IInv, NEW j \in Jobs, NEW place \in Holding,
           Started(j), Go(j, place), UNCHANGED <<group, pending, on, left, robbed>>,
           \/ lock = Nobody /\ lock' = j /\ j \notin Trials
           \/ UNCHANGED lock /\ (j \in Sessions => pc[j] = "console")
    PROVE  IInv'
<1>1. pc' = [pc EXCEPT ![j] = place]
  BY DEF Go
<1>2. TypeOK'
  BY <1>1 DEF IInv, TypeOK, Holding, Jobs, Grouped
<1>3. GroupInv'
  BY <1>1 DEF IInv, TypeOK, GroupInv, Active, Holding, Started
<1>4. LockInv'
  BY <1>1, JobsAssumption DEF IInv, TypeOK, LockInv, Jobs, Grouped
<1>5. HolderInv'
  BY <1>1 DEF IInv, TypeOK, HolderInv, Started, Holding
<1>6. RunnerInv'
  BY <1>1 DEF IInv, TypeOK, RunnerInv, Started
<1> QED BY <1>2, <1>3, <1>4, <1>5, <1>6 DEF IInv

\* The lock is released by a job of its user.
LEMMA ReleaseKeeps ==
    ASSUME IInv, NEW j \in Jobs, Release(j)
    PROVE  IInv'
<1>1. Started(j) /\ End(j) /\ left' = left
  BY DEF Release, Started
<1>2. CASE lock # Nobody /\ User[lock] = User[j]
  <2>1. lock' = Nobody /\ robbed' = robbed \cup ({lock} \ {j})
    BY <1>2 DEF Release
  <2>2. TypeOK'
    BY <1>1, <1>2, <2>1, EndEffect DEF IInv, TypeOK, Jobs, Grouped
  <2>3. LockInv'
    <3>1. ASSUME NEW s \in Sessions, pc'[s] \in {"console", "release"} PROVE s \in robbed'
      <4>1. s \in Jobs /\ s # j /\ pc[s] = pc'[s]
        BY <1>1, <3>1, EndEffect DEF Jobs
      <4> QED BY <2>1, <3>1, <4>1 DEF IInv, LockInv
    <3> QED BY <3>1 DEF LockInv
  <2>4. HolderInv'
    BY <2>1 DEF HolderInv
  <2> QED BY <1>1, <2>2, <2>3, <2>4, EndEffect DEF IInv
<1>3. CASE lock # j /\ ~(lock # Nobody /\ User[lock] = User[j])
  BY <1>1, <1>3, EndKeeps DEF Release
<1>4. lock = j => lock # Nobody /\ User[lock] = User[j]
  BY JobsAssumption
<1> QED BY <1>2, <1>3, <1>4

\* IInv is inductive.
THEOREM InductiveInvariant == Spec => []IInv
<1>1. Init => IInv
  BY JobsAssumption DEF Init, IInv, TypeOK, GroupInv, LockInv, HolderInv, RunnerInv, Started, Active, Holding, Jobs
<1>2. IInv /\ [Next]_vars => IInv'
  <2> SUFFICES ASSUME IInv, [Next]_vars PROVE IInv'
    OBVIOUS
  <2>1. ASSUME NEW j \in Jobs, Dispatch(j) \/ PickUp(j) PROVE IInv'
    BY <2>1, DispatchKeeps, PickUpKeeps
  <2>2. ASSUME NEW j \in Jobs, Step(j) PROVE IInv'
    <3>1. CASE (\E place \in {"test", "console"} : j \notin Trials /\ Acquire(j, place))
               \/ GoOn(j) \/ (j \in Telemetry /\ TestPasses(j)) \/ (j \in Sessions /\ CloseConsole(j))
      <4>1. ASSUME NEW place \in {"test", "console"}, j \notin Trials, Acquire(j, place) PROVE IInv'
        BY <4>1, MovesKeep DEF Acquire, Started, Holding
      <4>2. CASE GoOn(j)
        <5>1. j \notin Sessions
          BY <4>2, JobsAssumption DEF GoOn, Grouped
        <5> QED BY <4>2, <5>1, MovesKeep DEF GoOn, Started, Holding
      <4>3. CASE j \in Telemetry /\ TestPasses(j)
        <5>1. j \notin Sessions
          BY <4>3, JobsAssumption DEF Grouped
        <5> QED BY <4>3, <5>1, MovesKeep DEF TestPasses, Started, Holding
      <4>4. CASE j \in Sessions /\ CloseConsole(j)
        BY <4>4, MovesKeep DEF CloseConsole, Started, Holding
      <4> QED BY <3>1, <4>1, <4>2, <4>3, <4>4
    <3>2. CASE Cut(j) \/ TestFails(j) \/ ReleaseFails(j)
      BY <3>2, EndKeeps DEF Cut, TestFails, ReleaseFails, Started
    <3>3. CASE Refused(j)
      <4>1. lock # j
        BY <3>3, JobsAssumption DEF Refused, IInv, HolderInv, Holding
      <4> QED BY <3>3, <4>1, EndKeeps DEF Refused, Started
    <3>4. CASE j \in Trials /\ TrialEnds(j)
      <4>1. lock # j
        BY <3>4, JobsAssumption DEF IInv, TypeOK, Grouped, Jobs
      <4> QED BY <3>4, <4>1, EndKeeps DEF TrialEnds, Started
    <3>5. CASE Release(j)
      BY <3>5, ReleaseKeeps
    <3>6. j \notin Trials \/ (j \notin Telemetry /\ j \notin Sessions)
      BY JobsAssumption DEF Grouped
    <3> QED BY <2>2, <3>1, <3>2, <3>3, <3>4, <3>5, <3>6 DEF Step, TelemetryStep, SessionStep
  <2>3. CASE UNCHANGED vars
    BY <2>3 DEF vars, IInv, TypeOK, GroupInv, LockInv, HolderInv, RunnerInv, Started
  <2> QED BY <2>1, <2>2, <2>3 DEF Next
<1> QED BY <1>1, <1>2, PTL DEF Spec

\* The types, in every reachable state.
THEOREM TypeCorrect == Spec => []TypeOK
<1>1. IInv => TypeOK
  BY DEF IInv
<1> QED BY <1>1, InductiveInvariant, PTL

\* The group keeps trials apart, the lock sessions that are not robbed of it,
\* for any number of jobs, runners and users.
THEOREM MechanismsHold == Spec => []SharedOnlyAcross
<1>1. IInv => SharedOnlyAcross
  <2> SUFFICES ASSUME IInv, NEW i \in AtConsole, NEW j \in AtConsole, i # j
               PROVE  /\ ~(i \in Grouped /\ j \in Grouped)
                      /\ i \in Sessions /\ j \in Sessions => {i, j} \cap robbed # {}
    BY DEF SharedOnlyAcross
  <2>1. pc[i] = "console" /\ pc[j] = "console"
    BY DEF AtConsole
  <2>2. ~(i \in Grouped /\ j \in Grouped)
    BY <2>1 DEF IInv, GroupInv, Active, Holding
  <2>3. i \in Sessions /\ j \in Sessions => {i, j} \cap robbed # {}
    BY <2>1 DEF IInv, LockInv
  <2> QED BY <2>2, <2>3
<1> QED BY <1>1, InductiveInvariant, PTL

\* A lock that outlives its job was left by it.
THEOREM LeaksExplained == Spec => []LeakExplained
<1>1. IInv => LeakExplained
  BY DEF IInv, HolderInv, LeakExplained, Holding
<1> QED BY <1>1, InductiveInvariant, PTL

----------------------------------------------------------------------------
(* With one runner *)

\* The console discipline of ConsoleUse, stated for the jobs of the board.
Console == INSTANCE ConsoleUse WITH Sessions <- Jobs, Places <- {"console"},
                                    users <- [p \in {"console"} |-> AtConsole]

\* A job comes to the console from a runner, or from the acquire of its own.
LEMMA Arrivals ==
    ASSUME IInv, Next, NEW k \in Jobs, pc[k] # "console", pc'[k] = "console"
    PROVE  PickUp(k) \/ Started(k)
<1> USE DEF IInv, TypeOK
<1>1. ASSUME NEW j \in Jobs, Dispatch(j) PROVE FALSE
  BY <1>1 DEF Dispatch, Go
<1>2. ASSUME NEW j \in Jobs, PickUp(j) PROVE k = j
  BY <1>2 DEF PickUp, Go
<1>3. ASSUME NEW j \in Jobs, Step(j) PROVE Started(k)
  <2>1. Started(j) /\ (End(j) \/ \E place \in Holding : Go(j, place))
    BY <1>3 DEF Step, TelemetryStep, SessionStep, Acquire, GoOn, TestPasses, TestFails, Release,
                ReleaseFails, Refused, CloseConsole, TrialEnds, Cut, Started, Holding
  <2>2. ~End(j)
    BY <2>1, EndEffect
  <2>3. k = j
    BY <2>1, <2>2 DEF Go
  <2> QED BY <2>1, <2>3
<1> QED BY <1>1, <1>2, <1>3 DEF Next

\* With one runner the console has one user at a time, who has left it before
\* the next one comes, whatever the workflows say: they rely on it.
THEOREM OneRunnerOneUser ==
    ASSUME NEW runner, Runners = {runner}
    PROVE  Spec => Console!Spec
<1> DEFINE Users == [p \in {"console"} |-> AtConsole]
<1>1. Init => Console!Init
  BY DEF Init, Console!Init, AtConsole
<1>2. ASSUME IInv, NEW i \in Jobs, NEW j \in Jobs, Started(i), Started(j) PROVE i = j
  BY <1>2 DEF IInv, RunnerInv
<1>3. ASSUME IInv, IInv', [Next]_vars PROVE [Console!Next]_Users
  <2>1. ASSUME NEW k \in AtConsole', k \notin AtConsole PROVE Console!Open(k, "console")
    <3>1. k \in Jobs /\ pc[k] # "console" /\ pc'[k] = "console" /\ Next
      BY <1>3, <2>1 DEF AtConsole, vars
    <3>2. AtConsole = {}
      <4>1. CASE PickUp(k)
        <5>1. on[runner] = Nobody
          BY <4>1 DEF PickUp
        <5> QED BY <5>1, <1>3, JobsAssumption DEF IInv, RunnerInv, AtConsole, Started
      <4>2. CASE Started(k)
        BY <4>2, <1>2, <1>3, <2>1, <3>1 DEF AtConsole, Started
      <4> QED BY <4>1, <4>2, <1>3, <3>1, Arrivals
    <3>3. AtConsole' = {k}
      <4>1. ASSUME NEW j \in AtConsole' PROVE on'[runner] = j
        BY <4>1, <1>3 DEF IInv, RunnerInv, AtConsole, Started
      <4> QED BY <4>1, <2>1
    <3> QED BY <3>2, <3>3 DEF Console!Open
  <2>2. ASSUME NEW k \in AtConsole, k \notin AtConsole', AtConsole' \subseteq AtConsole
        PROVE  Console!Close(k, "console")
    <3>1. AtConsole = {k}
      BY <1>2, <1>3, <2>2 DEF AtConsole, Started
    <3>2. AtConsole' = {}
      BY <3>1, <2>2
    <3> QED BY <3>1, <3>2 DEF Console!Close
  <2>3. AtConsole' \subseteq Jobs /\ AtConsole \subseteq Jobs
    BY DEF AtConsole
  <2> QED BY <2>1, <2>2, <2>3 DEF Console!Next
<1> QED BY <1>1, <1>3, InductiveInvariant, PTL DEF Spec, Console!Spec
====
