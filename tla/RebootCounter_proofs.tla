---- MODULE RebootCounter_proofs ----
EXTENDS RebootCounter, TLAPS

(***************************************************************************)
(* Proofs about RebootCounter for any pollers, bounds and faults.          *)
(***************************************************************************)

\* The sample of an idle poll is a telemetry value.
LEMMA OfflineTyped == Offline \in Rows
BY DEF Offline, Rows

\* At the start everything is typed.
LEMMA InitTyped == Init => TypeOK
<1>1. Init => sample \in [Tasks -> Rows] /\ row \in Rows /\ seen \in Rows
  BY OfflineTyped DEF Init
<1>2. Init => /\ pc \in [Tasks -> {"idle", "ssh", "store", "begin", "commit"}]
              /\ prev \in [Tasks -> Nat]
  BY DEF Init
<1>3. Init => boots \in Nat \ {0} /\ uptime \in Nat /\ session \in Nat /\ lifetime \in Nat /\ reboots \in Nat
  BY DEF Init
<1>4. Init => up \in BOOLEAN /\ seeded \in BOOLEAN /\ strayed \in BOOLEAN /\ hidden \in BOOLEAN /\ alive \in SUBSET Tasks /\ writer \in Tasks \cup {None}
  BY ZenonT(20) DEF Init
<1>5. QED
  BY <1>1, <1>2, <1>3, <1>4 DEF TypeOK

\* Every step of a poll, a process or the board keeps the variables typed.
LEMMA TypeStep == TypeOK /\ [Next]_vars => TypeOK'
<1> SUFFICES ASSUME TypeOK, [Next]_vars PROVE TypeOK'
  OBVIOUS
<1> USE CounterAssumption DEF TypeOK, Rows, Offline, Unread, hardware, polls, db, Process,
        Sampled, Return, GiveUp
<1>1. ASSUME NEW t \in Tasks, Start(t) PROVE TypeOK'
  BY <1>1 DEF Start, Tasks
<1>2. ASSUME NEW t \in Tasks, Crash(t) PROVE TypeOK'
  BY <1>2 DEF Crash
<1>3. ASSUME NEW t \in Tasks, PortClosed(t) PROVE TypeOK'
  BY <1>3 DEF PortClosed
<1>4. ASSUME NEW t \in Tasks, PortOpen(t) PROVE TypeOK'
  BY <1>4 DEF PortOpen
<1>5. ASSUME NEW t \in Tasks, SshReturns(t) PROVE TypeOK'
  BY <1>5 DEF SshReturns
<1>6. ASSUME NEW t \in Tasks, SshEmpty(t) PROVE TypeOK'
  BY <1>6 DEF SshEmpty
<1>7. ASSUME NEW t \in Tasks, SshFails(t) \/ Busy(t) PROVE TypeOK'
  <2>1. Return(t) /\ UNCHANGED <<hardware, alive, writer, db>>
    BY <1>7 DEF SshFails, Busy
  <2>2. sample' \in [Tasks -> Rows]
    BY <2>1, OfflineTyped
  <2>3. pc' \in [Tasks -> {"idle", "ssh", "store", "begin", "commit"}] /\ prev' \in [Tasks -> Nat]
    BY <2>1
  <2>4. QED
    BY <2>1, <2>2, <2>3
<1>8. ASSUME NEW t \in Tasks, Select(t) PROVE TypeOK'
  BY <1>8 DEF Select
<1>9. ASSUME NEW t \in Tasks, Begin(t) PROVE TypeOK'
  BY <1>9 DEF Begin
<1>10. ASSUME NEW t \in Tasks, Commit(t) PROVE TypeOK'
  <2>1. row' \in Rows /\ seen' \in Rows /\ sample' \in [Tasks -> Rows]
    BY <1>10, OfflineTyped DEF Commit
  <2>2. session' \in Nat /\ lifetime' \in Nat /\ reboots' \in Nat
    BY <1>10 DEF Commit
  <2>3. pc' \in [Tasks -> {"idle", "ssh", "store", "begin", "commit"}] /\ prev' \in [Tasks -> Nat]
    BY <1>10 DEF Commit
  <2>4. UNCHANGED <<boots, up, uptime, alive, seeded>> /\ writer' \in Tasks \cup {None}
    BY <1>10 DEF Commit
  <2>5. strayed' \in BOOLEAN /\ hidden' \in BOOLEAN
    BY ZenonT(20), <1>10 DEF Commit
  <2>6. QED
    BY <2>1, <2>2, <2>3, <2>4, <2>5
<1>11. CASE Tick \/ Reboot \/ ComeUp
  <2>1. up' \in BOOLEAN
    BY ZenonT(20), <1>11 DEF Tick, Reboot, ComeUp
  <2>2. boots' \in Nat \ {0} /\ uptime' \in Nat /\ UNCHANGED <<alive, polls, writer, db>>
    BY <1>11 DEF Tick, Reboot, ComeUp
  <2>3. QED
    BY <2>1, <2>2
<1>12. CASE UNCHANGED vars
  BY <1>12 DEF vars
<1>13. QED
  BY <1>1, <1>2, <1>3, <1>4, <1>5, <1>6, <1>7, <1>8, <1>9, <1>10, <1>11, <1>12 DEF Next

\* Polls, board and database are always well typed.
THEOREM TypeCorrect == Spec => []TypeOK
BY InitTyped, TypeStep, PTL DEF Spec

----------------------------------------------------------------------------
(* Counters and log *)

\* Before init_db has run nothing polls and nothing is counted.
Unseeded == ~seeded => alive = {} /\ lifetime = 0 /\ session = 0
Alive == \A t \in Tasks : pc[t] # "idle" => t \in alive

LogInv == TypeOK /\ Alive /\ Unseeded /\ LogMatchesCounters

\* Every step preserves the invariant on the counters and the log.
LEMMA LogStep == LogInv /\ [Next]_vars => LogInv'
<1> SUFFICES ASSUME LogInv, [Next]_vars PROVE LogInv'
  OBVIOUS
<1>0. TypeOK'
  BY TypeStep DEF LogInv
<1> USE DEF LogInv, Alive, Unseeded, LogMatchesCounters, hardware, polls, db, Sampled, Return, GiveUp
<1>1. ASSUME NEW t \in Tasks, Start(t) PROVE LogInv'
  BY <1>0, <1>1 DEF Start, Process, TypeOK
<1>2. ASSUME NEW t \in Tasks, Crash(t) PROVE LogInv'
  BY <1>0, <1>2 DEF Crash, Process, TypeOK
<1>3. ASSUME NEW t \in Tasks, PortClosed(t) \/ PortOpen(t) \/ SshReturns(t) \/ SshEmpty(t) \/ SshFails(t)
      PROVE  LogInv'
  BY <1>0, <1>3 DEF PortClosed, PortOpen, SshReturns, SshEmpty, SshFails, TypeOK
<1>4. ASSUME NEW t \in Tasks, Select(t) \/ Begin(t) \/ Busy(t) PROVE LogInv'
  BY <1>0, <1>4 DEF Select, Begin, Busy, TypeOK
<1>5. ASSUME NEW t \in Tasks, Commit(t) PROVE LogInv'
  BY <1>0, <1>5 DEF Commit, TypeOK
<1>6. CASE Tick \/ Reboot \/ ComeUp
  BY <1>0, <1>6 DEF Tick, Reboot, ComeUp
<1>7. CASE UNCHANGED vars
  BY <1>0, <1>7 DEF vars
<1>8. QED
  BY <1>1, <1>2, <1>3, <1>4, <1>5, <1>6, <1>7 DEF Next

\* The invariant on the counters and the log holds in every reachable state.
LEMMA LogInvariance == Spec => []LogInv
<1>1. Init => LogInv
  BY InitTyped DEF Init, LogInv, Alive, Unseeded, LogMatchesCounters
<1>2. QED
  BY <1>1, LogStep, PTL DEF Spec

\* Counters and event log agree whatever crashes and however many pollers write.
THEOREM LogMatchesCountersHolds == Spec => []LogMatchesCounters
<1>1. LogInv => LogMatchesCounters
  BY DEF LogInv
<1>2. QED
  BY <1>1, LogInvariance, PTL

----------------------------------------------------------------------------
(* Any pollers: what it takes to overcount *)

\* What is read from the board, or stored with an uptime, names a boot of it.
BootsKnown ==
    /\ \A t \in Tasks : sample[t].boot <= boots /\ (sample[t].uptime > 0 => sample[t].boot > 0)
    /\ seen.boot <= boots /\ (seen.uptime > 0 => seen.boot > 0)

\* In turn, the counter is at most the boot of the last uptime stored.
TurnInv ==
    /\ TypeOK /\ BootsKnown
    /\ row.uptime > 0 => row = seen
    /\ ~strayed => lifetime <= (IF seen.uptime > 0 THEN seen.boot ELSE 1)

\* Every step keeps the counter at most that far, until a sample is stored out
\* of turn: the last uptime stored is the previous uptime of every commit.
LEMMA TurnStep == TurnInv /\ [Next]_vars => TurnInv'
<1> SUFFICES ASSUME TurnInv, [Next]_vars PROVE TurnInv'
  OBVIOUS
<1>0. TypeOK'
  BY TypeStep DEF TurnInv
<1> USE DEF TurnInv, BootsKnown, Unread, Offline, Rows, hardware, polls, db, Sampled, Return, GiveUp
<1>1. ASSUME NEW t \in Tasks, Start(t) PROVE TurnInv'
  BY <1>0, <1>1 DEF Start, TypeOK
<1>2. ASSUME NEW t \in Tasks, Crash(t) PROVE TurnInv'
  BY <1>0, <1>2 DEF Crash, TypeOK
<1>3. ASSUME NEW t \in Tasks, PortClosed(t) \/ PortOpen(t) PROVE TurnInv'
  BY <1>0, <1>3 DEF PortClosed, PortOpen, TypeOK
<1>4. ASSUME NEW t \in Tasks, SshReturns(t) \/ SshEmpty(t) PROVE TurnInv'
  BY <1>0, <1>4 DEF SshReturns, SshEmpty, TypeOK
<1>5. ASSUME NEW t \in Tasks, SshFails(t) \/ Busy(t) PROVE TurnInv'
  <2>1. GiveUp(t)
    BY <1>5 DEF SshFails, Busy
  <2>2. UNCHANGED <<boots, row, seen, strayed, lifetime>> /\ sample' = [sample EXCEPT ![t] = Offline]
    BY <2>1
  <2>3. BootsKnown'
    BY <2>2 DEF TypeOK
  <2>4. QED
    BY <1>0, <2>2, <2>3
<1>6. ASSUME NEW t \in Tasks, Select(t) \/ Begin(t) PROVE TurnInv'
  BY <1>0, <1>6 DEF Select, Begin, TypeOK
<1>7. ASSUME NEW t \in Tasks, Commit(t) PROVE TurnInv'
  <2>1. row' = sample[t] /\ UNCHANGED boots
    BY <1>7 DEF Commit
  <2>2. seen' = (IF sample[t].uptime > 0 THEN sample[t] ELSE seen) /\ row' \in Rows /\ seen' \in Rows
    BY <1>7 DEF Commit, TypeOK
  <2>3. BootsKnown' /\ (row'.uptime > 0 => row' = seen')
    BY <1>7, <2>1, <2>2 DEF Commit, TypeOK
  <2>4. ASSUME ~strayed'
        PROVE  lifetime' <= (IF seen'.uptime > 0 THEN seen'.boot ELSE 1)
    <3>1. ~strayed /\ ~Strays(t)
      <4>1. strayed' = IF Strays(t) THEN TRUE ELSE strayed
        BY <1>7 DEF Commit
      <4>2. QED
        BY <2>4, <4>1
    <3>2. sample[t].uptime > 0 /\ seen.uptime > 0 =>
            seen.boot <= sample[t].boot
            /\ (sample[t].uptime < seen.uptime => seen.boot < sample[t].boot)
      <4>1. sample[t] \in Rows /\ seen \in Rows
        BY DEF TypeOK
      <4>2. ~(/\ sample[t].uptime > 0 /\ seen.uptime > 0
              /\ \/ sample[t].boot < seen.boot
                 \/ sample[t].boot = seen.boot /\ sample[t].uptime < seen.uptime)
        BY <3>1 DEF Strays
      <4>3. QED
        BY <4>1, <4>2
    <3>3. CASE DetectsReboot(t)
      <4>1. lifetime' = lifetime + 1
        BY <1>7, <3>3 DEF Commit
      <4>2. row.uptime > 0 /\ sample[t].uptime > 0 /\ sample[t].uptime < row.uptime
        BY <3>1, <3>3 DEF DetectsReboot, Strays, TypeOK
      <4>3. QED
        BY <2>2, <3>1, <3>2, <4>1, <4>2 DEF TypeOK
    <3>4. CASE ~DetectsReboot(t)
      BY <1>7, <2>2, <3>1, <3>2, <3>4 DEF Commit, TypeOK
    <3>5. QED
      BY <3>3, <3>4
  <2>5. QED
    BY <1>0, <2>3, <2>4
<1>8. CASE Tick \/ Reboot \/ ComeUp
  BY <1>0, <1>8 DEF Tick, Reboot, ComeUp, TypeOK
<1>9. CASE UNCHANGED vars
  BY <1>0, <1>9 DEF vars
<1>10. QED
  BY <1>1, <1>2, <1>3, <1>4, <1>5, <1>6, <1>7, <1>8, <1>9 DEF Next

\* Any number of tasks and processes, crashes and empty answers included: the
\* counter is right until one of the three orders named in Strays happens.
THEOREM OnlyStraysOvercountHolds == Spec => []OnlyStraysOvercount
<1>1. Init => TurnInv
  BY InitTyped DEF Init, TurnInv, BootsKnown, Offline
<1>2. TurnInv => OnlyStraysOvercount
  BY DEF TurnInv, BootsKnown, OnlyStraysOvercount, NeverOvercounts, TypeOK, Rows
<1>3. QED
  BY <1>1, <1>2, TurnStep, PTL DEF Spec

----------------------------------------------------------------------------
(* Any pollers: what it takes to miss a reboot *)

\* Until a sample strays or hides a reboot, the row has the last uptime and the
\* counter the boot it was read in.
ExactInv ==
    /\ LogInv /\ TurnInv
    /\ \A t \in Tasks : sample[t].uptime > 0 => sample[t].online
    /\ seen.uptime = 0 => seen.boot = 0
    /\ ~seeded => seen.uptime = 0
    /\ ~strayed /\ ~hidden =>
         /\ row.uptime = seen.uptime
         /\ seeded => lifetime = (IF seen.uptime > 0 THEN seen.boot ELSE 1)

\* Every step keeps the count exact until a sample strays or hides a reboot.
LEMMA ExactStep == ExactInv /\ [Next]_vars => ExactInv'
<1> SUFFICES ASSUME ExactInv, [Next]_vars PROVE ExactInv'
  OBVIOUS
<1>0. LogInv' /\ TurnInv' /\ TypeOK
  BY LogStep, TurnStep DEF ExactInv, LogInv
<1> USE DEF ExactInv, Unread, Offline, Rows, hardware, polls, db, Sampled, Return, GiveUp
<1>1. ASSUME NEW t \in Tasks, Start(t) PROVE ExactInv'
  BY <1>0, <1>1 DEF Start, TypeOK
<1>2. ASSUME NEW t \in Tasks, Crash(t) PROVE ExactInv'
  BY <1>0, <1>2 DEF Crash, TypeOK
<1>3. ASSUME NEW t \in Tasks, PortClosed(t) \/ PortOpen(t) \/ SshReturns(t) \/ SshEmpty(t) PROVE ExactInv'
  BY <1>0, <1>3 DEF PortClosed, PortOpen, SshReturns, SshEmpty, TypeOK
<1>4. ASSUME NEW t \in Tasks, SshFails(t) \/ Busy(t) PROVE ExactInv'
  BY <1>0, <1>4 DEF SshFails, Busy, TypeOK
<1>5. ASSUME NEW t \in Tasks, Select(t) \/ Begin(t) PROVE ExactInv'
  BY <1>0, <1>5 DEF Select, Begin, TypeOK
<1>6. ASSUME NEW t \in Tasks, Commit(t) PROVE ExactInv'
  <2>1. /\ row' = sample[t] /\ sample' = [sample EXCEPT ![t] = Offline] /\ UNCHANGED seeded
        /\ seen' = (IF sample[t].uptime > 0 THEN sample[t] ELSE seen)
        /\ sample[t] \in Rows /\ seen \in Rows /\ lifetime \in Nat /\ pc[t] = "commit"
    BY <1>0, <1>6 DEF Commit, TypeOK
  <2>2. seeded
    BY <2>1 DEF LogInv, Alive, Unseeded
  <2>3. \A u \in Tasks : sample'[u].uptime > 0 => sample'[u].online
    BY <1>0, <2>1 DEF TypeOK
  <2>4. seen'.uptime = 0 => seen'.boot = 0
    BY <2>1
  <2>5. ASSUME ~strayed', ~hidden'
        PROVE  row'.uptime = seen'.uptime /\ lifetime' = (IF seen'.uptime > 0 THEN seen'.boot ELSE 1)
    <3>1. ~strayed /\ ~Strays(t)
      <4>1. strayed' = IF Strays(t) THEN TRUE ELSE strayed
        BY <1>6 DEF Commit
      <4> QED BY <2>5, <4>1
    <3>2. ~hidden /\ ~Hides(t)
      <4>1. hidden' = IF Hides(t) THEN TRUE ELSE hidden
        BY <1>6 DEF Commit
      <4> QED BY <2>5, <4>1
    <3>3. /\ prev[t] = seen.uptime /\ (sample[t].online => sample[t].uptime # 0)
          /\ lifetime = (IF seen.uptime > 0 THEN seen.boot ELSE 1)
      BY <2>2, <3>1, <3>2 DEF Strays
    <3>4. CASE sample[t].uptime = 0
      <4>1. seen.uptime = 0
        BY <2>1, <3>2, <3>4 DEF Hides
      <4>2. lifetime' = lifetime
        <5>1. ~DetectsReboot(t)
          BY Zenon, <3>3, <3>4 DEF DetectsReboot
        <5> QED BY Zenon, <1>6, <5>1 DEF Commit
      <4> QED BY <2>1, <3>3, <3>4, <4>1, <4>2
    <3>5. CASE sample[t].uptime > 0
      <4>1. /\ sample[t].online
            /\ \/ sample[t].boot = seen.boot /\ (seen.uptime > 0 => seen.uptime <= sample[t].uptime)
               \/ sample[t].boot = seen.boot + 1 /\ (seen.uptime > 0 => sample[t].uptime < seen.uptime)
        BY <2>1, <3>1, <3>2, <3>5 DEF Strays, Hides
      <4>2. CASE DetectsReboot(t)
        <5>1. lifetime' = lifetime + 1
          BY Zenon, <1>6, <4>2 DEF Commit
        <5>2. seen.uptime > 0 /\ sample[t].uptime < seen.uptime
          BY <3>3, <4>2 DEF DetectsReboot
        <5> QED BY <2>1, <3>3, <3>5, <4>1, <5>1, <5>2
      <4>3. CASE ~DetectsReboot(t)
        <5>1. lifetime' = lifetime
          BY Zenon, <1>6, <4>3 DEF Commit
        <5>2. seen.uptime = 0 \/ ~(sample[t].uptime < seen.uptime)
          BY <2>1, <3>3, <4>1, <4>3 DEF DetectsReboot
        <5>3. seen.uptime = 0 => sample[t].boot \in {0, 1}
          BY <4>1
        <5>4. sample[t].boot > 0
          BY <3>5 DEF TurnInv, BootsKnown
        <5> QED BY <2>1, <3>3, <3>5, <4>1, <5>1, <5>2, <5>3, <5>4
      <4> QED BY <4>2, <4>3
    <3> QED BY <2>1, <3>4, <3>5
  <2> QED BY <1>0, <2>1, <2>2, <2>3, <2>4, <2>5
<1>7. CASE Tick \/ Reboot \/ ComeUp
  BY <1>0, <1>7 DEF Tick, Reboot, ComeUp, TypeOK
<1>8. CASE UNCHANGED vars
  BY <1>0, <1>8 DEF vars
<1> QED BY <1>1, <1>2, <1>3, <1>4, <1>5, <1>6, <1>7, <1>8 DEF Next

\* Any number of tasks and processes: no reboot is missed until one of the gaps
\* named in Hides, or one of the orders named in Strays.
THEOREM CountsWhatItSeesHolds == Spec => []CountsWhatItSees
<1>1. Init => ExactInv
  BY InitTyped DEF Init, ExactInv, TurnInv, BootsKnown, LogInv, Alive, Unseeded, LogMatchesCounters, Offline
<1>2. ExactInv => CountsWhatItSees
  <2> SUFFICES ASSUME ExactInv, ~strayed, ~hidden, seen.uptime > 0 PROVE lifetime = seen.boot
    BY DEF CountsWhatItSees
  <2> QED BY DEF ExactInv
<1> QED BY <1>1, <1>2, ExactStep, PTL DEF Spec

----------------------------------------------------------------------------
(* One poller *)

\* The poller's place, in terms of the stored row, the sample at hand and the
\* board: boots read later are younger, and uptimes of one boot only grow.
Younger(v, w) == v.boot < w.boot \/ (v.boot = w.boot /\ v.uptime <= w.uptime)

\* v was read from the board, now or earlier.
OfBoard(v) ==
    v.boot < boots \/ (v.boot = boots /\ up /\ v.uptime <= uptime)

\* Every boot counted is at or before the one whose uptime v holds; an online
\* sample without uptime comes from a board that has rebooted since.
Accounted(v) == v.uptime > 0 => lifetime <= v.boot /\ OfBoard(v)

SampleInv(t) ==
    /\ pc[t] = "ssh" => sample[t].boot <= boots /\ sample[t].uptime = 0
    /\ pc[t] # "idle" /\ row.uptime > 0 /\ (pc[t] = "ssh" \/ sample[t].uptime > 0)
         => row.boot <= sample[t].boot
    /\ pc[t] \in {"store", "begin", "commit"} =>
         /\ Accounted(sample[t])
         /\ row.uptime > 0 /\ sample[t].uptime > 0 => Younger(row, sample[t])
         /\ row.uptime > 0 /\ sample[t].online /\ sample[t].uptime = 0 => row.boot < boots
    /\ pc[t] \in {"begin", "commit"} => prev[t] = row.uptime

CountInv ==
    /\ TypeOK /\ Alive
    /\ lifetime <= boots /\ (up => uptime > 0)
    /\ ~seeded => alive = {} /\ lifetime = 0 /\ row.uptime = 0
    /\ Accounted(row)
    /\ \A t \in Tasks : SampleInv(t)

\* With one poller, whose ssh prints nothing only when the board goes down, a
\* step adds to the counter at most once for each boot.
LEMMA CountStep ==
    ASSUME "emptyssh" \notin Faults, NEW t0, Tasks = {t0}, CountInv, [Next]_vars
    PROVE  CountInv'
<1>0. TypeOK'
  BY TypeStep DEF CountInv
<1>1. Next \/ UNCHANGED vars
  OBVIOUS
<1> USE DEF CountInv, Alive, SampleInv, Accounted, Younger, OfBoard, Unread, Offline, Rows,
        hardware, polls, db, Sampled, Return, GiveUp
<1>2. CASE Start(t0)
  BY <1>0, <1>2 DEF Start, Process, TypeOK
<1>3. CASE Crash(t0)
  BY <1>0, <1>3 DEF Crash, Process, TypeOK
<1>4. CASE PortClosed(t0)
  BY <1>0, <1>4 DEF PortClosed, TypeOK
<1>5. CASE PortOpen(t0)
  BY <1>0, <1>5 DEF PortOpen, TypeOK
<1>6. CASE SshReturns(t0)
  BY <1>0, <1>6 DEF SshReturns, TypeOK
<1>7. CASE SshEmpty(t0)
  BY <1>0, <1>7 DEF SshEmpty, TypeOK
<1>8. CASE GiveUp(t0)
  BY <1>0, <1>8 DEF TypeOK
<1>9. CASE Select(t0)
  BY <1>0, <1>9 DEF Select, TypeOK
<1>10. CASE Begin(t0)
  BY <1>0, <1>10 DEF Begin, TypeOK
<1>11. CASE Commit(t0)
  <2>1. /\ pc'[t0] = "idle" /\ row' = sample[t0] /\ sample[t0] \in Rows /\ row \in Rows
        /\ UNCHANGED <<boots, up, uptime, alive, seeded>>
    BY <1>11 DEF Commit, TypeOK
  <2>2. t0 \in alive /\ seeded /\ Accounted(sample[t0]) /\ prev[t0] = row.uptime
    BY <1>11 DEF Commit, TypeOK
  <2>3. Alive' /\ \A t \in Tasks : SampleInv(t)'
    BY <2>1, <2>2
  <2>4. CASE DetectsReboot(t0)
    <3>1. lifetime' = lifetime + 1
      BY Zenon, <1>11, <2>4 DEF Commit
    <3>2. row.uptime > 0 /\ sample[t0].uptime < row.uptime /\ sample[t0].online
      BY <2>2, <2>4 DEF DetectsReboot
    <3>3. row.boot < boots /\ (sample[t0].uptime > 0 => row.boot < sample[t0].boot)
      BY <1>11, <3>2 DEF Commit, TypeOK
    <3>4. lifetime <= row.boot
      BY <3>2
    <3>5. lifetime' <= boots /\ (sample[t0].uptime > 0 => lifetime' <= sample[t0].boot)
      BY <2>1, <3>1, <3>3, <3>4 DEF TypeOK
    <3>6. Accounted(row)'
      BY <2>1, <2>2, <3>5
    <3>7. QED
      BY <1>0, <2>1, <2>2, <2>3, <3>5, <3>6
  <2>5. CASE ~DetectsReboot(t0)
    <3>1. UNCHANGED lifetime
      BY Zenon, <1>11, <2>5 DEF Commit
    <3>2. QED
      BY <1>0, <2>1, <2>2, <2>3, <3>1
  <2>6. QED
    BY <2>4, <2>5
<1>12. CASE Tick
  BY <1>0, <1>12 DEF Tick, TypeOK
<1>13. CASE Reboot
  BY <1>0, <1>13 DEF Reboot, TypeOK
<1>14. CASE ComeUp
  BY <1>0, <1>14 DEF ComeUp, TypeOK
<1>15. CASE UNCHANGED vars
  BY <1>0, <1>15 DEF vars
<1>16. QED
  BY <1>1, <1>2, <1>3, <1>4, <1>5, <1>6, <1>7, <1>8, <1>9, <1>10, <1>11, <1>12, <1>13, <1>14,
     <1>15 DEF Next, SshFails, Busy

\* A hub whose only poller is the scheduler, on boards whose ssh answers are
\* never empty, counts no reboot that did not happen, through any crash.
THEOREM NeverOvercountsHolds ==
    ASSUME "emptyssh" \notin Faults, NEW t0, Tasks = {t0}
    PROVE  Spec => []NeverOvercounts
<1>1. Init => CountInv
  BY InitTyped DEF Init, CountInv, Offline, Alive, Accounted, OfBoard, SampleInv
<1>2. CountInv /\ [Next]_vars => CountInv'
  BY CountStep
<1>3. CountInv => NeverOvercounts
  BY DEF CountInv, NeverOvercounts
<1>4. QED
  BY <1>1, <1>2, <1>3, PTL DEF Spec
====
