---- MODULE NetbootSession_proofs ----
EXTENDS NetbootSession, TLAPS

(***************************************************************************)
(* Proofs about NetbootSession, for any sessions, places and --place       *)
(* options.  The inductive invariant IInv says who owns which lock at each *)
(* label of the session; the exclusion results follow from it.             *)
(***************************************************************************)

----------------------------------------------------------------------------
(* Type correctness *)

\* Every step of a session, a thread, a board or the coordinator keeps the
\* variables in their types.
LEMMA TypeStep == TypeOK /\ [Next]_vars => TypeOK'
<1> SUFFICES ASSUME TypeOK, [Next]_vars PROVE TypeOK'
  OBVIOUS
<1> USE SessionAssumption DEF TypeOK, Labels, Modes, coordinator, locals, Go, Fail, Unwind,
        CallFailed, SetBoard, ResetBoard, Grant, Unlock
<1>1. ASSUME NEW s \in Sessions, SessionStep(s) PROVE TypeOK'
  <2>1. CASE MissingArtifact(s)
    BY <2>1, <1>1 DEF MissingArtifact
  <2>2. CASE UsePlace(s)
    BY <2>2, <1>1 DEF UsePlace
  <2>3. CASE Reserve(s)
    BY <2>3, <1>1 DEF Reserve
  <2>4. CASE ReserveReturns(s)
    BY <2>4, <1>1 DEF ReserveReturns
  <2>5. CASE ReserveTimesOut(s)
    BY <2>5, <1>1 DEF ReserveTimesOut
  <2>6. CASE Resolve(s)
    BY <2>6, <1>1 DEF Resolve
  <2>7. CASE ResolveFails(s)
    BY <2>7, <1>1 DEF ResolveFails
  <2>8. CASE Acquire(s)
    BY <2>8, <1>1 DEF Acquire
  <2>9. CASE AcquireRefused(s)
    BY <2>9, <1>1 DEF AcquireRefused
  <2>10. CASE AcquireCutOff(s)
    BY <2>10, <1>1 DEF AcquireCutOff
  <2>11. CASE OpenConsole(s)
    BY <2>11, <1>1 DEF OpenConsole
  <2>12. CASE OpenFails(s)
    BY <2>12, <1>1 DEF OpenFails
  <2>13. CASE InterceptKey(s)
    BY <2>13, <1>1 DEF InterceptKey
  <2>14. CASE InterceptPrompt(s)
    BY <2>14, <1>1 DEF InterceptPrompt
  <2>15. CASE InterceptTimesOut(s)
    BY <2>15, <1>1 DEF InterceptTimesOut
  <2>16. CASE SerialError(s)
    BY <2>16, <1>1 DEF SerialError
  <2>17. CASE BootRam(s)
    BY <2>17, <1>1 DEF BootRam
  <2>18. CASE CommandFails(s)
    BY <2>18, <1>1 DEF CommandFails
  <2>19. CASE LoginSeen(s)
    BY <2>19, <1>1 DEF LoginSeen
  <2>20. CASE ProbeSeen(s)
    BY <2>20, <1>1 DEF ProbeSeen
  <2>21. CASE BootTimesOut(s)
    BY <2>21, <1>1 DEF BootTimesOut
  <2>22. CASE CheckFails(s)
    BY <2>22, <1>1 DEF CheckFails
  <2>23. CASE RebootToDebian(s)
    BY <2>23, <1>1 DEF RebootToDebian
  <2>24. CASE RestoreSeen(s)
    BY <2>24, <1>1 DEF RestoreSeen
  <2>25. CASE RestoreTimesOut(s)
    BY <2>25, <1>1 DEF RestoreTimesOut
  <2>26. CASE Recover(s)
    BY <2>26, <1>1 DEF Recover
  <2>27. CASE Release(s)
    BY <2>27, <1>1 DEF Release
  <2>28. CASE ReleaseIgnored(s)
    BY <2>28, <1>1 DEF ReleaseIgnored
  <2>29. CASE ReleaseCutOff(s)
    BY <2>29, <1>1 DEF ReleaseCutOff
  <2>30. CASE Cancel(s)
    BY <2>30, <1>1 DEF Cancel
  <2>31. CASE CancelFails(s)
    BY <2>31, <1>1 DEF CancelFails
  <2>32. CASE InterceptEnds(s)
    BY <2>32, <1>1 DEF InterceptEnds
  <2>33. CASE RunCommand(s)
    BY <2>33, <1>1 DEF RunCommand
  <2>34. QED
    BY <1>1, <2>1, <2>2, <2>3, <2>4, <2>5, <2>6, <2>7, <2>8, <2>9, <2>10, <2>11, <2>12, <2>13, <2>14, <2>15, <2>16, <2>17, <2>18, <2>19, <2>20, <2>21, <2>22, <2>23, <2>24, <2>25, <2>26, <2>27, <2>28, <2>29, <2>30, <2>31, <2>32, <2>33 DEF SessionStep
<1>2. ASSUME NEW s \in Sessions, TriggerUart(s) PROVE TypeOK'
  BY <1>2 DEF TriggerUart
<1>3. ASSUME NEW s \in Sessions, TriggerSsh(s) PROVE TypeOK'
  BY <1>3 DEF TriggerSsh
<1>4. ASSUME NEW s \in Sessions, Kill(s) PROVE TypeOK'
  BY <1>4 DEF Kill
<1>5. ASSUME NEW s \in Sessions, Expire(s) PROVE TypeOK'
  BY <1>5 DEF Expire
<1>6. ASSUME NEW s \in Sessions, NEW p \in Places, Allocate(s, p) PROVE TypeOK'
  BY <1>6 DEF Allocate
<1>7. ASSUME NEW p \in Places, BoardStep(p) PROVE TypeOK'
  BY <1>7 DEF BoardStep, Advance, CommandEnds, FirmwareUp, AutobootExpires, DebianUp, RamUp, RamPanics
<1>8. CASE UNCHANGED vars
  BY <1>8 DEF vars
<1>9. QED
  BY <1>1, <1>2, <1>3, <1>4, <1>5, <1>6, <1>7, <1>8 DEF Next, TriggerStep

\* Every reachable state of the sessions, boards and coordinator is well typed.
THEOREM TypeCorrect == Spec => []TypeOK
<1>1. Init => TypeOK
  BY SessionAssumption DEF Init, TypeOK, Modes, Labels
<1>2. QED
  BY <1>1, TypeStep, PTL DEF Spec

----------------------------------------------------------------------------
(* The inductive invariant *)

\* The coordinator knows the place of every reservation it has served.
AllocKnown == \A s \in Sessions : resv[s] \in {"allocated", "acquired"} => alloc[s] \in Places

\* A session past _resolve_place_endpoints knows its place and its device.
PlaceKnown == \A s \in Sessions :
    /\ pc[s] \in {"acquire"} \cup Using => place[s] \in Places /\ tty[s] \in Places
    /\ pc[s] = "resolve" /\ ~token[s] => place[s] \in Places

\* The locals token, acquired and tty are still unset early in the session.
NotYet == \A s \in Sessions :
    /\ pc[s] \in {"start", "reserve", "resolve", "acquire"} => ~acquired[s]
    /\ pc[s] \in {"start", "reserve"} => ~token[s]
    /\ pc[s] \in {"start", "reserve", "resolve"} => tty[s] = None
    /\ pc[s] = "dead" => cut[s]

\* Unless a call of its was cut off, a session's lock is the one it knows of.
LockAccounted == \A s \in Sessions : ~cut[s] =>
    \A p \in Places : lock[p] = s => p = place[s] /\ pc[s] \in Using

\* ... and its reservation is gone when it ends.
ResvAccounted == \A s \in Sessions :
    ~cut[s] /\ pc[s] = "done" /\ token[s] => resv[s] = "none"

IInv ==
    /\ TypeOK /\ AllocKnown /\ PlaceKnown /\ NotYet
    /\ LockDiscipline /\ LockAccounted /\ ResvAccounted

\* Every step preserves the invariant.
LEMMA InvStep == IInv /\ [Next]_vars => IInv'
<1> SUFFICES ASSUME IInv, [Next]_vars PROVE IInv'
  OBVIOUS
<1>0. TypeOK'
  BY TypeStep DEF IInv
<1> USE SessionAssumption DEF IInv, TypeOK, AllocKnown, PlaceKnown, NotYet, LockDiscipline, LockAccounted,
        ResvAccounted, Using, AtConsole, coordinator, locals, Go, Fail, Unwind, CallFailed,
        SetBoard, ResetBoard, Grant, Unlock
<1>1. ASSUME NEW s \in Sessions, SessionStep(s) PROVE IInv'
  <2>1. CASE MissingArtifact(s)
    BY <2>1, <1>0 DEF MissingArtifact
  <2>2. CASE UsePlace(s)
    BY <2>2, <1>0 DEF UsePlace
  <2>3. CASE Reserve(s)
    BY <2>3, <1>0 DEF Reserve
  <2>4. CASE ReserveReturns(s)
    BY <2>4, <1>0 DEF ReserveReturns
  <2>5. CASE ReserveTimesOut(s)
    BY <2>5, <1>0 DEF ReserveTimesOut
  <2>6. CASE Resolve(s)
    BY <2>6, <1>0 DEF Resolve
  <2>7. CASE ResolveFails(s)
    BY <2>7, <1>0 DEF ResolveFails
  <2>8. CASE Acquire(s)
    BY <2>8, <1>0 DEF Acquire
  <2>9. CASE AcquireRefused(s)
    BY <2>9, <1>0 DEF AcquireRefused
  <2>10. CASE AcquireCutOff(s)
    BY <2>10, <1>0 DEF AcquireCutOff
  <2>11. CASE OpenConsole(s)
    BY <2>11, <1>0 DEF OpenConsole
  <2>12. CASE OpenFails(s)
    BY <2>12, <1>0 DEF OpenFails
  <2>13. CASE InterceptKey(s)
    BY <2>13, <1>0 DEF InterceptKey
  <2>14. CASE InterceptPrompt(s)
    BY <2>14, <1>0 DEF InterceptPrompt
  <2>15. CASE InterceptTimesOut(s)
    BY <2>15, <1>0 DEF InterceptTimesOut
  <2>16. CASE SerialError(s)
    BY <2>16, <1>0 DEF SerialError
  <2>17. CASE BootRam(s)
    BY <2>17, <1>0 DEF BootRam
  <2>18. CASE CommandFails(s)
    BY <2>18, <1>0 DEF CommandFails
  <2>19. CASE LoginSeen(s)
    BY <2>19, <1>0 DEF LoginSeen
  <2>20. CASE ProbeSeen(s)
    BY <2>20, <1>0 DEF ProbeSeen
  <2>21. CASE BootTimesOut(s)
    BY <2>21, <1>0 DEF BootTimesOut
  <2>22. CASE CheckFails(s)
    BY <2>22, <1>0 DEF CheckFails
  <2>23. CASE RebootToDebian(s)
    BY <2>23, <1>0 DEF RebootToDebian
  <2>24. CASE RestoreSeen(s)
    BY <2>24, <1>0 DEF RestoreSeen
  <2>25. CASE RestoreTimesOut(s)
    BY <2>25, <1>0 DEF RestoreTimesOut
  <2>26. CASE Recover(s)
    BY <2>26, <1>0 DEF Recover
  <2>27. CASE Release(s)
    BY <2>27, <1>0 DEF Release
  <2>28. CASE ReleaseIgnored(s)
    BY <2>28, <1>0 DEF ReleaseIgnored
  <2>29. CASE ReleaseCutOff(s)
    BY <2>29, <1>0 DEF ReleaseCutOff
  <2>30. CASE Cancel(s)
    BY <2>30, <1>0 DEF Cancel
  <2>31. CASE CancelFails(s)
    BY <2>31, <1>0 DEF CancelFails
  <2>32. CASE InterceptEnds(s)
    BY <2>32, <1>0 DEF InterceptEnds
  <2>33. CASE RunCommand(s)
    BY <2>33, <1>0 DEF RunCommand
  <2>34. QED
    BY <1>1, <2>1, <2>2, <2>3, <2>4, <2>5, <2>6, <2>7, <2>8, <2>9, <2>10, <2>11, <2>12, <2>13, <2>14, <2>15, <2>16, <2>17, <2>18, <2>19, <2>20, <2>21, <2>22, <2>23, <2>24, <2>25, <2>26, <2>27, <2>28, <2>29, <2>30, <2>31, <2>32, <2>33 DEF SessionStep
<1>2. ASSUME NEW s \in Sessions, TriggerUart(s) PROVE IInv'
  BY <1>2, <1>0 DEF TriggerUart
<1>3. ASSUME NEW s \in Sessions, TriggerSsh(s) PROVE IInv'
  BY <1>3, <1>0 DEF TriggerSsh
<1>4. ASSUME NEW s \in Sessions, Kill(s) PROVE IInv'
  BY <1>4, <1>0 DEF Kill
<1>5. ASSUME NEW s \in Sessions, Expire(s) PROVE IInv'
  BY <1>5, <1>0 DEF Expire
<1>6. ASSUME NEW s \in Sessions, NEW p \in Places, Allocate(s, p) PROVE IInv'
  BY <1>6, <1>0 DEF Allocate
<1>7. ASSUME NEW p \in Places, BoardStep(p) PROVE IInv'
  BY <1>7, <1>0 DEF BoardStep, Advance, CommandEnds, FirmwareUp, AutobootExpires, DebianUp, RamUp, RamPanics
<1>8. CASE UNCHANGED vars
  BY <1>8, <1>0 DEF vars
<1>9. QED
  BY <1>1, <1>2, <1>3, <1>4, <1>5, <1>6, <1>7, <1>8 DEF Next, TriggerStep

\* The invariant holds in every reachable state.
LEMMA Invariance == Spec => []IInv
<1>1. Init => IInv
  BY SessionAssumption DEF Init, IInv, TypeOK, Modes, Labels, AllocKnown, PlaceKnown, NotYet,
     LockDiscipline, LockAccounted, ResvAccounted, Using, AtConsole
<1>2. QED
  BY <1>1, InvStep, PTL DEF Spec

\* A session that uses its board owns the lock of the place, whatever fails.
THEOREM LockDisciplineHolds == Spec => []LockDiscipline
<1>1. IInv => LockDiscipline
  BY DEF IInv
<1>2. QED
  BY <1>1, Invariance, PTL

\* A finished session has left a lock or a reservation behind only if one of
\* its labgrid-client calls was cut off.
THEOREM LeakOnlyIfCutHolds == Spec => []LeakOnlyIfCut
<1>1. IInv => LeakOnlyIfCut
  BY DEF IInv, LeakOnlyIfCut, LockAccounted, ResvAccounted, Using
<1>2. QED
  BY <1>1, Invariance, PTL

----------------------------------------------------------------------------
(* Exclusive use of the consoles, when every place publishes its serial path *)

\* The session's console is the one of the place it has locked.
Endpoints == \A s \in Sessions :
    /\ tty[s] # None => tty[s] = place[s]
    /\ cons[s] # None => cons[s] = place[s]

\* Only these steps open or close a console, or change what a session resolved.
LEMMA ConsoleSteps ==
    ASSUME Next
    PROVE  \/ UNCHANGED <<place, tty, cons>>
           \/ \E s \in Sessions : UsePlace(s) \/ Resolve(s) \/ OpenConsole(s) \/ Recover(s) \/ Kill(s)
<1> USE DEF locals
<1>1. ASSUME NEW s \in Sessions, SessionStep(s)
      PROVE  UNCHANGED <<place, tty, cons>> \/ UsePlace(s) \/ Resolve(s) \/ OpenConsole(s) \/ Recover(s)
  BY <1>1 DEF SessionStep, MissingArtifact, Reserve, ReserveReturns, ReserveTimesOut,
     ResolveFails, Acquire, AcquireRefused, AcquireCutOff, OpenFails, InterceptKey,
     InterceptPrompt, InterceptEnds, InterceptTimesOut, SerialError, RunCommand, BootRam, CommandFails, LoginSeen,
     ProbeSeen, BootTimesOut, CheckFails, RebootToDebian, RestoreSeen, RestoreTimesOut,
     Release, ReleaseIgnored, ReleaseCutOff, Cancel, CancelFails
<1>2. ASSUME NEW s \in Sessions, TriggerStep(s) \/ Expire(s)
      PROVE  UNCHANGED <<place, tty, cons>>
  BY <1>2 DEF TriggerStep, TriggerUart, TriggerSsh, Expire
<1>3. ASSUME NEW s \in Sessions, NEW p \in Places, Allocate(s, p)
      PROVE  UNCHANGED <<place, tty, cons>>
  BY <1>3 DEF Allocate
<1>4. ASSUME NEW p \in Places, BoardStep(p)
      PROVE  UNCHANGED <<place, tty, cons>>
  BY <1>4 DEF BoardStep, Advance, CommandEnds, FirmwareUp, AutobootExpires, DebianUp, RamUp, RamPanics
<1>5. QED
  BY <1>1, <1>2, <1>3, <1>4 DEF Next

\* With a path in every place's resources, every step keeps the console a
\* session has resolved that of the place it resolved.
LEMMA EndpointsStep ==
    ASSUME "path" \notin Faults, IInv, Endpoints, [Next]_vars
    PROVE  Endpoints'
<1>1. CASE UNCHANGED <<place, tty, cons>>
  BY <1>1 DEF Endpoints
<1>2. ASSUME NEW s \in Sessions,
             UsePlace(s) \/ Resolve(s) \/ OpenConsole(s) \/ Recover(s) \/ Kill(s)
      PROVE  Endpoints'
  <2> USE SessionAssumption DEF Endpoints, IInv, TypeOK, LockDiscipline, NotYet, Using, AtConsole
  <2>1. CASE UsePlace(s)
    BY <2>1 DEF UsePlace
  <2>2. CASE Resolve(s)
    BY <2>2 DEF Resolve
  <2>3. CASE OpenConsole(s)
    BY <2>3 DEF OpenConsole
  <2>4. CASE Recover(s)
    BY <2>4 DEF Recover
  <2>5. CASE Kill(s)
    BY <2>5 DEF Kill
  <2>6. QED
    BY <1>2, <2>1, <2>2, <2>3, <2>4, <2>5
<1>3. QED
  BY <1>1, <1>2, ConsoleSteps DEF vars

\* Owners of open consoles own the locks of those places, so they are distinct.
LEMMA ExclusionFromLocks == IInv /\ Endpoints => ConsoleExclusive
<1> SUFFICES ASSUME IInv, Endpoints,
                    NEW s \in Sessions, NEW t \in Sessions, s # t, cons[s] # None, cons[s] = cons[t]
             PROVE  FALSE
  BY DEF ConsoleExclusive
<1>1. lock[place[s]] = s /\ lock[place[t]] = t
  BY DEF IInv, LockDiscipline, AtConsole
<1>2. place[s] = place[t]
  BY DEF Endpoints
<1>3. QED
  BY <1>1, <1>2

\* So the invariant and the endpoints hold together in every reachable state.
LEMMA EndpointsInvariance ==
    ASSUME "path" \notin Faults
    PROVE  Spec => [](IInv /\ Endpoints)
<1>1. Init => Endpoints
  BY SessionAssumption DEF Init, Endpoints
<1>2. IInv /\ Endpoints /\ [Next]_vars => Endpoints'
  BY EndpointsStep
<1>3. QED
  BY <1>1, <1>2, Invariance, PTL DEF Spec

\* As long as the exporter publishes the serial paths, no two sessions ever have
\* one console open together.
THEOREM ConsoleExclusiveHolds ==
    ASSUME "path" \notin Faults
    PROVE  Spec => []ConsoleExclusive
<1>1. QED
  BY EndpointsInvariance, ExclusionFromLocks, PTL

\* Under the same assumption the sessions implement the console discipline.
THEOREM RefinesConsoleUse ==
    ASSUME "path" \notin Faults
    PROVE  Spec => ImplementsConsoleUse
<1> DEFINE Users == [p \in Places |-> {s \in Sessions : cons[s] = p}]
<1>1. Init => Console!Init
  BY SessionAssumption DEF Init, Console!Init
<1>2. ASSUME IInv, Endpoints, [Next]_vars
      PROVE  [Console!Next]_Users
  <2>1. CASE UNCHANGED <<place, tty, cons>>
    BY <2>1
  <2>2. ASSUME NEW s \in Sessions, UsePlace(s) \/ Resolve(s)
        PROVE  UNCHANGED Users
    BY <2>2 DEF UsePlace, Resolve
  <2>3. ASSUME NEW s \in Sessions, OpenConsole(s)
        PROVE  Console!Next
    <3> DEFINE p == tty[s]
    <3>1. p \in Places /\ p = place[s] /\ lock[p] = s /\ cons[s] = None
      BY <1>2, <2>3, SessionAssumption DEF IInv, TypeOK, PlaceKnown, LockDiscipline, Endpoints, OpenConsole, Using, AtConsole
    <3>2. Users[p] = {}
      <4>1. ASSUME NEW t \in Sessions, cons[t] = p PROVE FALSE
        <5>1. lock[p] = t
          BY <1>2, <4>1, <3>1, SessionAssumption DEF IInv, LockDiscipline, Endpoints, AtConsole
        <5>2. QED
          BY <5>1, <4>1, <3>1, SessionAssumption
      <4>2. QED
        BY <4>1, <3>1
    <3>3. cons' = [cons EXCEPT ![s] = p]
      BY <2>3 DEF OpenConsole
    <3>4. Users' = [Users EXCEPT ![p] = {s}]
      <4>1. ASSUME NEW q \in Places, q # p
            PROVE  {t \in Sessions : cons'[t] = q} = {t \in Sessions : cons[t] = q}
        BY <1>2, <3>1, <3>3, <4>1, SessionAssumption DEF IInv, TypeOK
      <4>2. {t \in Sessions : cons'[t] = p} = {s}
        BY <1>2, <3>1, <3>2, <3>3, SessionAssumption DEF IInv, TypeOK
      <4>3. QED
        BY <4>1, <4>2, <3>1
    <3>5. \A q \in Places : s \notin Users[q]
      BY <3>1, SessionAssumption
    <3>6. QED
      BY <3>1, <3>2, <3>4, <3>5 DEF Console!Next, Console!Open
  <2>4. ASSUME NEW s \in Sessions, Recover(s) \/ Kill(s)
        PROVE  [Console!Next]_Users
    <3>1. cons' = [cons EXCEPT ![s] = None]
      BY <2>4 DEF Recover, Kill
    <3>2. CASE cons[s] = None
      BY <1>2, <3>1, <3>2, SessionAssumption DEF IInv, TypeOK
    <3>3. CASE cons[s] # None
      <4> DEFINE p == cons[s]
      <4>1. p \in Places
        BY <1>2, <3>3 DEF IInv, TypeOK
      <4>2. Users[p] = {s}
        BY <1>2, <4>1, <3>3, ExclusionFromLocks DEF ConsoleExclusive
      <4>3. Users' = [Users EXCEPT ![p] = {}]
        <5>1. ASSUME NEW q \in Places, q # p
              PROVE  {t \in Sessions : cons'[t] = q} = {t \in Sessions : cons[t] = q}
          BY <1>2, <3>1, <5>1, SessionAssumption DEF IInv, TypeOK
        <5>2. {t \in Sessions : cons'[t] = p} = {}
          BY <1>2, <3>1, <4>1, <4>2, SessionAssumption DEF IInv, TypeOK
        <5>3. QED
          BY <5>1, <5>2, <4>1
      <4>4. QED
        BY <4>1, <4>2, <4>3 DEF Console!Next, Console!Close
    <3>4. QED
      BY <3>2, <3>3
  <2>5. CASE UNCHANGED vars
    BY <2>5 DEF vars
  <2>6. QED
    BY <1>2, <2>1, <2>2, <2>3, <2>4, <2>5, ConsoleSteps
<1>3. QED
  BY <1>1, <1>2, EndpointsInvariance, PTL DEF Spec, ImplementsConsoleUse, Console!Spec

----------------------------------------------------------------------------
(* The board under a session's hands, with the same assumption *)

\* The session waits for Debian, or has seen it and has not let go of the place.
Restoring(s) == pc[s] = "restore" \/ (outcome[s] = "passed" /\ pc[s] \in {"recover", "release"})

\* A session has no thread before it opens its console, and none that still has
\* to write to the UART once its board boots.
ThreadStage == \A s \in Sessions :
    /\ pc[s] \in {"start", "reserve", "resolve", "acquire", "open"} => trigger[s] = "none"
    /\ pc[s] \in {"login", "probe", "check"} => trigger[s] # "armed"

\* What the board runs is what the session's place in the program says.
BoardStage == \A s \in Sessions :
    /\ pc[s] = "command" => board[place[s]] = "prompt"
    /\ pc[s] = "transfer" => board[place[s]] \in {"busy", "prompt"}
    /\ pc[s] \in {"probe", "check"} => board[place[s]] = "ramshell"
    /\ outcome[s] = "passed" /\ pc[s] \in {"recover", "release"} => board[place[s]] = "debian"

\* The reset that ends a RAM boot leaves no thread that could reset the board again.
NoThreadLeft == \A s, t \in Sessions :
    Restoring(s) /\ place[t] = place[s] => trigger[t] \in {"none", "done"}

StageInv == ThreadStage /\ BoardStage /\ NoThreadLeft

\* Two sessions that use a board use different ones, each through its own console.
LEMMA OwnBoard ==
    ASSUME IInv, Endpoints
    PROVE  /\ \A s, t \in Sessions : pc[s] \in Using /\ pc[t] \in Using /\ s # t => place[s] # place[t]
           /\ \A s \in Sessions : pc[s] \in AtConsole => cons[s] = place[s]
           /\ \A s \in Sessions : cons[s] # None => pc[s] \in AtConsole /\ cons[s] = place[s]
  BY DEF IInv, LockDiscipline, Endpoints, AtConsole

\* Every step keeps threads and boards where the sessions' places in the program
\* say they are.
LEMMA StageStep ==
    ASSUME IInv, Endpoints, StageInv, [Next]_vars
    PROVE  StageInv'
<1>0. TypeOK /\ PlaceKnown /\ (\A s \in Sessions : pc[s] = "dead" => cut[s])
  BY DEF IInv, NotYet
<1> USE SessionAssumption, OwnBoard DEF TypeOK, PlaceKnown, StageInv, ThreadStage, BoardStage, NoThreadLeft,
        Restoring, Using, AtConsole, coordinator, locals, Go, Fail, Unwind, CallFailed,
        SetBoard, ResetBoard
<1>1. ASSUME NEW s \in Sessions, SessionStep(s) PROVE StageInv'
  <2>1. CASE MissingArtifact(s)
    BY <2>1, <1>0 DEF MissingArtifact
  <2>2. CASE UsePlace(s)
    BY <2>2, <1>0 DEF UsePlace
  <2>3. CASE Reserve(s)
    BY <2>3, <1>0 DEF Reserve
  <2>4. CASE ReserveReturns(s)
    BY <2>4, <1>0 DEF ReserveReturns
  <2>5. CASE ReserveTimesOut(s)
    BY <2>5, <1>0 DEF ReserveTimesOut
  <2>6. CASE Resolve(s)
    BY <2>6, <1>0 DEF Resolve
  <2>7. CASE ResolveFails(s)
    BY <2>7, <1>0 DEF ResolveFails
  <2>8. CASE Acquire(s)
    BY <2>8, <1>0 DEF Acquire
  <2>9. CASE AcquireRefused(s)
    BY <2>9, <1>0 DEF AcquireRefused
  <2>10. CASE AcquireCutOff(s)
    BY <2>10, <1>0 DEF AcquireCutOff
  <2>11. CASE OpenConsole(s)
    BY <2>11, <1>0 DEF OpenConsole
  <2>12. CASE OpenFails(s)
    BY <2>12, <1>0 DEF OpenFails
  <2>13. CASE InterceptKey(s)
    BY <2>13, <1>0 DEF InterceptKey
  <2>14. CASE InterceptPrompt(s)
    BY <2>14, <1>0 DEF InterceptPrompt
  <2>15. CASE InterceptTimesOut(s)
    BY <2>15, <1>0 DEF InterceptTimesOut
  <2>16. CASE SerialError(s)
    BY <2>16, <1>0 DEF SerialError
  <2>17. CASE BootRam(s)
    BY <2>17, <1>0 DEF BootRam
  <2>18. CASE CommandFails(s)
    BY <2>18, <1>0 DEF CommandFails
  <2>19. CASE LoginSeen(s)
    BY <2>19, <1>0 DEF LoginSeen
  <2>20. CASE ProbeSeen(s)
    BY <2>20, <1>0 DEF ProbeSeen
  <2>21. CASE BootTimesOut(s)
    BY <2>21, <1>0 DEF BootTimesOut
  <2>22. CASE CheckFails(s)
    BY <2>22, <1>0 DEF CheckFails
  <2>23. CASE RebootToDebian(s)
    BY <2>23, <1>0 DEF RebootToDebian
  <2>24. CASE RestoreSeen(s)
    BY <2>24, <1>0 DEF RestoreSeen
  <2>25. CASE RestoreTimesOut(s)
    BY <2>25, <1>0 DEF RestoreTimesOut
  <2>26. CASE Recover(s)
    BY <2>26, <1>0 DEF Recover
  <2>27. CASE Release(s)
    BY <2>27, <1>0 DEF Release
  <2>28. CASE ReleaseIgnored(s)
    BY <2>28, <1>0 DEF ReleaseIgnored
  <2>29. CASE ReleaseCutOff(s)
    BY <2>29, <1>0 DEF ReleaseCutOff
  <2>30. CASE Cancel(s)
    BY <2>30, <1>0 DEF Cancel
  <2>31. CASE CancelFails(s)
    BY <2>31, <1>0 DEF CancelFails
  <2>32. CASE InterceptEnds(s)
    BY <2>32, <1>0 DEF InterceptEnds
  <2>33. CASE RunCommand(s)
    BY <2>33, <1>0 DEF RunCommand
  <2>34. QED
    BY <1>1, <2>1, <2>2, <2>3, <2>4, <2>5, <2>6, <2>7, <2>8, <2>9, <2>10, <2>11, <2>12, <2>13, <2>14, <2>15, <2>16, <2>17, <2>18, <2>19, <2>20, <2>21, <2>22, <2>23, <2>24, <2>25, <2>26, <2>27, <2>28, <2>29, <2>30, <2>31, <2>32, <2>33 DEF SessionStep
<1>2. ASSUME NEW s \in Sessions, TriggerUart(s) PROVE StageInv'
  BY <1>2, <1>0 DEF TriggerUart
<1>3. ASSUME NEW s \in Sessions, TriggerSsh(s) PROVE StageInv'
  BY <1>3, <1>0 DEF TriggerSsh
<1>4. ASSUME NEW s \in Sessions, Kill(s) PROVE StageInv'
  BY <1>4, <1>0 DEF Kill
<1>5. ASSUME NEW s \in Sessions, Expire(s) PROVE StageInv'
  BY <1>5, <1>0 DEF Expire
<1>6. ASSUME NEW s \in Sessions, NEW p \in Places, Allocate(s, p) PROVE StageInv'
  BY <1>6, <1>0 DEF Allocate
<1>7. ASSUME NEW p \in Places, BoardStep(p) PROVE StageInv'
  BY <1>7, <1>0 DEF BoardStep, Advance, CommandEnds, FirmwareUp, AutobootExpires, DebianUp, RamUp, RamPanics
<1>8. CASE UNCHANGED vars
  BY <1>8, <1>0 DEF vars
<1>9. QED
  BY <1>1, <1>2, <1>3, <1>4, <1>5, <1>6, <1>7, <1>8 DEF Next, TriggerStep

\* So all three parts of the invariant hold together in every reachable state.
LEMMA StageInvariance ==
    ASSUME "path" \notin Faults
    PROVE  Spec => [](IInv /\ Endpoints /\ StageInv)
<1>1. Init => StageInv
  BY SessionAssumption DEF Init, StageInv, ThreadStage, BoardStage, NoThreadLeft, Restoring
<1>2. IInv /\ Endpoints /\ StageInv /\ [Next]_vars => StageInv'
  BY StageStep
<1>3. QED
  BY <1>1, <1>2, EndpointsInvariance, PTL DEF Spec

\* Whoever passed hands over a board that runs Debian, for any number of sessions
\* and boards, and no reboot thread of a session that is over takes it down.
THEOREM PassedMeansRestoredHolds ==
    ASSUME "path" \notin Faults
    PROVE  Spec => []PassedMeansRestored
<1>1. StageInv => PassedMeansRestored
  BY DEF StageInv, BoardStage, PassedMeansRestored
<1>2. QED
  BY <1>1, StageInvariance, PTL

\* What takes a board down while a session stands between the prompt and the probe.
LEMMA OnlyTheOwnerResets ==
    ASSUME IInv, Endpoints, StageInv, [Next]_vars, NEW s \in Sessions,
           pc[s] \in {"command", "transfer", "login", "probe", "check"},
           board[cons[s]] \in {"prompt", "busy", "ramlogin", "ramshell"}, board'[cons[s]] = "down"
    PROVE  pc'[s] # pc[s]
<1>0. TypeOK /\ PlaceKnown
  BY DEF IInv
<1> USE SessionAssumption, OwnBoard DEF TypeOK, PlaceKnown, StageInv, ThreadStage, BoardStage, Using, AtConsole,
        SetBoard, ResetBoard
<1>1. ASSUME NEW t \in Sessions, SessionStep(t) PROVE pc'[s] # pc[s]
  <2>1. CASE UNCHANGED board
    BY <2>1
  <2>2. CASE InterceptKey(t) \/ InterceptEnds(t) \/ RunCommand(t) \/ BootRam(t) \/ LoginSeen(t)
    BY <2>2, <1>0 DEF InterceptKey, InterceptEnds, RunCommand, BootRam, LoginSeen
  <2>3. CASE RebootToDebian(t)
    BY <2>3, <1>0 DEF RebootToDebian, Go
  <2>4. CASE Recover(t)
    BY <2>4, <1>0 DEF Recover
  <2>5. QED
    BY <1>1, <2>1, <2>2, <2>3, <2>4 DEF SessionStep, MissingArtifact, UsePlace, Reserve, ReserveReturns,
       ReserveTimesOut, Resolve, ResolveFails, Acquire, AcquireRefused, AcquireCutOff,
       OpenConsole, OpenFails, InterceptPrompt, InterceptTimesOut, SerialError, CommandFails,
       ProbeSeen, BootTimesOut, CheckFails, RestoreSeen, RestoreTimesOut, Release,
       ReleaseIgnored, ReleaseCutOff, Cancel, CancelFails
<1>2. ASSUME NEW t \in Sessions, TriggerUart(t) PROVE FALSE
  BY <1>2, <1>0 DEF TriggerUart
<1>3. ASSUME NEW t \in Sessions, TriggerSsh(t) PROVE FALSE
  BY <1>3, <1>0 DEF TriggerSsh
<1>4. ASSUME NEW t \in Sessions, Kill(t) \/ Expire(t) PROVE FALSE
  BY <1>4 DEF Kill, Expire
<1>5. ASSUME NEW t \in Sessions, NEW p \in Places, Allocate(t, p) PROVE FALSE
  BY <1>5 DEF Allocate
<1>6. ASSUME NEW p \in Places, BoardStep(p) PROVE FALSE
  BY <1>6, <1>0 DEF BoardStep, Advance, CommandEnds, FirmwareUp, AutobootExpires, DebianUp, RamUp, RamPanics
<1>7. CASE UNCHANGED vars
  BY <1>7 DEF vars
<1>8. QED
  BY <1>1, <1>2, <1>3, <1>4, <1>5, <1>6, <1>7 DEF Next, TriggerStep

\* Nobody resets a listening board under a session that owns it, for any number of
\* sessions, boards and left-over threads.
THEOREM NoResetUnderfootHolds ==
    ASSUME "path" \notin Faults
    PROVE  Spec => NoResetUnderfoot
<1>1. ASSUME IInv, Endpoints, StageInv, [Next]_vars
      PROVE  [\A s \in Sessions :
                /\ pc[s] \in {"command", "transfer", "login", "probe", "check"}
                /\ board[cons[s]] \in {"prompt", "busy", "ramlogin", "ramshell"}
                /\ board'[cons[s]] = "down"
                => pc'[s] # pc[s]]_vars
  BY <1>1, OnlyTheOwnerResets
<1>2. QED
  BY <1>1, StageInvariance, PTL DEF Spec, NoResetUnderfoot
====
