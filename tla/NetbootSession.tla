---- MODULE NetbootSession ----
(***************************************************************************)
(* Hardware-in-the-loop netboot sessions sharing the boards of a Labgrid   *)
(* pool: boards/zhihe-a210/pytest/test_yocto_netboot.py.                   *)
(*                                                                         *)
(* A session is one run of test_zhihe_a210_yocto_ram_netboot.  It reserves *)
(* a place (or takes the one given by --place), resolves its endpoints,    *)
(* acquires the place, opens the serial console, stops U-Boot while a      *)
(* daemon thread reboots the board, boots a RAM image, reboots to Debian,  *)
(* and unwinds in its finally block.  The coordinator (lock, resv, alloc)  *)
(* and the boards are external: they are modelled from how the session     *)
(* uses them.                                                              *)
(***************************************************************************)
EXTENDS FiniteSets

CONSTANTS
    Sessions,         \* test runs, each a process of its own
    Places,           \* Labgrid places; a place is one board
    Pool,             \* the places tagged pool=a210-yocto
    None,             \* no place, no session
    Override,         \* the --place option of each session, None when empty
    FallbackConsole,  \* the place whose console happens to be /dev/ttyUSB2
    Faults            \* the kinds of failure a behaviour may contain

FaultKinds == {"client", "serial", "path", "board", "kill"}

ASSUME SessionAssumption ==
    /\ None \notin Sessions \cup Places
    /\ Pool \subseteq Places
    /\ Override \in [Sessions -> Places \cup {None}]
    /\ FallbackConsole \in Places
    /\ Faults \subseteq FaultKinds

VARIABLES
    lock,      \* coordinator: the session that has acquired each place
    resv,      \* coordinator: state of each session's reservation
    alloc,     \* coordinator: place allocated to each session's reservation
    board,     \* what each board is running
    pc,        \* where each session is
    token,     \* the session knows its reservation token
    acquired,  \* the session's flag of the same name
    place,     \* place resolved by the session
    tty,       \* place whose serial device the session resolved
    cons,      \* place whose serial console the session has open
    outcome,   \* result of the session; "passed" iff restored_to_emmc
    trigger,   \* the daemon thread _trigger_reboot of each session
    cut        \* a labgrid-client call failed, or the session was killed

coordinator == <<lock, resv, alloc>>
locals == <<token, acquired, place, tty, cons>>
vars == <<lock, resv, alloc, board, pc, token, acquired, place, tty, cons, outcome, trigger, cut>>

\* "busy" is a U-Boot that runs dhcp or tftpboot and reads nothing but ctrl-C.
Modes == {"debian", "down", "countdown", "prompt", "busy", "debianboot",
          "ramboot", "ramlogin", "ramshell"}
Labels == {"start", "reserve", "resolve", "acquire", "open", "intercept", "command",
           "transfer", "login", "probe", "check", "restore", "recover", "release", "cancel",
           "done", "dead"}

TypeOK ==
    /\ lock \in [Places -> Sessions \cup {None}]
    /\ resv \in [Sessions -> {"none", "waiting", "allocated", "acquired"}]
    /\ alloc \in [Sessions -> Places \cup {None}]
    /\ board \in [Places -> Modes]
    /\ pc \in [Sessions -> Labels]
    /\ token \in [Sessions -> BOOLEAN]
    /\ acquired \in [Sessions -> BOOLEAN]
    /\ place \in [Sessions -> Places \cup {None}]
    /\ tty \in [Sessions -> Places \cup {None}]
    /\ cons \in [Sessions -> Places \cup {None}]
    /\ outcome \in [Sessions -> {"running", "passed", "failed"}]
    /\ trigger \in [Sessions -> {"none", "armed", "ssh", "done"}]
    /\ cut \in [Sessions -> BOOLEAN]

Init ==
    /\ lock = [p \in Places |-> None]
    /\ resv = [s \in Sessions |-> "none"]
    /\ alloc = [s \in Sessions |-> None]
    /\ board = [p \in Places |-> "debian"]
    /\ pc = [s \in Sessions |-> "start"]
    /\ token = [s \in Sessions |-> FALSE]
    /\ acquired = [s \in Sessions |-> FALSE]
    /\ place = [s \in Sessions |-> None]
    /\ tty = [s \in Sessions |-> None]
    /\ cons = [s \in Sessions |-> None]
    /\ outcome = [s \in Sessions |-> "running"]
    /\ trigger = [s \in Sessions |-> "none"]
    /\ cut = [s \in Sessions |-> FALSE]

----------------------------------------------------------------------------
(* Helpers *)

Go(s, l) == pc' = [pc EXCEPT ![s] = l]

\* The first statement of the finally block that has something to do.
Unwind(s) ==
    IF cons[s] # None THEN "recover"
    ELSE IF acquired[s] THEN "release"
    ELSE IF token[s] THEN "cancel" ELSE "done"

\* An exception or a failed assertion inside the try block.
Fail(s) ==
    /\ Go(s, Unwind(s))
    /\ outcome' = [outcome EXCEPT ![s] = "failed"]

CallFailed(s) == cut' = [cut EXCEPT ![s] = TRUE]

SetBoard(p, m) == board' = [board EXCEPT ![p] = m] /\ UNCHANGED trigger

\* A reset outlasts the 1 s + 12 s of any reboot thread already started for
\* this board: such a thread finds no SSH server any more.
ResetBoard(p) ==
    /\ board' = [board EXCEPT ![p] = "down"]
    /\ trigger' = [t \in Sessions |->
                     IF place[t] = p /\ trigger[t] # "none" THEN "done" ELSE trigger[t]]

----------------------------------------------------------------------------
(* Reservation and lock *)

\* An artifact is missing: the assertion precedes the try block.
MissingArtifact(s) ==
    /\ pc[s] = "start"
    /\ Go(s, "done")
    /\ outcome' = [outcome EXCEPT ![s] = "failed"]
    /\ UNCHANGED <<coordinator, board, locals, trigger, cut>>

UsePlace(s) ==
    /\ pc[s] = "start" /\ Override[s] # None
    /\ place' = [place EXCEPT ![s] = Override[s]]
    /\ Go(s, "resolve")
    /\ UNCHANGED <<coordinator, board, token, acquired, tty, cons, outcome, trigger, cut>>

\* _reserve_from_pool: labgrid-client reserve --wait
Reserve(s) ==
    /\ pc[s] = "start" /\ Override[s] = None
    /\ resv' = [resv EXCEPT ![s] = "waiting"]
    /\ Go(s, "reserve")
    /\ UNCHANGED <<lock, alloc, board, locals, outcome, trigger, cut>>

ReserveReturns(s) ==
    /\ pc[s] = "reserve" /\ resv[s] = "allocated"
    /\ token' = [token EXCEPT ![s] = TRUE]
    /\ Go(s, "resolve")
    /\ UNCHANGED <<coordinator, board, acquired, place, tty, cons, outcome, trigger, cut>>

\* The 900 s run out, whatever the coordinator decides meanwhile: the token
\* is lost with the output of the killed client.
ReserveTimesOut(s) ==
    /\ pc[s] = "reserve"
    /\ Fail(s)
    /\ UNCHANGED <<coordinator, board, locals, trigger, cut>>

\* _resolve_place_endpoints.  Without a 'path' in the place's resources the
\* console defaults to /dev/ttyUSB2.
Resolve(s) ==
    /\ pc[s] = "resolve"
    /\ token[s] => resv[s] = "allocated"
    /\ LET p == IF token[s] THEN alloc[s] ELSE place[s] IN
         /\ place' = [place EXCEPT ![s] = p]
         /\ \/ tty' = [tty EXCEPT ![s] = p]
            \/ "path" \in Faults /\ tty' = [tty EXCEPT ![s] = FallbackConsole]
    /\ Go(s, "acquire")
    /\ UNCHANGED <<coordinator, board, token, acquired, cons, outcome, trigger, cut>>

ResolveFails(s) ==
    /\ pc[s] = "resolve"
    /\ "client" \in Faults \/ (token[s] /\ resv[s] # "allocated")
    /\ Fail(s) /\ CallFailed(s)
    /\ UNCHANGED <<coordinator, board, locals, trigger>>

\* What the coordinator does when it grants an acquire request.
Grant(s) ==
    /\ lock[place[s]] = None
    /\ token[s] => resv[s] = "allocated" /\ alloc[s] = place[s]
    /\ lock' = [lock EXCEPT ![place[s]] = s]
    /\ resv' = IF token[s] THEN [resv EXCEPT ![s] = "acquired"] ELSE resv
    /\ UNCHANGED alloc

Acquire(s) ==
    /\ pc[s] = "acquire"
    /\ Grant(s)
    /\ acquired' = [acquired EXCEPT ![s] = TRUE]
    /\ Go(s, "open")
    /\ UNCHANGED <<board, token, place, tty, cons, outcome, trigger, cut>>

\* Mutant: "acquire || true", the session goes on without the lock.
AcquireRefused_GoesOn(s) ==
    /\ pc[s] = "acquire" /\ lock[place[s]] # None
    /\ Go(s, "open")
    /\ UNCHANGED <<coordinator, board, locals, outcome, trigger, cut>>

\* The place is taken, reserved by somebody else, or the token has expired.
AcquireRefused(s) ==
    /\ pc[s] = "acquire"
    /\ \/ lock[place[s]] # None
       \/ token[s] /\ resv[s] # "allocated"
       \/ \E t \in Sessions \ {s} : resv[t] = "allocated" /\ alloc[t] = place[s]
    /\ Fail(s)
    /\ UNCHANGED <<coordinator, board, locals, trigger, cut>>

\* The client is killed after 30 s; the coordinator may have granted the lock.
AcquireCutOff(s) ==
    /\ pc[s] = "acquire" /\ "client" \in Faults
    /\ Grant(s) \/ UNCHANGED coordinator
    /\ Fail(s) /\ CallFailed(s)
    /\ UNCHANGED <<board, locals, trigger>>

----------------------------------------------------------------------------
(* The board under test *)

OpenConsole(s) ==
    /\ pc[s] = "open"
    /\ cons' = [cons EXCEPT ![s] = tty[s]]
    /\ trigger' = [trigger EXCEPT ![s] = "armed"]
    /\ Go(s, "intercept")
    /\ UNCHANGED <<coordinator, board, token, acquired, place, tty, outcome, cut>>

OpenFails(s) ==
    /\ pc[s] = "open" /\ "serial" \in Faults
    /\ Fail(s)
    /\ UNCHANGED <<coordinator, board, locals, trigger, cut>>

\* _trigger_reboot, first half: "\r\nsync; reboot -f\r\n" on the UART, which
\* counts as a key in the countdown and is swallowed by a running command of
\* U-Boot; a closed port raises and is ignored.
TriggerUart(s) ==
    /\ trigger[s] = "armed"
    /\ IF cons[s] # None /\ board[cons[s]] = "ramshell"
       THEN /\ board' = [board EXCEPT ![cons[s]] = "down"]
            /\ trigger' = [t \in Sessions |->
                 IF t = s \/ (place[t] = cons[s] /\ trigger[t] # "none")
                 THEN "done" ELSE trigger[t]]
       ELSE /\ trigger' = [trigger EXCEPT ![s] = "ssh"]
            /\ board' = IF cons[s] # None /\ board[cons[s]] = "countdown"
                        THEN [board EXCEPT ![cons[s]] = "prompt"] ELSE board
    /\ UNCHANGED <<coordinator, pc, locals, outcome, cut>>

\* Second half: ssh root@target_ip reboot, which only Debian answers.
TriggerSsh(s) ==
    /\ trigger[s] = "ssh"
    /\ \/ board[place[s]] = "debian" /\ ResetBoard(place[s])
       \/ /\ board[place[s]] # "debian" \/ "board" \in Faults
          /\ trigger' = [trigger EXCEPT ![s] = "done"]
          /\ UNCHANGED board
    /\ UNCHANGED <<coordinator, pc, locals, outcome, cut>>

\* The countdown banner is answered with keys and the prompt appears.
InterceptKey(s) ==
    /\ pc[s] = "intercept" /\ board[cons[s]] = "countdown"
    /\ SetBoard(cons[s], "prompt")
    /\ Go(s, "command")
    /\ UNCHANGED <<coordinator, locals, outcome, cut>>

\* The board sits at the prompt and echoes it to the thread's line.
InterceptPrompt(s) ==
    /\ pc[s] = "intercept" /\ board[cons[s]] = "prompt" /\ trigger[s] # "armed"
    /\ Go(s, "command")
    /\ UNCHANGED <<coordinator, board, locals, outcome, trigger, cut>>

\* So does the prompt of a command an earlier session has left running.
InterceptEnds(s) ==
    /\ pc[s] = "intercept" /\ board[cons[s]] = "busy"
    /\ SetBoard(cons[s], "prompt")
    /\ Go(s, "command")
    /\ UNCHANGED <<coordinator, locals, outcome, cut>>

\* 60 s without a prompt: the thread is over, and no reset is under way.
InterceptTimesOut(s) ==
    /\ pc[s] = "intercept" /\ trigger[s] = "done"
    /\ board[cons[s]] \notin {"down", "countdown", "prompt"} \/ "board" \in Faults
    /\ Fail(s)
    /\ UNCHANGED <<coordinator, board, locals, trigger, cut>>

\* Reading or writing the port raises SerialException.
SerialError(s) ==
    /\ pc[s] \in {"intercept", "command", "transfer", "login", "probe", "check", "restore"}
    /\ "serial" \in Faults
    /\ Fail(s)
    /\ UNCHANGED <<coordinator, board, locals, trigger, cut>>

\* dhcp and the three tftpboot transfers hold U-Boot for as long as they take.
RunCommand(s) ==
    /\ pc[s] = "command" /\ board[cons[s]] = "prompt"
    /\ SetBoard(cons[s], "busy")
    /\ Go(s, "transfer")
    /\ UNCHANGED <<coordinator, locals, outcome, cut>>

\* The last transfer's prompt is back: setenv, then booti.  The transfers take
\* far longer than the second the thread sleeps before it writes.
BootRam(s) ==
    /\ pc[s] = "transfer" /\ board[cons[s]] = "prompt" /\ trigger[s] # "armed"
    /\ SetBoard(cons[s], "ramboot")
    /\ Go(s, "login")
    /\ UNCHANGED <<coordinator, locals, outcome, cut>>

\* A transfer fails, or the prompt does not come back in time: the TimeoutError
\* leaves the command running.
CommandFails(s) ==
    /\ pc[s] \in {"command", "transfer"}
    /\ Fail(s)
    /\ UNCHANGED <<coordinator, board, locals, trigger, cut>>

LoginSeen(s) ==
    /\ pc[s] = "login" /\ board[cons[s]] = "ramlogin"
    /\ SetBoard(cons[s], "ramshell")
    /\ Go(s, "probe")
    /\ UNCHANGED <<coordinator, locals, outcome, cut>>

ProbeSeen(s) ==
    /\ pc[s] = "probe" /\ board[cons[s]] = "ramshell"
    /\ Go(s, "check")
    /\ UNCHANGED <<coordinator, board, locals, outcome, trigger, cut>>

\* 110 s without login prompt or probe output.
BootTimesOut(s) ==
    /\ pc[s] \in {"login", "probe"}
    /\ board[cons[s]] \notin {"ramboot", "ramlogin", "ramshell"} \/ "board" \in Faults
    /\ Fail(s)
    /\ UNCHANGED <<coordinator, board, locals, trigger, cut>>

\* Reserved memory, core count or kernel release is not the expected one.
CheckFails(s) ==
    /\ pc[s] = "check"
    /\ Fail(s)
    /\ UNCHANGED <<coordinator, board, locals, trigger, cut>>

RebootToDebian(s) ==
    /\ pc[s] = "check"
    /\ IF board[cons[s]] = "ramshell" THEN ResetBoard(cons[s]) ELSE UNCHANGED <<board, trigger>>
    /\ Go(s, "restore")
    /\ UNCHANGED <<coordinator, locals, outcome, cut>>

\* Mutant: any output of the rebooting board is taken for the login prompt.
RestoreSeen_TooEarly(s) ==
    /\ pc[s] = "restore" /\ board[cons[s]] \in {"debianboot", "debian"}
    /\ outcome' = [outcome EXCEPT ![s] = "passed"]
    /\ Go(s, Unwind(s))
    /\ UNCHANGED <<coordinator, board, locals, trigger, cut>>

RestoreSeen(s) ==
    /\ pc[s] = "restore" /\ board[cons[s]] = "debian"
    /\ outcome' = [outcome EXCEPT ![s] = "passed"]
    /\ Go(s, Unwind(s))
    /\ UNCHANGED <<coordinator, board, locals, trigger, cut>>

\* 90 s without the Debian login prompt.
RestoreTimesOut(s) ==
    /\ pc[s] = "restore"
    /\ board[cons[s]] \notin {"down", "countdown", "debianboot", "debian"} \/ "board" \in Faults
    /\ Fail(s)
    /\ UNCHANGED <<coordinator, board, locals, trigger, cut>>

----------------------------------------------------------------------------
(* The finally block *)

\* Mutant: the console is not closed before the place is released.
Recover_NoClose(s) ==
    /\ pc[s] = "recover"
    /\ Go(s, IF acquired[s] THEN "release" ELSE IF token[s] THEN "cancel" ELSE "done")
    /\ UNCHANGED <<coordinator, board, locals, outcome, trigger, cut>>

\* Mutant: only "sync; reboot -f" is sent, which U-Boot does not know.
Recover_NoReset(s) ==
    /\ pc[s] = "recover"
    /\ IF outcome[s] # "passed" /\ board[cons[s]] = "ramshell"
       THEN ResetBoard(cons[s]) ELSE UNCHANGED <<board, trigger>>
    /\ cons' = [cons EXCEPT ![s] = None]
    /\ Go(s, IF acquired[s] THEN "release" ELSE IF token[s] THEN "cancel" ELSE "done")
    /\ UNCHANGED <<coordinator, token, acquired, place, tty, outcome, cut>>

\* Mutant: the place is released only after a boot that passed.
Recover_KeepsLock(s) ==
    /\ pc[s] = "recover"
    /\ cons' = [cons EXCEPT ![s] = None]
    /\ Go(s, IF outcome[s] = "passed" THEN "release" ELSE IF token[s] THEN "cancel" ELSE "done")
    /\ UNCHANGED <<coordinator, board, token, acquired, place, tty, outcome, trigger, cut>>

\* "sync; reboot -f" then "reset", without waiting for either, then close().
\* A root shell, the prompt and the countdown obey; a booting kernel, a login
\* prompt and a running command of U-Boot do not.
Recover(s) ==
    /\ pc[s] = "recover"
    /\ \/ /\ outcome[s] # "passed" /\ board[cons[s]] \in {"ramshell", "prompt", "countdown"}
          /\ ResetBoard(cons[s])
       \/ /\ \/ outcome[s] = "passed"
             \/ board[cons[s]] \notin {"ramshell", "prompt", "countdown"}
             \/ "serial" \in Faults
          /\ UNCHANGED <<board, trigger>>
    /\ cons' = [cons EXCEPT ![s] = None]
    /\ Go(s, IF acquired[s] THEN "release" ELSE IF token[s] THEN "cancel" ELSE "done")
    /\ UNCHANGED <<coordinator, token, acquired, place, tty, outcome, cut>>

\* What the coordinator does when it executes a release.
Unlock(s) ==
    /\ lock' = [lock EXCEPT ![place[s]] = None]
    /\ resv' = [resv EXCEPT ![s] = IF @ = "acquired" THEN "allocated" ELSE @]
    /\ UNCHANGED alloc

\* Mutant: the reservation is not cancelled after the release.
Release_NoCancel(s) ==
    /\ pc[s] = "release"
    /\ Unlock(s)
    /\ Go(s, "done")
    /\ UNCHANGED <<board, locals, outcome, trigger, cut>>

Release(s) ==
    /\ pc[s] = "release"
    /\ Unlock(s)
    /\ Go(s, IF token[s] THEN "cancel" ELSE "done")
    /\ UNCHANGED <<board, locals, outcome, trigger, cut>>

\* check=False: a client that exits with an error is ignored.
ReleaseIgnored(s) ==
    /\ pc[s] = "release" /\ "client" \in Faults
    /\ Go(s, IF token[s] THEN "cancel" ELSE "done")
    /\ CallFailed(s)
    /\ UNCHANGED <<coordinator, board, locals, outcome, trigger>>

\* TimeoutExpired is raised all the same, and skips the cancellation.
ReleaseCutOff(s) ==
    /\ pc[s] = "release" /\ "client" \in Faults
    /\ Unlock(s) \/ UNCHANGED coordinator
    /\ Go(s, "done")
    /\ outcome' = [outcome EXCEPT ![s] = "failed"]
    /\ CallFailed(s)
    /\ UNCHANGED <<board, locals, trigger>>

\* Mutant: a reservation state the coordinator does not have.
Cancel_NewState(s) ==
    /\ pc[s] = "cancel"
    /\ resv' = [resv EXCEPT ![s] = "cancelled"]
    /\ Go(s, "done")
    /\ UNCHANGED <<lock, alloc, board, locals, outcome, trigger, cut>>

Cancel(s) ==
    /\ pc[s] = "cancel"
    /\ resv' = [resv EXCEPT ![s] = "none"]
    /\ alloc' = [alloc EXCEPT ![s] = None]
    /\ Go(s, "done")
    /\ UNCHANGED <<lock, board, locals, outcome, trigger, cut>>

CancelFails(s) ==
    /\ pc[s] = "cancel" /\ "client" \in Faults
    /\ Go(s, "done")
    /\ CallFailed(s)
    /\ UNCHANGED <<coordinator, board, locals, outcome, trigger>>

\* The job is killed: no finally block, the thread dies, a started ssh does not.
Kill(s) ==
    /\ pc[s] \notin {"done", "dead"} /\ "kill" \in Faults
    /\ Go(s, "dead")
    /\ cons' = [cons EXCEPT ![s] = None]
    /\ outcome' = [outcome EXCEPT ![s] = "failed"]
    /\ trigger' = [trigger EXCEPT ![s] = IF @ = "armed" THEN "done" ELSE @]
    /\ CallFailed(s)
    /\ UNCHANGED <<coordinator, board, token, acquired, place, tty>>

----------------------------------------------------------------------------
(* Coordinator and boards *)

Allocate(s, p) ==
    /\ resv[s] = "waiting" /\ p \in Pool /\ lock[p] = None
    /\ \A t \in Sessions : resv[t] \in {"allocated", "acquired"} => alloc[t] # p
    /\ resv' = [resv EXCEPT ![s] = "allocated"]
    /\ alloc' = [alloc EXCEPT ![s] = p]
    /\ UNCHANGED <<lock, board, pc, locals, outcome, trigger, cut>>

\* A reservation nobody waits for or acquires expires; that of a live session
\* does so only when its two client calls take a minute between them.
Expire(s) ==
    /\ resv[s] \in {"waiting", "allocated"}
    /\ \/ pc[s] \in {"done", "dead"}
       \/ pc[s] \in {"resolve", "acquire"} /\ "client" \in Faults
    /\ resv' = [resv EXCEPT ![s] = "none"]
    /\ alloc' = [alloc EXCEPT ![s] = None]
    /\ UNCHANGED <<lock, board, pc, locals, outcome, trigger, cut>>

Advance(p, from, to) ==
    /\ board[p] = from
    /\ SetBoard(p, to)
    /\ UNCHANGED <<coordinator, pc, locals, outcome, cut>>

CommandEnds(p) == Advance(p, "busy", "prompt")
FirmwareUp(p) == Advance(p, "down", "countdown")
AutobootExpires(p) == Advance(p, "countdown", "debianboot")
DebianUp(p) == Advance(p, "debianboot", "debian")
RamUp(p) == Advance(p, "ramboot", "ramlogin")

\* panic=30 in the boot arguments
RamPanics(p) ==
    /\ board[p] = "ramboot" /\ "board" \in Faults
    /\ ResetBoard(p)
    /\ UNCHANGED <<coordinator, pc, locals, outcome, cut>>

----------------------------------------------------------------------------

SessionStep(s) ==
    \/ MissingArtifact(s) \/ UsePlace(s) \/ Reserve(s) \/ ReserveReturns(s)
    \/ ReserveTimesOut(s) \/ Resolve(s) \/ ResolveFails(s)
    \/ Acquire(s) \/ AcquireRefused(s) \/ AcquireCutOff(s)
    \/ OpenConsole(s) \/ OpenFails(s)
    \/ InterceptKey(s) \/ InterceptPrompt(s) \/ InterceptEnds(s) \/ InterceptTimesOut(s)
    \/ SerialError(s) \/ RunCommand(s) \/ BootRam(s) \/ CommandFails(s) \/ LoginSeen(s) \/ ProbeSeen(s) \/ BootTimesOut(s)
    \/ CheckFails(s) \/ RebootToDebian(s) \/ RestoreSeen(s) \/ RestoreTimesOut(s)
    \/ Recover(s) \/ Release(s) \/ ReleaseIgnored(s) \/ ReleaseCutOff(s)
    \/ Cancel(s) \/ CancelFails(s)

TriggerStep(s) == TriggerUart(s) \/ TriggerSsh(s)

BoardStep(p) ==
    CommandEnds(p) \/ FirmwareUp(p) \/ AutobootExpires(p) \/ DebianUp(p) \/ RamUp(p) \/ RamPanics(p)

Next ==
    \/ \E s \in Sessions : SessionStep(s) \/ TriggerStep(s) \/ Kill(s) \/ Expire(s)
    \/ \E s \in Sessions, p \in Places : Allocate(s, p)
    \/ \E p \in Places : BoardStep(p)

Spec == Init /\ [][Next]_vars

\* The session and its thread are running programs; boards boot by themselves.
\* Nothing obliges the coordinator to allocate or to expire.
Fairness ==
    /\ \A s \in Sessions : WF_vars(SessionStep(s)) /\ WF_vars(TriggerStep(s))
    /\ \A p \in Places : WF_vars(BoardStep(p))

FairSpec == Spec /\ Fairness

----------------------------------------------------------------------------
(* Properties *)

\* From the acquire to the release, and in the finally block.
Using == {"open", "intercept", "command", "transfer", "login", "probe", "check", "restore",
          "recover", "release"}
AtConsole == Using \ {"open", "release"}

\* Whatever fails, a session between its acquire and its release owns the lock
\* of the place it resolved, and has a console open in between only.
LockDiscipline ==
    \A s \in Sessions :
        /\ pc[s] \in Using => acquired[s] /\ lock[place[s]] = s
        /\ cons[s] # None <=> pc[s] \in AtConsole

\* Two sessions never have the same serial console open: the lock taken before
\* serial.Serial() and given back after ser.close() covers every use of it.
ConsoleExclusive ==
    \A s, t \in Sessions : s # t /\ cons[s] # None => cons[s] # cons[t]

\* A session that is over has left neither its lock nor its reservation behind,
\* unless one of its labgrid-client calls failed or it was killed.
LeakOnlyIfCut ==
    \A s \in Sessions : pc[s] = "done" /\ ~cut[s] =>
        /\ \A p \in Places : lock[p] # s
        /\ token[s] => resv[s] = "none"

\* A session that passed hands its board over running Debian, even though
\* reboot threads of earlier sessions may still be around.
PassedMeansRestored ==
    \A s \in Sessions : outcome[s] = "passed" /\ pc[s] \in {"recover", "release"} =>
        board[place[s]] = "debian"

\* Between the U-Boot prompt and the probe, a board that listens or transfers is reset by
\* the session that owns it and by nobody else, other sessions' threads included.
NoResetUnderfoot ==
    [][\A s \in Sessions :
         /\ pc[s] \in {"command", "transfer", "login", "probe", "check"}
         /\ board[cons[s]] \in {"prompt", "busy", "ramlogin", "ramshell"}
         /\ board'[cons[s]] = "down"
         => pc'[s] # pc[s]]_vars

\* The console discipline, stated by itself in ConsoleUse.
Console == INSTANCE ConsoleUse WITH users <- [p \in Places |-> {s \in Sessions : cons[s] = p}]
ImplementsConsoleUse == Console!Spec
====
