---- MODULE FastbootSession ----
(***************************************************************************)
(* experiment/osu_osl/scripts/enter_fastboot.py: a board is brought to     *)
(* U-Boot and into fastboot, and back to Debian after a probe, at Ctrl+C   *)
(* or by --reboot.                                                         *)
(***************************************************************************)
EXTENDS UbootConsole

\* The port opens.  --reboot goes straight to reboot_to_linux.
Open(s) ==
    \/ \E purpose \in {"probe", "session"} : OpenAndHunt(s, purpose)
    \/ Enters(s, "halt", "none", "reboot") /\ UNCHANGED unread

\* --mode udp has three lines before fastboot, --mode usb none.
UbootReached(s) == SeePrompt(s, 1) \/ SeePrompt(s, UsbLine)

\* Mutant: a line's prompt is not waited for, but what was read so far is flushed.
Converse_Flushes(s) ==
    \/ TypeLine(s)
    \/ pc[s] = "await" /\ Proceed(s, line[s] + 1) /\ unread' = 0 /\ UNCHANGED misled

\* send_cmd for each line; "fastboot" is typed without waiting for an answer.
Converse(s) == TypeLine(s) \/ Answered(s) \/ Unanswered(s)

\* "FASTBOOT ACTIVE" is announced after 2 s, whatever the console says.
Announce(s) ==
    /\ pc[s] = "started"
    /\ Go(s, "serve")
    /\ UNCHANGED <<board, network, unread, line, trigger, goal, misled, last>>

Exit(s) ==
    /\ Go(s, "halt")
    /\ UNCHANGED <<board, network, unread, line, trigger, goal, misled, last>>

\* The probe's fastboot client has ended, or there is none.
ProbeEnds(s) == pc[s] = "serve" /\ goal[s] = "probe" /\ Exit(s)

\* Ctrl+C in a session.  A second one starts the handler again.
Interrupt(s) == pc[s] \in {"serve", "boot"} /\ goal[s] = "session" /\ Exit(s)

\* Mutant: reboot_to_linux only types "boot".
Halt_Nothing(s) ==
    /\ pc[s] = "halt"
    /\ Go(s, "boot")
    /\ UNCHANGED <<board, network, unread, line, trigger, goal, misled, last>>

\* reboot_to_linux: ctrl-C ...
Halt(s) ==
    /\ pc[s] = "halt"
    /\ Typed("interrupt")
    /\ Go(s, "boot")
    /\ UNCHANGED <<line, trigger, goal, misled, last>>

\* ... and, half a second later, "boot"; then the script ends.  That leads to
\* Debian for sure if no other script was there and the line was not the key
\* that stops a countdown, nor text for a RAM image.
Boot(s) ==
    /\ pc[s] = "boot"
    /\ Typed("boot")
    /\ Leaves(s, IF "company" \notin misled[s] /\ board \notin {"countdown", "ramboot", "ramlogin", "ramshell"}
                 THEN "restored" ELSE "doubtful")

Controller(s) ==
    \/ UbootReached(s) \/ HuntTimesOut(s) \/ Intercept(s) \/ Converse(s)
    \/ Announce(s) \/ ProbeEnds(s) \/ Halt(s) \/ Boot(s)
====
