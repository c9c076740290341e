---- MODULE YoctoTrial ----
(***************************************************************************)
(* experiment/yocto/run_yocto_trial.py: a RAM image is loaded and booted   *)
(* from U-Boot, logged in to, and told to reboot the board.                *)
(***************************************************************************)
EXTENDS UbootConsole

\* The reboot thread is that of enter_fastboot.py, but for ssh's options.
TrialThread(s) == Thread(s)

StartTrial(s) == OpenAndHunt(s, "session")

\* The countdown is looked for and stopped, for 90 s at most.
TrialHunts(s) == Intercept(s) \/ SeePrompt(s, 1) \/ HuntTimesOut(s)

\* Mutant: a file counts as loaded as soon as the prompt is seen.
Transferred_AnyPrompt(s) ==
    /\ pc[s] = "await" /\ Command(s) = "tftp"
    /\ ReadsPrompt
    /\ Proceed(s, line[s] + 1)
    /\ UNCHANGED misled

\* A prompt after "Bytes transferred": the transfer is over.
Transferred(s) ==
    /\ pc[s] = "await" /\ Command(s) = "tftp" /\ board # "busy" /\ network
    /\ ReadsPrompt
    /\ Proceed(s, line[s] + 1)
    /\ UNCHANGED misled

\* A prompt without it, or no prompt in time: exit code 1, where the board is.
NotTransferred(s) ==
    /\ pc[s] = "await" /\ Command(s) = "tftp"
    /\ IF unread > 0 THEN ReadsPrompt ELSE UNCHANGED unread
    /\ Leaves(s, "abandoned")
    /\ UNCHANGED <<board, network>>

\* send_uboot_cmd for each line; booti is typed without waiting for an answer.
TrialConverses(s) ==
    TypeLine(s) \/ Answered(s) \/ Unanswered(s) \/ Transferred(s) \/ NotTransferred(s)

\* "login:" is seen and answered with root.  The seven seconds of the script's
\* thread have passed long before.
LogIn(s) ==
    /\ pc[s] = "started" /\ board = "ramlogin" /\ trigger[s] = "done"
    /\ Typed("root")
    /\ Go(s, "login")
    /\ UNCHANGED <<line, trigger, goal, misled, last>>

\* A second later come the checks and "reboot -f"; nothing is compared, and the
\* script ends well.
TestAndReboot(s) ==
    /\ pc[s] = "login"
    /\ Typed("tests")
    /\ Leaves(s, IF "company" \notin misled[s] THEN "restored" ELSE "doubtful")

\* No login in 85 s: the script ends well all the same.
LoginTimesOut(s) ==
    /\ pc[s] = "started" /\ board # "ramlogin" /\ trigger[s] = "done"
    /\ Leaves(s, "abandoned")
    /\ UNCHANGED <<board, network, unread>>

Trial(s) ==
    \/ TrialHunts(s) \/ TrialConverses(s)
    \/ LogIn(s) \/ TestAndReboot(s) \/ LoginTimesOut(s)
====
