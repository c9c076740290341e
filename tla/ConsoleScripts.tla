---- MODULE ConsoleScripts ----
(***************************************************************************)
(* Runs of enter_fastboot.py and run_yocto_trial.py on one board, in any   *)
(* order and at the same time: neither script takes a lock.                *)
(***************************************************************************)
EXTENDS FastbootSession, YoctoTrial

Next ==
    \/ BoardStep \/ UserReboots
    \/ \E s \in Controllers : Open(s) \/ Thread(s) \/ Controller(s) \/ Interrupt(s)
    \/ \E s \in Trials : StartTrial(s) \/ TrialThread(s) \/ Trial(s)
    \/ \E s \in Scripts : Killed(s)

Spec == Init /\ [][Next]_vars

\* The board runs, and so do the scripts and their threads, all of whose waits
\* have a limit.  Nobody has to press Ctrl+C.
Fairness ==
    /\ WF_vars(BoardStep)
    /\ \A s \in Controllers : WF_vars(Controller(s)) /\ WF_vars(Thread(s))
    /\ \A s \in Trials : WF_vars(Trial(s)) /\ WF_vars(TrialThread(s))

FairSpec == Spec /\ Fairness

----------------------------------------------------------------------------
(* Properties *)

\* "FASTBOOT ACTIVE" is true when it is announced, although the script reads no
\* answer to its last line: unless the board had another script's company or was
\* not in Debian at first, a line was typed over an unread prompt or got no
\* answer, or dhcp left the board without an address for fastboot over UDP.
ActiveWhenAnnounced ==
    \A s \in Controllers :
        pc[s] = "started" /\ misled[s] = {} =>
            board = "fastboot" \/ (line[s] = UdpLine /\ ~network)

\* A trial that nothing misled boots only what it has loaded: it never types
\* booti into a transfer that goes on.
BootsAfterLoading ==
    \A s \in Trials :
        pc[s] = "type" /\ line[s] = Len(TrialLines) /\ misled[s] = {} =>
            board = "prompt" /\ network

\* Once the scripts are gone the board runs Debian for good, if the last to
\* leave was one that returns it: reboot_to_linux reaches U-Boot from
\* fastboot, from a transfer and from the prompt, the trial's "reboot -f" the
\* image it logged in to.
BackInDebian ==
    <>[]((\A s \in Scripts : ~Live(s)) /\ last = "restored" => board = "debian")
====
