---- MODULE UbootConsole ----
(***************************************************************************)
(* One board's serial console and what the scripts that drive its U-Boot   *)
(* have in common: experiment/osu_osl/scripts/enter_fastboot.py and        *)
(* experiment/yocto/run_yocto_trial.py.  A script opens the port without a *)
(* lock, starts a thread that reboots the board, stops the autoboot        *)
(* countdown and types the lines of its Program, each after the prompt of  *)
(* the one before.                                                         *)
(*                                                                         *)
(* All ports of one device share its input: unread counts the prompts that *)
(* wait there.  They look alike, so a script cannot tell an old one from   *)
(* the answer to its last line.                                            *)
(***************************************************************************)
EXTENDS Integers, Sequences

CONSTANTS
    Controllers,  \* runs of enter_fastboot.py
    Trials,       \* runs of run_yocto_trial.py
    MaxPrompts    \* bound: prompts waiting in the input buffer

Scripts == Controllers \cup Trials

ASSUME ConsoleAssumption ==
    Controllers \cap Trials = {} /\ MaxPrompts \in Nat \ {0}

VARIABLES
    board,    \* what the board runs
    network,  \* its last dhcp or transfer in U-Boot went well
    unread,   \* prompts in the input buffer
    pc,       \* where each script is
    line,     \* the line of its Program it types or awaits
    trigger,  \* its reboot thread
    goal,     \* the option --reboot or --probe, or neither
    misled,   \* history: what kept each script from seeing its board as it is
    last      \* history: how the last script to leave left the board

vars == <<board, network, unread, pc, line, trigger, goal, misled, last>>

\* enter_fastboot.py; dhcp is repeated only if it gave no prompt, and --mode usb
\* goes straight to the last line.
FastbootLines == <<"setenv", "dhcp", "dhcp", "udp", "usb">>

\* run_yocto_trial.py: autoload, dhcp, serverip, three files, bootargs, booti.
TrialLines == <<"setenv", "dhcp", "dhcp", "setenv", "tftp", "tftp", "tftp", "setenv", "booti">>

Program(s) == IF s \in Controllers THEN FastbootLines ELSE TrialLines
Retry == 3             \* the repeated dhcp
UdpLine == 4
UsbLine == 5
Starts == {"udp", "usb", "booti"}  \* lines that leave U-Boot

Boards == {"debian", "down", "countdown", "debianboot", "prompt", "busy",
           "fastboot", "ramboot", "ramlogin", "ramshell"}
Hunting == {"hunt", "keyed"}
Places == Hunting \cup {"off", "type", "await", "started", "serve", "login", "halt", "boot", "gone"}

\* Another script was there; the board was not in Debian at first; a line was
\* typed over an unread prompt; a line got no answer.
Reasons == {"company", "found", "stale", "silent"}

TypeOK ==
    /\ board \in Boards /\ network \in BOOLEAN /\ unread \in 0..MaxPrompts
    /\ pc \in [Scripts -> Places]
    /\ line \in [Scripts -> 1..Len(TrialLines)]
    /\ \A s \in Scripts : line[s] <= Len(Program(s))
    /\ trigger \in [Scripts -> {"none", "ssh", "write", "done"}]
    /\ goal \in [Scripts -> {"reboot", "probe", "session"}]
    /\ misled \in [Scripts -> SUBSET Reasons]
    /\ last \in {"none", "restored", "abandoned", "doubtful"}

Live(s) == pc[s] \notin {"off", "gone"}
Alone(s) == \A t \in Scripts \ {s} : ~Live(t)

\* A board is found in Debian, or as a script left it.
Init ==
    /\ board \in {"debian", "prompt", "fastboot"} /\ network = FALSE /\ unread = 0
    /\ pc = [s \in Scripts |-> "off"]
    /\ line = [s \in Scripts |-> 1]
    /\ trigger = [s \in Scripts |-> "none"]
    /\ goal = [s \in Scripts |-> "session"]
    /\ misled = [s \in Scripts |-> {}]
    /\ last = "none"

----------------------------------------------------------------------------
(* The board *)

\* What a line does at the prompt.  booti boots only if it likes the image,
\* fastboot over UDP starts only with an address.
Obey(cmd) ==
    CASE cmd \in {"dhcp", "tftp"} -> {"busy"}
      [] cmd = "usb" \/ (cmd = "udp" /\ network) -> {"fastboot"}
      [] cmd = "booti" -> {"ramboot", "prompt"}
      [] cmd = "boot" -> {"debianboot"}
      [] cmd = "reset" -> {"down"}
      [] OTHER -> {"prompt"}

\* What a line does.  The first key ends a countdown and spoils its line, but
\* the reboot thread's text starts with an empty one; ctrl-C ends a transfer and
\* fastboot, which swallow anything else; the "reboot -f" of the thread's text
\* and of the trial's commands reboots a RAM image somebody is logged in to.
Hears(cmd) ==
    IF board = "prompt" THEN Obey(cmd)
    ELSE IF board = "countdown" THEN {IF cmd = "reset" THEN "down" ELSE "prompt"}
    ELSE IF board \in {"busy", "fastboot"} /\ cmd = "interrupt" THEN {"prompt"}
    ELSE IF board = "ramlogin" /\ cmd = "root" THEN {"ramshell"}
    ELSE IF board = "ramshell" /\ cmd \in {"reset", "tests"} THEN {"down"}
    ELSE {board}

\* One more prompt in the buffer.
More == IF unread < MaxPrompts THEN unread + 1 ELSE unread
Prompted == unread' = More

Typed(cmd) ==
    /\ board' \in Hears(cmd)
    /\ IF board' = "prompt" \/ (cmd = "reset" /\ board \in {"prompt", "countdown"})
       THEN Prompted
       ELSE UNCHANGED unread
    /\ UNCHANGED network

Becomes(old, new) == board = old /\ board' = new

\* What a board does by itself.  dhcp or a transfer ends, well
\* or not; panic=30 resets a RAM image that panics.
BoardStep ==
    /\ \/ /\ Becomes("down", "countdown") /\ network' = FALSE /\ UNCHANGED unread
       \/ /\ Becomes("busy", "prompt") /\ network' \in BOOLEAN /\ Prompted
       \/ /\ \/ Becomes("countdown", "debianboot") \/ Becomes("debianboot", "debian")
             \/ Becomes("ramboot", "ramlogin") \/ Becomes("ramboot", "down")
          /\ UNCHANGED <<network, unread>>
    /\ UNCHANGED <<pc, line, trigger, goal, misled, last>>

\* `fastboot reboot` in another terminal.
UserReboots ==
    /\ \E s \in Controllers : pc[s] = "serve"
    /\ Becomes("fastboot", "down")
    /\ UNCHANGED <<network, unread, pc, line, trigger, goal, misled, last>>

----------------------------------------------------------------------------
(* The scripts *)

Go(s, place) == pc' = [pc EXCEPT ![s] = place]
Misled(s, why) == misled' = [misled EXCEPT ![s] = @ \cup why]

\* The process ends, and its daemon thread with it.
Leaves(s, how) ==
    /\ Go(s, "gone")
    /\ trigger' = [trigger EXCEPT ![s] = "none"]
    /\ line' = [line EXCEPT ![s] = 1]
    /\ goal' = [goal EXCEPT ![s] = "session"]
    /\ misled' = [misled EXCEPT ![s] = {}]
    /\ last' = how

Enters(s, place, thread, purpose) ==
    /\ pc[s] = "off"
    /\ Go(s, place)
    /\ trigger' = [trigger EXCEPT ![s] = thread]
    /\ goal' = [goal EXCEPT ![s] = purpose]
    /\ misled' = [t \in Scripts |->
                     misled[t] \cup (IF ~Alone(s) /\ (t = s \/ Live(t)) THEN {"company"} ELSE {})
                               \cup (IF t = s /\ board # "debian" THEN {"found"} ELSE {})]
    /\ UNCHANGED <<board, network, line, last>>

\* The port is opened, its input flushed and the reboot thread started.
OpenAndHunt(s, purpose) ==
    /\ Enters(s, "hunt", "ssh", purpose)
    /\ unread' = 0

\* The thread's ssh reboots a board in Debian.  Shutting down takes longer than
\* the thread then needs to type its text, which nothing reads.
TriggerReboots(s) ==
    /\ trigger[s] = "ssh" /\ board = "debian"
    /\ board' = "down"
    /\ trigger' = [trigger EXCEPT ![s] = "done"]
    /\ UNCHANGED <<network, unread, pc, line, goal, misled, last>>

\* It does not reach the board, within its five seconds.
TriggerFails(s) ==
    /\ trigger[s] = "ssh"
    /\ trigger' = [trigger EXCEPT ![s] = "write"]
    /\ UNCHANGED <<board, network, unread, pc, line, goal, misled, last>>

\* Then "\nreset\nreboot -f\n" goes to whatever the board runs.
TriggerTypes(s) ==
    /\ trigger[s] = "write"
    /\ Typed("reset")
    /\ trigger' = [trigger EXCEPT ![s] = "done"]
    /\ UNCHANGED <<pc, line, goal, misled, last>>

\* The countdown is seen and stopped with twelve " \n", once: some of their
\* prompts may come after the first one has been read.
Intercept(s) ==
    /\ pc[s] = "hunt" /\ board = "countdown"
    /\ board' = "prompt"
    /\ unread' \in More..MaxPrompts
    /\ Go(s, "keyed")
    /\ UNCHANGED <<network, line, trigger, goal, misled, last>>

\* Mutant: a read that does not wait for a prompt.
ReadsPrompt_NoWait == unread' \in (-1)..(unread - 1)

\* A read returns the prompts that have arrived: at least one of the buffer's.
ReadsPrompt == unread > 0 /\ unread' \in 0..(unread - 1)

\* U-Boot's prompt, whoever asked for it.
SeePrompt(s, first) ==
    /\ pc[s] \in Hunting
    /\ ReadsPrompt
    /\ Go(s, "type")
    /\ line' = [line EXCEPT ![s] = first]
    /\ UNCHANGED <<board, network, trigger, goal, misled, last>>

\* No prompt in 75 or 90 s, long after the thread has ended: exit code 1.
HuntTimesOut(s) ==
    /\ pc[s] \in Hunting /\ trigger[s] = "done" /\ unread = 0
    /\ Leaves(s, "abandoned")
    /\ UNCHANGED <<board, network, unread>>

Command(s) == Program(s)[line[s]]

\* A line is typed, with no look at what is still unread.
TypeLine(s) ==
    /\ pc[s] = "type"
    /\ Typed(Command(s))
    /\ Go(s, IF Command(s) \in Starts THEN "started" ELSE "await")
    /\ Misled(s, IF unread > 0 THEN {"stale"} ELSE {})
    /\ UNCHANGED <<line, trigger, goal, last>>

\* On to a later line.
Proceed(s, next) ==
    /\ Go(s, "type")
    /\ line' = [line EXCEPT ![s] = next]
    /\ UNCHANGED <<board, network, trigger, goal, last>>

\* A prompt is read: on to the next line, past the retry of dhcp.
Answered(s) ==
    /\ pc[s] = "await" /\ Command(s) # "tftp"
    /\ ReadsPrompt
    /\ Proceed(s, IF line[s] + 1 = Retry THEN Retry + 1 ELSE line[s] + 1)
    /\ UNCHANGED misled

\* No prompt in the time the line is given: on to the next all the same.
Unanswered(s) ==
    /\ pc[s] = "await" /\ Command(s) # "tftp" /\ unread = 0
    /\ Proceed(s, line[s] + 1)
    /\ Misled(s, {"silent"})
    /\ UNCHANGED unread

\* Ctrl+C before a handler is installed, a signal or the end of the terminal.
Killed(s) ==
    /\ Live(s)
    /\ Leaves(s, "abandoned")
    /\ UNCHANGED <<board, network, unread>>

Thread(s) == TriggerReboots(s) \/ TriggerFails(s) \/ TriggerTypes(s)
====
