---- MODULE ConsoleScripts_proofs ----
(***************************************************************************)
(* Type correctness, ActiveWhenAnnounced and BootsAfterLoading for any     *)
(* number of scripts on a board.                                           *)
(***************************************************************************)
EXTENDS ConsoleScripts, TLAPS

\* Only lines that return to the prompt are awaited; a thread ends with its script.
Orderly ==
    \A s \in Scripts :
        /\ pc[s] = "await" => Command(s) \notin Starts
        /\ ~Live(s) => trigger[s] = "none"

\* What a script that nothing misled knows of its board, at each place.
Knows(s) ==
    /\ Alone(s)
    /\ trigger[s] \in {"ssh", "write"} => board = "debian" /\ pc[s] = "hunt"
    /\ pc[s] = "hunt" => board \in {"debian", "down", "countdown", "debianboot"} /\ unread = 0
    /\ pc[s] \in {"keyed", "type"} => board = "prompt"
    /\ pc[s] = "await" => board = "prompt" \/ (board = "busy" /\ unread = 0)
    /\ s \in Trials /\ pc[s] \in {"type", "await"} /\ line[s] \in {8, 9} =>
           board = "prompt" /\ network
    /\ s \in Controllers /\ pc[s] = "started" =>
           board = "fastboot" \/ (board = "prompt" /\ line[s] = UdpLine /\ ~network)

\* The steps of a script, one by one.
Act(s) ==
    \/ \E purpose \in {"probe", "session"} : OpenAndHunt(s, purpose)
    \/ Enters(s, "halt", "none", "reboot") /\ UNCHANGED unread
    \/ TriggerReboots(s) \/ TriggerFails(s) \/ TriggerTypes(s)
    \/ Intercept(s) \/ SeePrompt(s, 1) \/ (s \in Controllers /\ SeePrompt(s, UsbLine)) \/ HuntTimesOut(s)
    \/ TypeLine(s) \/ Answered(s) \/ Unanswered(s)
    \/ s \in Trials /\ (Transferred(s) \/ NotTransferred(s))
    \/ s \in Controllers /\ (Announce(s) \/ ProbeEnds(s) \/ Interrupt(s) \/ Halt(s) \/ Boot(s))
    \/ s \in Trials /\ (LogIn(s) \/ TestAndReboot(s) \/ LoginTimesOut(s))
    \/ Killed(s)

Clear(s) == Live(s) /\ misled[s] = {}
IInv == TypeOK /\ Orderly /\ \A s \in Scripts : Clear(s) => Knows(s)

\* The lengths of the programs.
LEMMA Lengths == Len(FastbootLines) = 5 /\ Len(TrialLines) = 9
BY DEF FastbootLines, TrialLines

\* The lines of both programs, one by one.
LEMMA Lines ==
    ASSUME NEW s \in Scripts, TypeOK
    PROVE  /\ Command(s) \in {"setenv", "dhcp", "tftp", "udp", "usb", "booti"}
           /\ Command(s) \notin Starts => line[s] + 1 \in 1..Len(Program(s))
           /\ Command(s) = "dhcp" <=> line[s] \in {2, 3}
           /\ s \in Trials => (Command(s) = "tftp" <=> line[s] \in {5, 6, 7})
           /\ s \in Trials => (Command(s) = "booti" <=> line[s] = 9)
           /\ s \in Trials => Command(s) \notin {"udp", "usb"}
           /\ s \in Controllers => Command(s) \notin {"tftp", "booti"}
           /\ s \in Controllers => (Command(s) = "udp" <=> line[s] = 4)
           /\ s \in Controllers => (Command(s) = "usb" <=> line[s] = 5)
<1>1. CASE s \in Controllers
  <2>1. s \notin Trials /\ Program(s) = FastbootLines
    BY <1>1, ConsoleAssumption DEF Program
  <2>2. line[s] \in {1, 2, 3, 4, 5}
    <3>1. line[s] \in 1..9 /\ line[s] <= 5
      BY <2>1, Lengths DEF TypeOK
    <3> QED BY <3>1
  <2> QED BY <1>1, <2>1, <2>2 DEF Command, FastbootLines, Starts
<1>2. CASE s \notin Controllers
  <2>1. s \in Trials /\ Program(s) = TrialLines
    BY <1>2 DEF Program, Scripts
  <2>2. line[s] \in {1, 2, 3, 4, 5, 6, 7, 8, 9}
    <3>1. line[s] \in 1..9
      BY Lengths DEF TypeOK
    <3> QED BY <3>1
  <2> QED BY <1>2, <2>1, <2>2 DEF Command, TrialLines, Starts
<1> QED BY <1>1, <1>2

\* A typed line leaves a board and a buffer.
LEMMA TypedTypes ==
    ASSUME TypeOK, NEW cmd, Typed(cmd)
    PROVE  board' \in Boards /\ unread' \in 0..MaxPrompts /\ network' = network
<1>1. board' \in Boards
  <2>1. Obey(cmd) \subseteq Boards
    BY DEF Obey, Boards
  <2>2. Hears(cmd) \subseteq Boards
    BY <2>1 DEF Hears, TypeOK, Boards
  <2> QED BY <2>2 DEF Typed
<1>2. unread' \in 0..MaxPrompts
  BY ConsoleAssumption DEF Typed, Prompted, More, TypeOK
<1> QED BY <1>1, <1>2 DEF Typed

\* Leaving preserves the types of what it sets.
LEMMA LeaveTypes ==
    ASSUME TypeOK, Orderly, NEW s \in Scripts, NEW how \in {"restored", "abandoned", "doubtful"}, Leaves(s, how),
           board' \in Boards, network' \in BOOLEAN, unread' \in 0..MaxPrompts
    PROVE  TypeOK' /\ Orderly'
<1>1. \A t \in Scripts : line'[t] \in 1..Len(TrialLines) /\ line'[t] <= Len(Program(t))
  BY Lengths DEF Leaves, TypeOK, Program
<1>2. TypeOK'
  BY <1>1 DEF Leaves, TypeOK, Go, Places, Hunting
<1>3. Orderly'
  BY DEF Leaves, TypeOK, Orderly, Live, Go, Command
<1> QED BY <1>2, <1>3

\* Next is made of these steps.
LEMMA NextActs == Next => BoardStep \/ UserReboots \/ \E s \in Scripts : Act(s)
BY DEF Next, Act, Scripts, Open, Thread, Controller, UbootReached, Converse,
       TrialThread, StartTrial, Trial, TrialHunts, TrialConverses

\* What a read leaves in the buffer.
LEMMA ReadTypes ==
    ASSUME TypeOK, ReadsPrompt
    PROVE  unread > 0 /\ unread' \in 0..MaxPrompts
<1>1. unread \in Nat /\ unread <= MaxPrompts /\ MaxPrompts \in Nat
  BY ConsoleAssumption DEF TypeOK
<1> QED BY <1>1 DEF ReadsPrompt

\* Entering preserves the types of what it sets.
LEMMA EnterTypes ==
    ASSUME TypeOK, Orderly, NEW s \in Scripts, NEW place \in {"hunt", "halt"},
           NEW thread \in {"none", "ssh"}, NEW purpose \in {"reboot", "probe", "session"},
           Enters(s, place, thread, purpose), unread' \in 0..MaxPrompts
    PROVE  TypeOK' /\ Orderly'
<1>1. misled' \in [Scripts -> SUBSET Reasons]
  BY DEF Enters, TypeOK, Reasons
<1>2. TypeOK'
  BY <1>1 DEF Enters, TypeOK, Go, Places, Hunting
<1>3. Orderly'
  BY DEF Enters, TypeOK, Orderly, Live, Go, Command
<1> QED BY <1>2, <1>3

\* Every step of a script preserves the types.
LEMMA ActTypes ==
    ASSUME TypeOK, Orderly, NEW s \in Scripts, Act(s)
    PROVE  TypeOK' /\ Orderly'
<1>1. CASE \E purpose \in {"probe", "session"} : OpenAndHunt(s, purpose)
  <2>1. unread' \in 0..MaxPrompts
    BY <1>1, ConsoleAssumption DEF OpenAndHunt
  <2> QED BY <1>1, <2>1, EnterTypes DEF OpenAndHunt
<1>2. CASE Enters(s, "halt", "none", "reboot") /\ UNCHANGED unread
  <2>1. unread' \in 0..MaxPrompts
    BY <1>2 DEF TypeOK
  <2> QED BY <1>2, <2>1, EnterTypes
<1>3. CASE TriggerReboots(s) \/ TriggerFails(s)
  <2>1. TypeOK'
    BY <1>3 DEF TriggerReboots, TriggerFails, TypeOK, Boards
  <2>2. Live(s) /\ UNCHANGED <<pc, line>> /\ \A t \in Scripts \ {s} : trigger'[t] = trigger[t]
    BY <1>3 DEF TriggerReboots, TriggerFails, TypeOK, Orderly
  <2> QED BY <2>1, <2>2 DEF Orderly, Live, Command
<1>4. CASE TriggerTypes(s)
  <2>1. Typed("reset") /\ trigger' = [trigger EXCEPT ![s] = "done"] /\ UNCHANGED <<pc, line, goal, misled, last>>
    BY <1>4 DEF TriggerTypes
  <2>2. board' \in Boards /\ unread' \in 0..MaxPrompts /\ network' = network
    BY <2>1, TypedTypes
  <2>3. TypeOK'
    BY <2>1, <2>2 DEF TypeOK
  <2>4. Live(s) /\ \A t \in Scripts \ {s} : trigger'[t] = trigger[t]
    BY <1>4, <2>1 DEF TriggerTypes, TypeOK, Orderly
  <2> QED BY <2>1, <2>3, <2>4 DEF Orderly, Live, Command
<1>5. CASE Intercept(s)
  <2>1. unread' \in 0..MaxPrompts
    BY <1>5 DEF Intercept, More, TypeOK
  <2>2. TypeOK'
    BY <1>5, <2>1 DEF Intercept, TypeOK, Go, Places, Hunting, Boards
  <2> QED BY <1>5, <2>2 DEF Intercept, TypeOK, Go, Orderly, Live, Command
<1>6. ASSUME NEW first \in {1, 5}, first = 5 => s \in Controllers, SeePrompt(s, first)
      PROVE  TypeOK' /\ Orderly'
  <2>1. unread' \in 0..MaxPrompts
    BY <1>6, ReadTypes DEF SeePrompt
  <2>2. first <= Len(Program(s))
    <3>1. CASE s \in Controllers
      <4>1. Program(s) = FastbootLines
        BY <3>1 DEF Program
      <4> QED BY <4>1, <1>6, Lengths
    <3>2. CASE s \notin Controllers
      <4>1. Program(s) = TrialLines /\ first = 1
        BY <1>6, <3>2 DEF Program
      <4> QED BY <4>1, Lengths
    <3> QED BY <3>1, <3>2
  <2>3. \A t \in Scripts : line'[t] \in 1..Len(TrialLines) /\ line'[t] <= Len(Program(t))
    BY <1>6, <2>2, Lengths DEF SeePrompt, TypeOK
  <2>4. TypeOK'
    BY <1>6, <2>1, <2>3 DEF SeePrompt, TypeOK, Go, Places, Hunting
  <2> QED BY <1>6, <2>4 DEF SeePrompt, TypeOK, Go, Orderly, Live, Command
<1>7. CASE HuntTimesOut(s) \/ Killed(s)
  <2>1. board' \in Boards /\ network' \in BOOLEAN /\ unread' \in 0..MaxPrompts
    BY <1>7 DEF HuntTimesOut, Killed, TypeOK
  <2> QED BY <1>7, <2>1, LeaveTypes DEF HuntTimesOut, Killed
<1>8. CASE TypeLine(s)
  <2>1. /\ Typed(Command(s)) /\ UNCHANGED <<line, trigger, goal, last>>
        /\ Go(s, IF Command(s) \in Starts THEN "started" ELSE "await")
        /\ Misled(s, IF unread > 0 THEN {"stale"} ELSE {})
    BY <1>8 DEF TypeLine
  <2>2. board' \in Boards /\ unread' \in 0..MaxPrompts /\ network' = network
    BY <2>1, TypedTypes
  <2>3. misled' \in [Scripts -> SUBSET Reasons]
    BY <2>1 DEF Misled, TypeOK, Reasons
  <2>4. TypeOK'
    BY <2>1, <2>2, <2>3 DEF TypeOK, Go, Places, Hunting
  <2> QED BY <2>1, <2>4 DEF TypeOK, Go, Orderly, Live, Command
<1>9. CASE Answered(s) \/ Unanswered(s) \/ (s \in Trials /\ Transferred(s))
  <2>1. PICK next \in {line[s] + 1, Retry + 1} :
            pc[s] = "await" /\ Proceed(s, next) /\ (next = Retry + 1 => line[s] \in {2, 3})
    BY <1>9, Lines DEF Answered, Unanswered, Transferred, Retry, TypeOK
  <2>2. unread' \in 0..MaxPrompts /\ misled' \in [Scripts -> SUBSET Reasons]
    <3>1. CASE Answered(s) \/ Transferred(s)
      BY <3>1, ReadTypes DEF Answered, Transferred, TypeOK
    <3>2. CASE Unanswered(s)
      BY <3>2 DEF Unanswered, Misled, TypeOK, Reasons
    <3> QED BY <1>9, <3>1, <3>2
  <2>3. next \in 1..Len(Program(s)) /\ Len(Program(s)) <= Len(TrialLines) /\ Len(Program(s)) \in Nat
    <3>1. line[s] + 1 \in 1..Len(Program(s))
      BY <2>1, Lines DEF Orderly, Live, Proceed
    <3>2. Len(Program(s)) = 5 \/ Len(Program(s)) = 9
      BY Lengths DEF Program
    <3>3. next = line[s] + 1 \/ next = 4
      BY <2>1 DEF Retry
    <3>4. 4 \in 1..5 /\ 4 \in 1..9
      OBVIOUS
    <3>5. next \in 1..Len(Program(s))
      BY <3>1, <3>2, <3>3, <3>4
    <3>6. Len(Program(s)) <= Len(TrialLines)
      <4>1. Len(TrialLines) = 9
        BY Lengths
      <4>2. 5 <= 9 /\ 9 <= 9
        OBVIOUS
      <4>3. CASE Len(Program(s)) = 5
        BY ONLY <4>1, <4>2, <4>3
      <4>4. CASE Len(Program(s)) = 9
        BY ONLY <4>1, <4>2, <4>4
      <4> QED BY <3>2, <4>3, <4>4
    <3>7. Len(Program(s)) \in Nat
      BY <3>2
    <3> QED BY <3>5, <3>6, <3>7
  <2>4. \A t \in Scripts : line'[t] \in 1..Len(TrialLines) /\ line'[t] <= Len(Program(t))
    BY <2>1, <2>3, Lengths DEF Proceed, TypeOK
  <2>5. TypeOK'
    BY <2>1, <2>2, <2>4 DEF Proceed, TypeOK, Go, Places, Hunting
  <2> QED BY <2>1, <2>5 DEF Proceed, TypeOK, Go, Orderly, Live, Command
<1>10. CASE NotTransferred(s) \/ LoginTimesOut(s)
  <2>1. board' \in Boards /\ network' \in BOOLEAN /\ unread' \in 0..MaxPrompts
    BY <1>10, ReadTypes DEF NotTransferred, LoginTimesOut, TypeOK
  <2> QED BY <1>10, <2>1, LeaveTypes DEF NotTransferred, LoginTimesOut
<1>11. CASE Announce(s) \/ ProbeEnds(s) \/ Interrupt(s)
  <2>1. TypeOK'
    BY <1>11 DEF Announce, ProbeEnds, Interrupt, Exit, TypeOK, Go, Places, Hunting
  <2> QED BY <1>11, <2>1 DEF Announce, ProbeEnds, Interrupt, Exit, TypeOK, Go, Orderly, Live, Command
<1>12. CASE Halt(s) \/ LogIn(s)
  <2>1. PICK cmd \in {"interrupt", "root"}, place \in {"boot", "login"} :
            Typed(cmd) /\ Go(s, place) /\ UNCHANGED <<line, trigger, goal, misled, last>>
    BY <1>12 DEF Halt, LogIn
  <2>2. board' \in Boards /\ unread' \in 0..MaxPrompts /\ network' = network
    BY <2>1, TypedTypes
  <2>3. TypeOK'
    BY <2>1, <2>2 DEF TypeOK, Go, Places, Hunting
  <2> QED BY <2>1, <2>3 DEF TypeOK, Go, Orderly, Live, Command
<1>13. CASE Boot(s) \/ TestAndReboot(s)
  <2>1. PICK cmd \in {"boot", "tests"}, how \in {"restored", "doubtful"} : Typed(cmd) /\ Leaves(s, how)
    BY <1>13 DEF Boot, TestAndReboot
  <2>2. board' \in Boards /\ network' \in BOOLEAN /\ unread' \in 0..MaxPrompts
    BY <2>1, TypedTypes DEF TypeOK
  <2> QED BY <2>1, <2>2, LeaveTypes
<1> QED BY <1>1, <1>2, <1>3, <1>4, <1>5, <1>6, <1>7, <1>8, <1>9, <1>10, <1>11, <1>12, <1>13 DEF Act, UsbLine

\* A step of another script leaves no script that nothing misled: either both
\* were there before, or one finds the other and both know of company.
LEMMA OtherStep ==
    ASSUME IInv, NEW s \in Scripts, NEW t \in Scripts, s # t, Act(t), Clear(s)'
    PROVE  FALSE
<1>1. pc'[s] = pc[s] /\ Live(s)
  BY DEF Act, OpenAndHunt, Enters, TriggerReboots, TriggerFails, TriggerTypes, Intercept,
         SeePrompt, HuntTimesOut, TypeLine, Answered, Unanswered, Proceed, Transferred,
         NotTransferred, Announce, ProbeEnds, Interrupt, Exit, Halt, Boot, LogIn,
         TestAndReboot, LoginTimesOut, Killed, Leaves, Go, Clear, Live, IInv, TypeOK
<1>2. CASE pc[t] = "off"
  <2>1. \E place \in {"hunt", "halt"}, thread \in {"none", "ssh"}, purpose \in {"reboot", "probe", "session"} :
            Enters(t, place, thread, purpose)
    <3>1. trigger[t] = "none"
      BY <1>2 DEF IInv, Orderly, Live
    <3>2. \/ \E purpose \in {"probe", "session"} : OpenAndHunt(t, purpose)
          \/ Enters(t, "halt", "none", "reboot")
      BY <1>2, <3>1 DEF Act, TriggerReboots, TriggerFails, TriggerTypes, Intercept,
         SeePrompt, HuntTimesOut, TypeLine, Answered, Unanswered, Transferred, NotTransferred,
         Announce, ProbeEnds, Interrupt, Exit, Halt, Boot, LogIn, TestAndReboot, LoginTimesOut,
         Killed, Live, Hunting
    <3> QED BY <3>2 DEF OpenAndHunt
  <2>2. ~Alone(t)
    BY <1>1 DEF Alone
  <2>3. misled'[s] = misled[s] \cup {"company"}
    BY <1>1, <2>1, <2>2 DEF Enters, IInv, TypeOK
  <2> QED BY <2>3 DEF Clear
<1>3. CASE pc[t] # "off"
  <2>1. Live(t)
    BY <1>3 DEF Act, OpenAndHunt, Enters, TriggerReboots, TriggerFails, TriggerTypes, Intercept,
       SeePrompt, HuntTimesOut, TypeLine, Answered, Unanswered, Transferred, NotTransferred,
       Announce, ProbeEnds, Interrupt, Exit, Halt, Boot, LogIn, TestAndReboot, LoginTimesOut,
       Killed, Live, Hunting, IInv, Orderly
  <2>2. misled'[s] = misled[s]
    BY <1>3 DEF Act, OpenAndHunt, Enters, TriggerReboots, TriggerFails, TriggerTypes, Intercept,
       SeePrompt, HuntTimesOut, TypeLine, Answered, Unanswered, Proceed, Transferred, NotTransferred,
       Announce, ProbeEnds, Interrupt, Exit, Halt, Boot, LogIn, TestAndReboot, LoginTimesOut,
       Killed, Leaves, Misled, IInv, TypeOK
  <2>3. Knows(s)
    BY <1>1, <2>2 DEF Clear, IInv
  <2> QED BY <2>1, <2>3 DEF Knows, Alone
<1> QED BY <1>2, <1>3

\* A script's own step preserves what it knows.
LEMMA OwnStep ==
    ASSUME IInv, NEW s \in Scripts, Act(s), TypeOK', Clear(s)'
    PROVE  Knows(s)'
<1> USE DEF Live, Hunting
<1>1. \A t \in Scripts \ {s} : pc'[t] = pc[t]
  BY DEF IInv, Act, OpenAndHunt, Enters, TriggerReboots, TriggerFails, TriggerTypes, Intercept,
     SeePrompt, HuntTimesOut, TypeLine, Answered, Unanswered, Proceed, Transferred,
     NotTransferred, Announce, ProbeEnds, Interrupt, Exit, Halt, Boot, LogIn,
     TestAndReboot, LoginTimesOut, Killed, Leaves, Go, TypeOK
<1>2. Alone(s) => Alone(s)'
  BY <1>1 DEF Alone
<1>3. CASE \E purpose \in {"probe", "session"} : OpenAndHunt(s, purpose)
  <2>1. /\ pc'[s] = "hunt" /\ board' = board /\ unread' = 0
        /\ misled'[s] = misled[s] \cup (IF ~Alone(s) THEN {"company"} ELSE {})
                                  \cup (IF board # "debian" THEN {"found"} ELSE {})
    BY <1>3 DEF OpenAndHunt, Enters, Go, IInv, TypeOK
  <2>2. Alone(s) /\ board = "debian"
    BY <2>1 DEF Clear
  <2> QED BY <1>2, <2>1, <2>2 DEF Knows
<1>4. CASE Enters(s, "halt", "none", "reboot")
  <2>1. /\ pc'[s] = "halt" /\ trigger'[s] = "none"
        /\ misled'[s] = misled[s] \cup (IF ~Alone(s) THEN {"company"} ELSE {})
                                  \cup (IF board # "debian" THEN {"found"} ELSE {})
    BY <1>4 DEF Enters, Go, IInv, TypeOK
  <2>2. Alone(s)
    BY <2>1 DEF Clear
  <2> QED BY <1>2, <2>1, <2>2 DEF Knows
<1>5. ASSUME Clear(s), Knows(s)
      PROVE  Knows(s)'
  <2>1. CASE TriggerReboots(s) \/ TriggerFails(s)
    BY <1>2, <1>5, <2>1 DEF TriggerReboots, TriggerFails, Knows, Command, IInv, TypeOK
  <2>2. CASE TriggerTypes(s)
    <3>1. board = "debian" /\ pc[s] = "hunt" /\ pc'[s] = pc[s] /\ Typed("reset") /\ trigger'[s] = "done" /\ unread = 0
      BY <1>5, <2>2 DEF TriggerTypes, Knows, IInv, TypeOK
    <3>2. board' = "debian" /\ unread' = 0
      BY <3>1 DEF Typed, Hears
    <3> QED BY <1>2, <1>5, <3>1, <3>2 DEF Knows
  <2>3. CASE Intercept(s)
    <3>1. pc'[s] = "keyed" /\ board' = "prompt" /\ trigger'[s] \notin {"ssh", "write"}
      BY <1>5, <2>3 DEF Intercept, Go, Knows, IInv, TypeOK
    <3> QED BY <1>2, <1>5, <3>1 DEF Knows
  <2>4. ASSUME NEW first \in {1, 5}, SeePrompt(s, first)
        PROVE  Knows(s)'
    <3>1. unread > 0 /\ board' = board /\ trigger' = trigger /\ pc[s] \in Hunting /\ pc'[s] = "type" /\ line'[s] = first
      BY <2>4, ReadTypes DEF SeePrompt, Go, IInv, TypeOK
    <3>2. pc[s] = "keyed"
      BY <1>5, <3>1 DEF Knows
    <3> QED BY <1>2, <1>5, <3>1, <3>2 DEF Knows
  <2>5. CASE TypeLine(s)
    <3>1. /\ board = "prompt" /\ Typed(Command(s)) /\ line' = line /\ trigger' = trigger
          /\ pc'[s] = IF Command(s) \in Starts THEN "started" ELSE "await"
          /\ misled'[s] = misled[s] \cup (IF unread > 0 THEN {"stale"} ELSE {})
          /\ trigger[s] \notin {"ssh", "write"} /\ network' = network
      BY <1>5, <2>5 DEF TypeLine, Knows, Misled, Go, Typed, IInv, TypeOK
    <3>2. unread = 0
      <4>1. ~(unread > 0)
        BY <3>1 DEF Clear
      <4> QED BY <4>1 DEF IInv, TypeOK
    <3>3. Command(s) \in {"dhcp", "tftp"} => board' = "busy" /\ unread' = 0
      BY <3>1, <3>2 DEF Typed, Hears, Obey
    <3>4. Command(s) = "setenv" => board' = "prompt"
      BY <3>1 DEF Typed, Hears, Obey
    <3>5. /\ Command(s) = "usb" \/ (Command(s) = "udp" /\ network) => board' = "fastboot"
          /\ Command(s) = "udp" /\ ~network => board' = "prompt"
      BY <3>1 DEF Typed, Hears, Obey
    <3>6. /\ Command(s) \in {"setenv", "dhcp", "tftp", "udp", "usb", "booti"}
          /\ s \in Trials /\ line[s] \in {8, 9} => Command(s) \in {"setenv", "booti"}
          /\ s \in Controllers => Command(s) # "booti" /\ (Command(s) = "udp" => line[s] = UdpLine)
      BY Lines DEF IInv, UdpLine
    <3>7. s \in Trials /\ pc[s] = "type" /\ line[s] \in {8, 9} => network
      BY <1>5 DEF Knows
    <3>8. pc[s] = "type"
      BY <2>5 DEF TypeLine
    <3>9. CASE Command(s) \in Starts
      BY <1>2, <1>5, <3>1, <3>5, <3>6, <3>9 DEF Knows, Starts
    <3>10. CASE Command(s) \notin Starts
      BY <1>2, <1>5, <3>1, <3>3, <3>4, <3>6, <3>7, <3>8, <3>10 DEF Knows, Starts
    <3> QED BY <3>9, <3>10
  <2>6. CASE Answered(s) \/ Transferred(s)
    <3>1. /\ unread > 0 /\ pc[s] = "await" /\ board' = board /\ network' = network
          /\ trigger' = trigger /\ pc'[s] = "type"
          /\ Command(s) = "tftp" => network
          /\ line'[s] = line[s] + 1 \/ line'[s] = 4
      BY <2>6, ReadTypes DEF Answered, Transferred, Proceed, Go, Retry, IInv, TypeOK
    <3>2. board = "prompt"
      BY <1>5, <3>1 DEF Knows
    <3>3. s \in Trials /\ line'[s] \in {8, 9} => network
      <4>1. s \in Trials /\ line[s] + 1 \in {8, 9} => Command(s) = "tftp" \/ line[s] = 8
        <5>1. line[s] \in 1..9 /\ (s \in Trials => (Command(s) = "tftp" <=> line[s] \in {5, 6, 7}))
          BY Lines, Lengths DEF IInv, TypeOK
        <5> QED BY <5>1
      <4> QED BY <1>5, <3>1, <4>1 DEF Knows
    <3> QED BY <1>2, <1>5, <3>1, <3>2, <3>3 DEF Knows
  <2>7. CASE Unanswered(s)
    <3>1. "silent" \in misled'[s]
      BY <2>7 DEF Unanswered, Misled, IInv, TypeOK
    <3> QED BY <3>1 DEF Clear
  <2>8. CASE Announce(s) \/ ProbeEnds(s) \/ Interrupt(s) \/ Halt(s) \/ LogIn(s)
    <3>1. pc[s] # "hunt" /\ pc'[s] \in {"serve", "halt", "boot", "login"} /\ trigger' = trigger
      BY <2>8 DEF Announce, ProbeEnds, Interrupt, Exit, Halt, LogIn, Go, IInv, TypeOK
    <3> QED BY <1>2, <1>5, <3>1 DEF Knows
  <2>9. CASE \E how \in {"restored", "abandoned", "doubtful"} : Leaves(s, how)
    BY <2>9 DEF Leaves, Go, Clear, IInv, TypeOK
  <2>10. CASE Enters(s, "halt", "none", "reboot") \/ \E purpose \in {"probe", "session"} : OpenAndHunt(s, purpose)
    BY <1>3, <1>4, <2>10
  <2> QED
    BY <2>1, <2>2, <2>3, <2>4, <2>5, <2>6, <2>7, <2>8, <2>9, <2>10
    DEF Act, HuntTimesOut, NotTransferred, Boot, TestAndReboot, LoginTimesOut, Killed, UsbLine
<1>6. CASE pc[s] = "off"
  <2>1. trigger[s] = "none"
    BY <1>6 DEF IInv, Orderly
  <2>2. Enters(s, "halt", "none", "reboot") \/ \E purpose \in {"probe", "session"} : OpenAndHunt(s, purpose)
    BY <1>6, <2>1 DEF Act, TriggerReboots, TriggerFails, TriggerTypes, Intercept,
       SeePrompt, HuntTimesOut, TypeLine, Answered, Unanswered, Transferred, NotTransferred,
       Announce, ProbeEnds, Interrupt, Exit, Halt, Boot, LogIn, TestAndReboot, LoginTimesOut,
       Killed
  <2> QED BY <1>3, <1>4, <2>2
<1>7. CASE pc[s] # "off"
  <2>1. pc[s] # "gone"
    BY <1>7 DEF Act, OpenAndHunt, Enters, TriggerReboots, TriggerFails, TriggerTypes, Intercept,
       SeePrompt, HuntTimesOut, TypeLine, Answered, Unanswered, Transferred, NotTransferred,
       Announce, ProbeEnds, Interrupt, Exit, Halt, Boot, LogIn, TestAndReboot, LoginTimesOut,
       Killed, IInv, Orderly
  <2>2. misled[s] \subseteq misled'[s] \/ pc'[s] = "gone"
    BY <1>7 DEF Act, OpenAndHunt, Enters, TriggerReboots, TriggerFails, TriggerTypes, Intercept,
       SeePrompt, HuntTimesOut, TypeLine, Answered, Unanswered, Proceed, Transferred, NotTransferred,
       Announce, ProbeEnds, Interrupt, Exit, Halt, Boot, LogIn, TestAndReboot, LoginTimesOut,
       Killed, Leaves, Go, Misled, IInv, TypeOK
  <2>3. Clear(s)
    BY <1>7, <2>1, <2>2 DEF Clear
  <2> QED BY <1>5, <2>3 DEF IInv
<1> QED BY <1>6, <1>7

\* A board's step, and the user's reboot, preserve what a script knows.
LEMMA BoardKnows ==
    ASSUME IInv, BoardStep \/ UserReboots
    PROVE  IInv'
<1>1. TypeOK'
  <2>1. board' \in Boards /\ network' \in BOOLEAN
    BY DEF IInv, TypeOK, BoardStep, UserReboots, Becomes, Boards
  <2>2. unread' \in 0..MaxPrompts
    <3>1. unread' \in {unread, More}
      BY DEF BoardStep, UserReboots, Prompted
    <3> QED BY <3>1, ConsoleAssumption DEF IInv, TypeOK, More
  <2> QED BY <2>1, <2>2 DEF IInv, TypeOK, BoardStep, UserReboots
<1>2. Orderly'
  BY DEF IInv, Orderly, BoardStep, UserReboots, Live, Command
<1>3. ASSUME NEW s \in Scripts, Clear(s)'
      PROVE  Knows(s)'
  <2>1. UNCHANGED <<pc, line, trigger, misled>>
    BY DEF BoardStep, UserReboots
  <2>2. Clear(s) /\ Knows(s) /\ Alone(s)'
    BY <1>3, <2>1 DEF IInv, Clear, Live, Knows, Alone
  <2>3. CASE BoardStep
    <3>1. CASE Becomes("busy", "prompt")
      <4>1. s \in Trials /\ pc[s] \in {"type", "await"} => line[s] \notin {8, 9}
        BY <2>2, <3>1 DEF Knows, Becomes
      <4> QED BY <2>1, <2>2, <3>1, <4>1 DEF Knows, Becomes
    <3>2. CASE ~Becomes("busy", "prompt")
      BY <2>1, <2>2, <2>3, <3>2 DEF BoardStep, Knows, Becomes
    <3> QED BY <3>1, <3>2
  <2>4. CASE UserReboots
    <3>1. pc[s] = "serve"
      BY <2>2, <2>4 DEF UserReboots, Knows, Alone, Live, Scripts
    <3> QED BY <2>1, <2>2, <3>1 DEF Knows
  <2> QED BY <2>3, <2>4
<1> QED BY <1>1, <1>2, <1>3 DEF IInv

\* IInv is inductive.
THEOREM InductiveInvariant == Spec => []IInv
<1>1. Init => IInv
  <2>1. ASSUME Init PROVE TypeOK
    <3>1. 1 \in 1..Len(TrialLines)
      BY Lengths
    <3>2. ASSUME NEW s \in Scripts PROVE 1 <= Len(Program(s))
      <4>1. Len(Program(s)) \in {Len(FastbootLines), Len(TrialLines)}
        BY Zenon DEF Program
      <4>2. Len(Program(s)) \in {5, 9}
        BY <4>1, Lengths
      <4> DEFINE n == Len(Program(s))
      <4>3. n \in {5, 9}
        BY <4>2
      <4> HIDE DEF n
      <4>4. 1 <= n
        BY <4>3
      <4> QED BY <4>4 DEF n
    <3>3. line \in [Scripts -> 1..Len(TrialLines)] /\ \A s \in Scripts : line[s] <= Len(Program(s))
      <4>1. line = [s \in Scripts |-> 1]
        BY <2>1 DEF Init
      <4>2. line \in [Scripts -> 1..Len(TrialLines)]
        BY <3>1, <4>1, Zenon
      <4>3. ASSUME NEW s \in Scripts PROVE line[s] <= Len(Program(s))
        BY <3>2, <4>1, Zenon
      <4> QED BY <4>2, <4>3
    <3>4. unread \in 0..MaxPrompts
      BY <2>1, ConsoleAssumption DEF Init
    <3>5. board \in Boards /\ network \in BOOLEAN
      BY <2>1 DEF Init, Boards
    <3>6. /\ pc \in [Scripts -> Places]
          /\ trigger \in [Scripts -> {"none", "ssh", "write", "done"}]
          /\ goal \in [Scripts -> {"reboot", "probe", "session"}]
          /\ misled \in [Scripts -> SUBSET Reasons]
          /\ last \in {"none", "restored", "abandoned", "doubtful"}
      BY <2>1 DEF Init, Places, Hunting
    <3> QED BY <3>3, <3>4, <3>5, <3>6 DEF TypeOK
  <2> QED BY <2>1 DEF Init, IInv, Orderly, Clear, Live
<1>2. IInv /\ [Next]_vars => IInv'
  <2> SUFFICES ASSUME IInv, [Next]_vars PROVE IInv'
    OBVIOUS
  <2>1. CASE BoardStep \/ UserReboots
    BY <2>1, BoardKnows
  <2>2. ASSUME NEW s \in Scripts, Act(s)
        PROVE  IInv'
    <3>1. TypeOK' /\ Orderly'
      BY <2>2, ActTypes DEF IInv
    <3>2. ASSUME NEW t \in Scripts, Clear(t)' PROVE Knows(t)'
      BY <2>2, <3>1, <3>2, OwnStep, OtherStep
    <3> QED BY <3>1, <3>2 DEF IInv
  <2>3. CASE UNCHANGED vars
    BY <2>3 DEF vars, IInv, TypeOK, Orderly, Clear, Live, Knows, Alone, Command
  <2> QED BY <2>1, <2>2, <2>3, NextActs
<1> QED BY <1>1, <1>2, PTL DEF Spec

\* The types, in every reachable state.
THEOREM TypeCorrect == Spec => []TypeOK
<1>1. IInv => TypeOK
  BY DEF IInv
<1> QED BY <1>1, InductiveInvariant, PTL

\* "FASTBOOT ACTIVE" is true when it is announced, for any number of scripts,
\* unless something misled the controller or dhcp gave no address.
THEOREM AnnouncementTrue == Spec => []ActiveWhenAnnounced
<1>1. IInv => ActiveWhenAnnounced
  BY DEF IInv, ActiveWhenAnnounced, Knows, Clear, Live, Scripts
<1> QED BY <1>1, InductiveInvariant, PTL

\* A trial that nothing misled types booti after its last file, for any number
\* of scripts.
THEOREM LoadedBeforeBoot == Spec => []BootsAfterLoading
<1>1. IInv => BootsAfterLoading
  BY Lengths DEF IInv, BootsAfterLoading, Knows, Clear, Live, Scripts
<1> QED BY <1>1, InductiveInvariant, PTL
====
