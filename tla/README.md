# Board farm: specification and proofs

TLA+ models of the RISE board farm (`src/`): the hub that watches the boards,
the relay that publishes its state, and the CI sessions that boot images on the
boards. Each module is translated from the code named in its header; TLC checks
it on small instances and TLAPS proves the main theorems for all values of the
constants.

## 1. The system

| Component | State | Operations | Interacts with |
|---|---|---|---|
| Netboot session (`boards/zhihe-a210/pytest/test_yocto_netboot.py`) | locals of the test, a reboot thread, the open serial port | reserve, resolve, acquire, intercept U-Boot, boot RAM image, probe, restore, release, cancel | Labgrid coordinator through `labgrid-client`, boards through UART and ssh |
| Labgrid coordinator (external) | locks, reservations | acquire, release, reserve, cancel, show | sessions, hub, operators |
| Boards (external) | what they run | reset, autoboot, boot | sessions, hub polls |
| Composite action and TFTP archive (`.github/actions/a210-yocto-netboot-test/action.yml`) | `builds/<id>/`, `.staging-*`, `labels/latest-yocto` | stage, replace, prune, boot, promote | other jobs on the same file system, the TFTP server |
| Hub coordinator sync (`hub/app/coordinator.py`) | table `places` | `sync_coordinator_state`, `parse_place_show`, `upsert_place` | coordinator, SQLite |
| Hub telemetry (`hub/app/telemetry.py`, `hub/app/db.py`) | `board_telemetry`, `cycle_counters`, `events_log` | `poll_board_telemetry`, `upsert_telemetry`, `init_db` | boards through ssh, SQLite |
| Hub service (`hub/app/main.py`, `hub/hub.py`) | `coord_counter`, `active_subscribers`, queues | `background_scheduler`, `trigger_refresh`, `sse_stream`, `broadcast_event`, `run_poll` | all of the above, SSE clients |
| Relay (`hub/app/relay.py`, `hub/gas/Code.gs`, `hub/static/index.html`) | `_IN_FLIGHT_TYPES`, the Apps Script cache, the page's `boards` | push, `doPost`, `doGet`, `fetchRemoteRelay` | hub service, pages |
| Experimental TFTP server (`experiment/gha-test/tftp_server.py`) | one socket, the transfer under way | main loop, `handle_rrq` | boards (U-Boot) |
| Board workflows (`.github/workflows/a210_*.yml`, `yocto-zhihe-a210.yml`) | GitHub concurrency groups, runners, Labgrid locks | dispatch, acquire, test, release | coordinator, boards, each other |
| Fastboot controller (`experiment/osu_osl/scripts/enter_fastboot.py`) | the open serial port, a reboot thread | intercept, start fastboot, announce, probe, reboot to Linux | boards, the user at the terminal |
| Yocto trial (`experiment/yocto/run_yocto_trial.py`) | the same | intercept, load, boot, log in, reboot | boards, a TFTP server |

What is hard about it, and what makes each part correct:

* **Sessions** compete for boards through two paths (a pool and `--place`), each
  call to the coordinator may be cut off after taking effect, and a reboot
  thread lives longer than what started it. Correct: nobody uses a console he
  has not locked, nothing is left behind, a board is not reset under the feet of
  its owner, and boards end up on Debian wherever the session's last lines are heard.
* **Archive**: directories are replaced and pruned by several commands while
  boards fetch from them. Correct: a passing boot ran one whole build.
* **Hub**: scheduler, refresh handlers and `hub.py poll` processes read and
  store the same rows, with an await between reading and storing. Correct: the
  tables follow the coordinator, counters count reboots, every connection gets
  the last broadcast.
* **Relay**: snapshots are pushed by several tasks over a network that delays
  and loses them. Correct: the public state follows the hub and does not go back.
* **Console scripts** of the experiments take no lock, read a buffer all ports of
  a device share, and cannot tell one prompt from another. Correct: what a script
  does next (announce fastboot, type `booti`) fits what the board runs, and a
  script that returns a board returns it to Debian.
* **Workflows** are kept apart by two mechanisms that do not know each other, and
  a lock belongs to a user, not to a job. Correct: each mechanism keeps its own
  users apart, locks do not outlive their jobs, requests end.
* **TFTP server**: one thread, one socket, datagrams of all clients. Correct: a
  file arrives whole. It need not: the server goes on whatever it received. What
  holds is an exact account of what a client misses, and that the server comes back.

Every hazard found is listed in `PROJECT.json` with its line and the properties
aimed at it; a note says what part of it those properties leave out.

## 2. Modules

| Module | Models | Status |
|---|---|---|
| `NetbootSession` (+ `ConsoleUse`, the abstract console discipline) | the session, its thread and `finally` block | checked, proved, refinement proved |
| `NetbootRecovery` | the same, with a history of recoveries that were not heard | checked |
| `RebootCounter` | one board's polls, the SQLite transaction, processes | checked, proved |
| `HubService` | sync, scheduler, refresh, event stream, restart | checked, proved |
| `HubTiming` | the same hub, the steps of its scheduler taking time | checked, proved, refinement proved |
| `RelayCache` | pushes, in-flight guard, cache, overlay, pages | checked, proved |
| `TftpArchive` | staging, pruning, boots and label on the shared file system | checked, proved |
| `TftpServer` | the server loop and RFC 1350 clients | checked, proved |
| `UbootConsole`, `FastbootSession`, `YoctoTrial`, composed by `ConsoleScripts` | one board's console, what both scripts share, and each script | checked, proved |
| `BoardAccess` | the workflows on one board: group, runners, lock | checked, proved, refinement of `ConsoleUse` proved for one runner |

`MC*` modules only name the model values and instances of the configurations;
`*_proofs` modules hold the theorems. The modules compose through what they
assume of each other: `HubTiming`, which extends `HubService`, justifies the free
choice `due'` of `RelayCache`; `HubService` leaves the telemetry tables to `RebootCounter`;
`TftpArchive` abstracts the boot of `NetbootSession` to its three fetches and
the verdict. `BoardAccess` abstracts a whole `NetbootSession` to the time it is at
the console of one board, and adds who else may be there; `ConsoleScripts` shows
what company at a console does to a script. `RebootCounter` is per board because rows of different boards never
meet in a statement.

### Correspondence

**NetbootSession.** `pc` names the statement the test is at. Each `labgrid-client`
call is an action that succeeds, one that is refused and one that is cut off
after or before taking effect. `Unwind` is the `finally` block: the first of
recover, release, cancel that has something to do. `trigger` is the daemon thread
of `_intercept_uboot`: `TriggerUart` its write, `TriggerSsh` its ssh, which only
a board in Debian obeys. `board` is what the UART shows; a reset takes it through
`down`, `countdown` and, when nobody types, `debianboot` to `debian`. `dhcp` and
the transfers make it `busy`; a `TimeoutError` leaves it so (`CommandFails`), and
what `Recover` types then is lost, since a running command hears only ctrl-C. Which
boards that befell is the history `deaf` of `NetbootRecovery`. Time is
modelled where it orders steps: a timeout of the session is enabled only when
the awaited event can no longer come, or when a fault of the board is allowed; a
reset outlasts the 13 s of a reboot thread. The names in `Faults` select the
failures a configuration allows.

**RebootCounter.** The SELECT of `upsert_telemetry` runs in autocommit, the first
UPDATE opens the transaction: `Select`, `Begin`, `Commit`. `LoopFree` says that
tasks of the service do not interleave there (no await), processes do. `boot`
inside a sample is history: it tells which boot an uptime belongs to. `strayed`
and `hidden` are history too. The first: some commit compared with an uptime that
is no longer stored, stored an empty answer as uptime 0, or stored a sample older
than the last one. The second: some commit stored no uptime where there was one,
skipped a boot, or found the uptime of the next boot already past the last.

**HubService.** One `Step` per await of a task. `Turn(t)` states that between two
awaits no other task of the service runs. A reservation is a version number, so
that "older" and "newer" can be compared. The queue of a connection that is gone
is not kept, since no one reads it. `calm` is the environment's promise that no
query, write, read or service fails any more; it may be given at any time or
never.

**HubTiming.** The steps of `HubService`, those of the scheduler with any duration
up to the timeouts. Nothing is added to what the hub does: `since`, `skips`,
`polled` and `gap` only measure (`TimedImplementsHub`). A poll starts in the step of
the scheduler that finds the counter at the interval; refreshes and the streams go
on meanwhile, and a restart begins the measurement anew.

**RelayCache.** `waiting` are threads in `urlopen`, `network` requests not yet
executed: after the 8 s a request leaves the first set and may stay in the
second. `calm` as in `HubService`: no request is lost, no entry evicted from then
on; late executions go on.

**TftpArchive.** `rm -rf` goes file by file, `cp` leaves a torn file while it runs,
`mv` is a rename unless the target exists, `find -exec` makes its list first. The
build id contains the run number, therefore only attempts of one run share an id
and attempts follow one another (`ArchiveAssumption`, `Retries`).

**TftpServer.** `queue` is the socket's buffer; `Receive` takes any datagram for
the answer, as `recvfrom` does. Chunks are numbers and the content of a chunk is
its number. The clients are U-Boot's: they accept the block awaited, ignore
others and repeat their last datagram; each request comes from a new port.
A file that cannot be opened is refused with an ERROR when its path does not exist
(`Refuse`) and in silence otherwise (`CannotOpen`). `served`, `slips` and `robbed`
are history: how often the client's last request was served, how many chunks of it
the server went past without a new block number, and which waiting clients have had
that happen or lost a datagram, in the network or to another chunk's answer.

**UbootConsole and its scripts.** `unread` counts prompts in the input buffer: a
script reads at least one and takes what it reads for the answer to its last
line. `Hears` says what a line does to what the board runs (a prompt obeys, a
countdown stops, a transfer and fastboot hear only ctrl-C). `trigger` is the
reboot thread, as in `NetbootSession`. The scripts' waits are a few seconds each,
and time is modelled where it orders steps: a reset takes longer than a thread
whose ssh succeeded still needs; the thread has ended before a hunt for the prompt
times out and before a RAM image shows its login. `misled` is history: why a
script cannot know its board (`Reasons`); `last` tells how the last script to
leave left it. Which option a controller runs with is chosen at `Open`.

**BoardAccess.** `group` and `pending` are GitHub's concurrency group of the board,
with `cancel-in-progress: false`: one job has it, one waits, a third takes the
place of the one that waits. `on` are the runners with the label
`board-farm-controller`. `lock` is the job whose acquire took the Labgrid lock;
the coordinator compares only its user, so that any job of that user may use the
place and release it. `left` (jobs that were cut off, failed a test or could not
release) and `robbed` (jobs whose lock another released) are history. A Yocto
session reserves from a pool; here are those that got this board.

## 3. What TLC checks

| Run | Instance | Shows |
|---|---|---|
| `netboot_faults` | 3 sessions, one by `--place`, 1 board, every fault | consoles are exclusive (also as refinement of `ConsoleUse`), nothing leaks from a session none of whose calls was cut, a passed session hands over Debian, no board that listens is reset by another session's thread |
| `netboot_live` | 3 sessions, one by `--place`, 2 boards | whatever transfers and checks fail, every board comes back to Debian for good, unless its last recovery was typed into a running transfer: then it stays at the prompt |
| `reboot_pollers` | 2 service tasks, `hub.py poll`, 3 boots, crashes, empty answers | counters and log agree in every committed state; a reboot that did not happen is counted only after a sample was stored out of turn, and the count is exact until then unless one of three gaps hid a reboot |
| `hub_sync` | scheduler and `hub.py poll`, 2 places, failing queries, writes, reads, deletion, restart | a sync begun after the last change, with no older one under way, leaves the rows right |
| `hub_live` | scheduler, refresh, 1 connection, 1 place, failing writes and reads, restart | no broadcast since a connection opened is missed; when failures cease, rows and live views follow the coordinator |
| `poll_gap` | scheduler and refresh, interval 7, step 2, durations up to 2 and 3, 2 skips, failing reads, restart | the exact bounds of the time between two polls |
| `relay_late` | scheduler, refresh, 1 page, POSTs given up, lost and late, evictions | a POST still waited for is never older than the entry it replaces; when losses cease, relay and page follow the hub |
| `archive_shared` | two attempts and another run stage, a fourth boots an archived build; cancellation anywhere, pruning | one whole build per passing boot, a stager its own, `latest-yocto` leads to what booted |
| `tftp_boards` | 2 boards, 3 requests, 1 repetition, losses, files of 0 to 3 chunks, 2 block numbers | a transfer that ended misses as many chunks as the server went past without their acknowledgement, and has the rest in order; a numberable file arrives unless that happens or a datagram is lost; the server always comes back |
| `console_scripts` | one controller, one trial, any order and at once, kills, 2 prompts in the buffer | a script that nothing misled announces fastboot and types `booti` only when that is true and sensible; the last script to return a board returns it to Debian |
| `board_access` | 2 runs of each of 3 kinds of workflow, 2 runners, one job of another user | two jobs share a console only across the two mechanisms, or after a robbed lock; a lock outlives only a job that was cut, failed or could not release; every request ends |

One run states what a text of the repository says and must be found violated:
`archive_restage`. The text says that a build is never modified after its `mv`
(quoted in `PROJECT.json` under `findings`); the code lets a later attempt of the
run replace its build under a running boot.

**Bounds.** In `netboot_faults` a third session meets what a dead first and a
second left behind, on one board so that all compete; the fallback console is then
the board's own, which is what `ConsoleExclusive` needs (section 5 tells what
happens otherwise). Two places separate what a sync shares between places from
what it does not; one reservation change with the others' syncs before, during and
after it gives each order of "older" and "newer". Three boots let two fall between
two polls; uptimes up to 2 let an uptime drop, stay and grow past its predecessor.
Two prompts in the buffer (`MaxPrompts`) are one to read and one to be left over;
one script of each kind is enough for company, since what a script knows of
another is only that it is there. Two runners are what lets two jobs meet; two
runs of a kind contend, a third of the group's kinds is the one that is replaced. `MaxQueue`, `MaxPosts` and
`MaxResends` cap what the environment adds and appear in the guards only.
`relay_late` has no poll process and one fetch of a page at a time: what the
in-flight sets of two processes do to each other, and a late answer overtaking a
newer one in the page, are not exercised by it. `TftpServer` scales 65535 down to `MaxBlock`, with files that just fit and one
that does not. `HubTiming` is run with an interval that is no multiple of the
step, and without connections and changes, which leave the counter alone.

Deadlock checking is off only where the system may stop: sessions and jobs are
one-shot processes, clients need not ask again. Symmetry is used in safety runs
only, over sessions or tasks that differ in nothing but their names.

### Fairness

* `NetbootSession`: weak fairness of each session, each thread and each board:
  they are running programs. Nothing is assumed of the coordinator's allocation
  and expiry.
* `HubService`: strong fairness of the scheduler's and the other tasks' steps,
  because all external calls have timeouts (3, 4, 8 s) and the loop sleeps between
  steps that other tasks may take; a handler need never be called.
* `RelayCache`: the same for the scheduler and pushes; weak fairness of the
  threads (they have a timeout), of the relay executing what reached it, and of
  serving and showing the fetches of a page that is open. That a request is not
  lost is never assumed, only that losses cease where a property says so.
* `ConsoleScripts`: weak fairness of the board, of each script and of its thread:
  every wait of a script has a limit. Nobody has to press Ctrl+C, and a fastboot
  session may be left open for ever.
* `BoardAccess`: weak fairness of runners taking ready jobs and of what has
  started; `timeout-minutes` and GitHub's own limit end a job that hangs. Nobody
  has to dispatch.
* `TftpServer`: weak fairness of the thread, and of clients answering what reached
  them; never of asking or of sending again.

## 4. What is proved

All with tlapm, for every value of the constants allowed by the named
assumptions.

* `NetbootSession_proofs`: type correctness, `LockDiscipline`, `LeakOnlyIfCut` for
  any sessions, places and faults. The inductive invariant `IInv` adds to the type
  invariant what each place in the program knows: where the token, the resolved
  place and the allocation are defined, that a lock is owned by the session that
  is between acquire and release (or whose call was cut), and the same for
  reservations; without these the release could not be tied to the lock it frees.
  With `"path" \notin Faults` (every place in use publishes its serial path) the
  resolved console is that of the resolved place (`Endpoints`), which gives
  `ConsoleExclusive` and the refinement of `ConsoleUse` for any number of boards.
  Under the same assumption `StageInv` adds what the board runs at each place in
  the program, that a thread has written to the UART before its board boots, and
  that the reset ending a RAM boot leaves no thread that could reset the board
  again (`ResetBoard`): so `PassedMeansRestored` and `NoResetUnderfoot`.
* `RebootCounter_proofs`: type correctness and `LogMatchesCounters` for any number
  of pollers, crashes included; the invariant ties the open transaction to its
  writer and says that only started processes poll. `OnlyStraysOvercount`, for any
  pollers and faults: `TurnInv` says that, until a sample strays, the count is at
  most the boot of the last uptime stored. `CountsWhatItSees`: `ExactInv` turns "at
  most" into "exactly" until a reboot is hidden. `NeverOvercountsHolds`: with one poller and no empty answers
  nothing strays, and no reboot too many is ever counted; the invariant relates
  each sample to the boot it was read in.
* `HubService_proofs`, for any places, refreshes, polls and connections, and any
  failures and restarts. The one assumption that is new to the proofs is that there
  are finitely many refresh handlers, so that busy tasks can be counted.
  * Type correctness. The bound of a queue is not inductive by itself: `QueueRoom`
    counts, besides what waits, each task of the service that has begun and not yet
    broadcast (`Room` leaves a place for each).
  * `NoMissedBroadcast`. `StreamInv` follows a connection: it is registered as long
    as it is open, and the last broadcast of its time is the last element of its
    queue, or else what its client was sent last.
  * `SettledSync`. `CleanInv` says what the history `clean` buys: while one sync is
    clean all that run are, their answers are up to date, and so are the rows of the
    places they have been through. A clean sync may store next to others, but not
    next to one that read before the change.
  * `AloneNeverBack`: where the scheduler is the only task, no row is replaced by an
    older reading. With a second task TLC finds the step that does so.
  * `TimedImplementsHub` and `GapBounded` for all intervals and durations.
    `ScheduleInv` counts the rounds since the last poll: the counter is their number
    times the step, and the time since lies between the same multiple of the step
    and of step plus longest sync. Multiplication is split into lemmas on one more
    round.
* `TftpArchive_proofs`: type correctness, and for any jobs, builds and retries
  `BootsOwnBuild`. The invariant follows a job's files from the private directory
  through the rename to the board: `Order` (attempts follow one another) leaves one
  stager of an id under way, so that nobody else renames into it, and pruning only
  takes files away. `BootsOneBuild` when a build booted with `skip_stage` has been
  staged by one attempt; without that assumption `archive_restage` refutes it.
  `LabelIsVerified` under the same assumption: some job that is done accounts for
  the label (`Accounts`), because who stages over it later repeats that job's run.
* `RelayCache_proofs`: type correctness, which includes that no process has two
  threads waiting with one type; and for a hub without poll processes
  `AwaitedIsNewest`. The invariant bounds all that is under way or stored by the
  database, and by each fresh POST that is waited for: the guard on the types in
  flight makes the next push find none waiting.
* `ConsoleScripts_proofs`: for any scripts on a board type correctness,
  `ActiveWhenAnnounced` and `BootsAfterLoading`. The invariant says what a script
  that nothing misled knows at each line: it is alone, its board is where its last
  line took it, its thread can no longer reset the board, and the prompts in the
  buffer are answers to its own lines.
* `BoardAccess_proofs`: for any jobs, runners and users type correctness,
  `SharedOnlyAcross` and `LeakExplained`; the invariant ties the group to the one
  job of it that has been let through and the lock to where its job is. With one
  runner `OneRunnerOneUser`: the jobs implement `ConsoleUse` as the sessions do, one
  user at a time, since who arrives at the console has the only runner. With two
  runners they do not, which is what `SharedOnlyAcross` has to except.
* `TftpServer_proofs`: for any clients, sizes and bounds, with and without loss and
  delay, type correctness and `ChunksAccounted`, whoever else uses the server. The
  invariant follows the account of a request from its first service (`Fresh`) to the
  client's last chunk: the place of the server in the file is its block number plus
  what slipped (`Flow`), the chunks in flight are numbered with what had slipped when
  they were sent (`Bounded`), and come in the order of the file after those the
  client has (`Taken`). When the last chunk is on its way nothing slips any more, so
  its block number tells how many were missed.

Only model-checked: the properties about liveness and fairness (out of the prover's
reach, as are `ENABLED` and induction over data): `BoardsComeBack`, `Converges`,
`FollowsHub`, `FilesArrive`, `ServerComesBack`, `BackInDebian` and `RequestsEnd`.
Every safety property that a passing run checks is stated by a theorem.
No module uses RECURSIVE operators.

## 5. What the models also show

Behaviours the modules have and no run forbids, because no sentence of the
repository promises otherwise, or because another run has the more important
disagreement of the same part:

* **Fallback console.** A place that shows no serial path is given the fixed
  device `/dev/ttyUSB2` (`test_yocto_netboot.py:72`). With two boards and `"path"`
  in `Faults` two sessions can have one console open, each holding the lock of its
  own place. The reference `exporter.yaml` lists a serial port for `a210-board-03`
  only; the assumption is that whatever other board joins the pool has one as well.
* **Restore.** `test_yocto_netboot.py:9` says that the test "always restores the
  board cleanly back to its persistent eMMC Debian baseline before releasing the
  pool reservation". After a failure (line 318) it types a reset and releases
  without waiting: the next session may acquire a board that is still down. If the
  failure is the `TimeoutError` of a command that goes on (line 116), the reset is
  typed into it and lost, and the board stays at the U-Boot prompt: without the
  exception for `deaf` boards TLC refutes `BoardsComeBack` with no fault enabled.
* **False idle.** `hub/README.md:8` says that the hub tracks places as Idle,
  Acquired, Reserved or Offline. A query that fails without output
  (`coordinator.py:17`) is stored as idle, for a place that may be acquired;
  `SettledSync` asks for a sync whose queries have answered.
* **Out-of-turn samples.** An older sample stored late, two processes comparing
  with one old uptime, and an ssh that prints nothing and is stored as uptime 0,
  online, each make the counter count a reboot that did not happen. They are the
  three cases of `Strays`.
* **Hidden reboots.** A poll of a board that is down stores uptime 0, and the next
  one finds no drop (`db.py:104`); two reboots between two polls count once; a board
  polled late enough in its new boot has an uptime past the old one. These are the
  three cases of `Hides`, and by `CountsWhatItSees` there is no fourth.
* **Fastboot sessions.** Ctrl+C before the handler is installed leaves the board at
  the prompt (`experiment/osu_osl/README.md:437` promises the reboot for the
  session). "boot" typed into a countdown stops it, and the board stays at the
  prompt. A comment (`enter_fastboot.py:215`) says that the script waits for the
  listening notification; it waits two seconds. Prompts left over from the keys of
  the interception pass for answers: each line may be typed one answer early.
* **Trials** print "Complete!" and end with 0 when no login was seen, and boot what
  the transfers left even if `dhcp` gave no prompt twice.
* **Two mechanisms on one board.** `tftp-boot-gha-and-flashing-design.md:115` says
  "Concurrency is scoped per-machine so multiple workflows can't fight over the same
  board." A trial holds the group and no lock, a Yocto session the lock and no such
  group: with two runners both are at one console, which `SharedOnlyAcross` has to
  except. With one runner they are not (`OneRunnerOneUser`).
* **Robbed and leaked locks.** Telemetry that was refused goes on (`|| true`), uses
  the lock another job of its user holds and releases it under that job; a failing
  pytest skips the release. A request that waits in a group is dropped when a third
  comes.
* **Stale syncs.** A sync that was under way before a change may store the older
  answer after a newer one. The next sync puts it right: that is why `SettledSync`
  asks for no older sync and `Converges` says "for good".
* **Deleted places** keep their last row.
* **Poll intervals** are counted in rounds, not seconds: `GapBounded` gives the
  exact range.
* **Relay.** A POST given up after 8 s may be executed after its successor and
  stays until the next push; a refresh may push older telemetry than the scheduler
  has; `hub.py poll` has an in-flight set of its own; `doGet` lays the reservations
  it has over telemetry that may be newer.
* **Event stream.** A queue is unregistered only when the cancellation arrives at
  the await of the queue; one abandoned elsewhere stays and is filled for ever.
* **TFTP server.** After a timeout, or a datagram that is not the acknowledgement
  awaited, the next chunk goes out under the old block number. Of two chunks with one
  number the client keeps the first and passes the other over: it ends with a file
  that lacks a chunk and takes it for whole. That needs no loss: when a second board
  asks while three chunks go to the first, its request is consumed as an answer, and
  the first board ends with chunks 1 and 3. "TFTP protocol (RFC 1350)" in the
  docstring (`tftp_server.py:4`) promises a server that sends the unacknowledged
  block again. `ChunksAccounted` counts the damage; it does not exclude it.
* **Archive.** The staging directory of a cancelled job is never pruned. A promoted
  run that is repeated replaces what `latest-yocto` leads to before the new bundle
  has booted (`Repeated`).

## 6. Not modelled

* **Read errors** in the middle of a file the TFTP server sends.
* **Data**: hub configuration (constants and environment, read once), board tables,
  contents of telemetry other than online and uptime, tags and matches (stored with
  the rest, they decide nothing), recipes and machine configuration.
* **I/O without a state of its own**: deployment by ssh, VPN and docker wrappers,
  the search for a fastboot binary, BitBake and kernel builds, artifacts.
* **The page's rendering**, which ships with a relay URL, so that its local SSE mode
  is not used; the relay's token handling and log rate limit; `add_event`, which
  nothing calls.
* **The QEMU experiment**: `mock_target.py` answers a fixed dialogue with canned
  text on one connection, `kernel_test.yml` and `main.yml` run it; there is one
  process, and nothing to interleave.
* **`run_tftp_trial.py` and the native U-Boot test** beyond their presence at a
  console (`BoardAccess`): the dialogue of the first is that of
  `run_yocto_trial.py` without the login.

## 7. Plan

Every safety property has its proof. What is left: `BoardAccess` for several
boards, once jobs choose theirs; and lemmas that bring liveness nearer, such as what
a calm hub's steps do to the distance from the coordinator (`Converges`).

Order so far: the netboot session first (it owns the hardware), then the counters
and the sync of the hub, the relay, the archive, the TFTP server; then the console
scripts and the workflows, which meet the sessions on the same boards.
