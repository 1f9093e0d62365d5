# Verification of the Optolink tools

TLA+ models, TLC runs and TLAPS proofs for the programs of this repository that
run around an Optolink splitter: a serial line to a Viessmann WB2A controller
(VDensHO1), shared by a splitter, by a runtime that leaves VS1 for short
read-only P300 windows, and by helper services that write the controller over
MQTT.

    tlasany M.tla                  parse a module
    tlc -config X.cfg M.tla        check a run (PROJECT.json lists module and cfg)
    tlapm M.tla                    check the proofs of a module M

PROJECT.json maps each definition to the lines it models, lists for each property
a mutant that breaks it, and for each hazard of the code the properties that watch
it.

## 1. The system

One controller, one serial line, one owner of that line (the splitter process, or
the same process with the read-only runtime patched into its main loop), one MQTT
broker, and several helper processes under systemd. What is shared: the
controller's datapoints, the request and answer topics of the splitter, the lease
file `producer-epoch.lock`, and within the owner the queues between its threads.

| Component | State | Operations | Interacts through | What is hard | What makes it correct |
|---|---|---|---|---|---|
| **Producer lease** (`producer_fence.py`, wrapped around the services by `producer_boundary_patch.py`) | a kernel flock; a marker file `EMPTY / ACTIVE / FAILED / P300_ACTIVE / P300_FAILED` | `writer_transaction` (nestable), `mark_unverified_write`, `p300_window`, `recover` | lease file, used by all writer services and by the owner | processes die anywhere, also between `ftruncate` and `write` of the marker; the flock goes with the process, the marker stays | writers and windows exclude each other; an unverified write blocks P300; an interrupted window blocks writers, and the block can be lifted |
| **Handover coordinator** (`coordinator.py`) | `mode`, the wire's `phase`, `_recovery_attempted`, a borrowed port | `__enter__`, VS1 and P300 handovers, reads, `p300_window`, `restore_vs1`, `__exit__` | the serial line; called by the runtime, the boot and the canaries | any frame can fail; an answer may be lost after the controller has switched | a verified mode is true; no frame of the wrong protocol; one recovery; the exit leaves VS1 |
| **Serial owner runtime** (`continuous_runtime.py`, `runtime_admission.py`, `pending_refresh.py`, `ingress_epoch.py`, text of `dispatcher_patch.py`) | request queues, forced readbacks, readback ledger, admission gate, freeze mutex | MQTT callback, TCP receive, readback workers, legacy call and answer, `tick` | MQTT, TCP, the lease, the coordinator | five kinds of threads; the window must not open over a pending readback, nor a request slip in | the window is quiet; every write has been read back before; the freeze ends |
| **On-demand reads** (`continuous_runtime.py`, `scheduler.py`, `phase_planner.py`) | records, seen ids, batcher queue, cooldowns, P80/P06 samples | control socket (`submit`, `status`, `cancel`), `tick`, expiry, pruning | a local socket; the runtime's window | repeated, cancelled, expired and pruned requests; selection before and under the freeze; refused windows | one read per id; no foreign answer; nothing running for ever; P06 never too old |
| **Party emulator** (`optolink-party-emulator.py`) | state file and its copy in memory | MQTT ON/OFF, sync, time limit, button, startup recovery | MQTT requests to the splitter, JSON state file | two values on the controller and one file cannot change at once; the user changes them meanwhile | what the emulation wrote is always taken back to what the user chose |
| **Service programs** (`optolink-service-programs.py`) | `last_mode`, a command queue, retained topics | command, poll, verified write with restore, publish | MQTT requests to the splitter, retained topics | two switches on one byte; late answers; publications that fail half-way | a reported mode is on the controller; OFF ends only its own program; switches converge |
| **Splitter as the helpers see it** (external program) | request queue | work off, answer | MQTT | answers name an address, not a request | - |
| **Bounded read queue** (`BoundedReadQueue` of `scheduler.py`) | queue, tickets with deadlines, the read on the wire, the last protocol and how often in a row | submit, cancel, take, finish, close, expiry | clients' threads and one consumer | preference for the current protocol can starve the other; a ticket ends in one of four ways, once | a ticket is where its state says; the other protocol is passed over a bounded number of times |
| **Phase planner and executor**, GFA ledger (`phase_planner.py`, `phase_executor.py`, `dispatcher_bridge.py`, `scheduler.py`) | a plan, the step it has reached, the samples, the bridge's binding | plan, execute, borrow, bind, legacy call | coordinator, splitter's dispatcher | limits on waiting, absence and the age of P06 that an order must keep together; a failure at every step | the order passes no barrier; limits kept; a legacy request meets VS1 and nothing else |
| **Hardware canaries** (`shadow_canary.py`, `continuous_canary.py`, with `runtime_enrollment.py` and the overrides of `release_rollout.py`) | units, drop-in files, manifest, reports | preflight, worker, supervision, recovery | systemd, the lease | the worker ends anywhere, then the recovery does | a report tells the truth; the original services come back; nobody writes unwrapped while the splitter may open windows |
| **Schedule manager** (`optolink-schedule-manager.py`) | a draft of a day, the selection, the blocks on the controller | commands on a day, editor's load, changes and apply | MQTT requests | eight-byte blocks, three readbacks, then a restore; a draft that is older than the controller's block | the report says what is on the controller; the draft is the block it was loaded from |
| **Clock synchronisation** (`optolink-clock-sync.py`) | none between runs | one check, at most one write | MQTT requests | the clock moves while it is compared | at most one write per run, verified |
| **Maintenance core and API** (`optolink_maintenance_core.py`, `optolink-maintenance-api.py`, `optolink-maintenance.py`) | a file lock, request queue, result cache, staged values | change of a byte with restore, reset 1 then 0, snapshot | MQTT requests of two processes | a repeated request; a reset cut between 1 and 0; one process takes the answers of the other's request | a request is executed once while its result is remembered; 0x5724 is not left at 1 unnoticed |
| **Phased poll scheduler** (patch of the splitter) | phases, position in the poll list, cycle, flags | read what is due, full refresh, reload, end of cycle | splitter's main loop | refresh and reload inside a cycle | each group is read once per period, ONCE groups once, a refresh is a complete snapshot |
| **Runtime enrollment, release staging, boot, installation, profile, probes** | files and units | operator's commands | systemd, file system | - | - |

## 2. Modules

| Module | Models | Composes |
|---|---|---|
| `ProducerFence` | the lease: writers, P300 window, kills, marker I/O errors, recovery | implements `FenceContract` |
| `FenceContract` | what the lease promises, without flock, marker and processes | |
| `MCProducerFence` | writer symmetry for TLC | `ProducerFence` |
| `Coordinator` | one coordinator object and its wire, frame by frame | |
| `HybridRuntime` | the owner's main loop, the other threads, gate, ledger, freeze, `tick` up to the window's outcome | |
| `RuntimeProofs` | the safety of a session, of the main loop and its windows | `Coordinator`, `HybridRuntime`, `QueueLemmas` |
| `DemandPath` | the life of on-demand reads through socket, batcher and `tick` | extends `Queues`, implements `DemandContract` |
| `DemandContract` | what a client of the control socket may rely on | |
| `Queues` | what is left of a queue when some of it is taken out | |
| `QueueLemmas` | facts about it, and about least numbers and sequences, for all other proofs | `Queues`, TLAPS |
| `PartyEmulator` | the party emulator over a controller that its user changes too | |
| `PartyEmulatorProofs` | the safety of the emulation | `PartyEmulator`, `QueueLemmas` |
| `SplitterLink` | splitter and controller as a helper sees them over MQTT | |
| `ServicePrograms` | the two service programs | extends `SplitterLink` |
| `ScheduleBlocks` | a day's block of bytes, and the editor's arithmetic, as operators | extends `Queues` |
| `ScheduleManager` | commands and editor of the schedule manager | extends `SplitterLink`, `ScheduleBlocks` |
| `Maintenance` | service and command line under the file lock | extends `SplitterLink` |
| `MCMaintenance` | the jobs that are asked for | `Maintenance` |
| `ServiceProgramsProofs` | the safety of the service programs | `ServicePrograms`, `QueueLemmas` |
| `ScheduleManagerProofs` | the safety of the schedule manager | `ScheduleManager`, `QueueLemmas` |
| `CanarySession` | worker, recovery and launch of the two canaries | |
| `MCCanarySession` | the writer services | `CanarySession` |
| `MaintenanceProofs` | the safety of the maintenance and of the canary sessions | `Maintenance`, `CanarySession`, `QueueLemmas` |
| `PollScheduler` | what the splitter's main loop reads in a cycle | |
| `ReadQueue` | the bounded read queue | extends `Queues` |
| `ReadPhases` | planner as operators, executor and bridge as steps | |
| `MCReads` | one of the three at a time | `PollScheduler`, `ReadQueue`, `ReadPhases` |
| `ReadsProofs` | the safety of queue and poll list, of on-demand reads, and their contract | `PollScheduler`, `ReadQueue`, `DemandPath`, `QueueLemmas` |
| `WindowProofs` | the safety and refinement of the lease, the safety of batches, their order and the bridge | `ProducerFence`, `ReadPhases`, `QueueLemmas` |

The modules meet at named seams. `HybridRuntime` and `DemandPath` describe the same
`tick`: the first with the gate, the ledger and all threads, the second with the
tickets and time, and each takes the decisions of the other as a choice. Both take
the lease as a choice (admit or refuse), which `ProducerFence` models; the window's
outcome (verified VS1 or not) is a choice in both, which `Coordinator` models. A
choice allows more than the code does, so a safety property that holds with it
holds with the component behind it. The liveness properties do not rely on a
choice being made in one way, except where a fairness condition says so.
In the same way `ReadPhases` abstracts the frames that `Coordinator` has,
`CanarySession` the inside of the lease, and `DemandPath` uses the planner's decision
for reads of one protocol, which `ReadPhases` has for batches of both.

Each module states one invariant `...Inv`: a type invariant and named parts, each with
a comment of its own. A run checks the conjunction, and TLC names the part that fails.

### ProducerFence and FenceContract

`holder` is the flock, `marker` the file, `pc` where each process is, `prior` and
`failed` the two fields of the `active` record of `writer_transaction`, `verified`
the field of `P300WindowProof`. `_marker` is `Truncate` followed by `Write`,
because a process can end between the two. Each of its system calls may also raise, and
leaves another marker: the old one (`AcquireFails`, `LatchFails`, `RestoreFails`,
`CloseFails`: the ftruncate), none (`WriteFails`), or the new one (`SyncFails`: the
fsync). The exception ends in the unlock (`Unwinds`), but for a latch inside the body,
which may swallow it and go on (`Swallowed`). `LatchAndStay` covers the nested
transaction whose exception the outer body swallows and `mark_unverified_write`,
`Raise` an exception that ends the transaction. `StopServices`, `OriginalGfa`,
`ClearAndRestart` are the recovery of `shadow_canary.py`.

Four variables are not in the code: `wire` (what the controller speaks), `debt`
(writers that have left an unverified write), `aborted` (writers that left their marker
behind with nothing to verify, because an fsync or an ftruncate raised) and `torn` (a
fault hit a truncated marker while there was something to remember). The marker *stands
for* `wire` and `debt`; the properties say that it does, up to `torn`.

`FenceContract` has no marker: a user is admitted by the facts themselves. The
refinement maps holder, `debt` and `torn` to the contract's `user`, `unsettled` and
`amnesia`.

### Coordinator

A procedure (`op`) is a list of frames (`todo`), exchanged one by one by
`Exchanged` or ended by `Failed`, which covers a frame not sent, an answer that
does not come, and a wrong one. `stage` is the Python call stack: inside
`__enter__`, the `with` body, `__exit__`, or before, in and after the callback of
`p300_window`. The controller follows the frames it receives. `dirty` and `misfit`
observe rests of a failed exchange and frames that met the wrong protocol.

### HybridRuntime

`pc` is the main loop, `call` the legacy request in the bridge, `mutex` the freeze
mutex that both callback wrappers take. A `/set` first queues its write and then
starts its delayed readbacks, one `ForceDelayed` at a time, with the main loop
running in between. A worker is a ticket in `timers`. `unread` is the gate's
`_readback_pending`, `ledger` and `inflight` the ledger's. `Freeze`, `Fence`,
`Decide` and `Window...` are the steps of `tick`.

### DemandPath

`Submit` and `Cancel` are the control socket's packets; `Tick`, `Refused`, `Enter`,
`WindowVerified` and `WindowFails` the steps of `OnDemandReadonlyRuntime.tick`. Time advances in whole ticks and only
where the loop waits. The record of an id is spread over functions on `Ids`
(`asked`, `state`, `age`, `result`), and `known` says for which ids one exists.
`runs` observes the windows in which an id was read.

`DemandContract` has a request's life, the window whose bytes are shown, and the number
of windows. Queue, time, freeze and lease are gone: an identifier is asked once, waiting
ends by cancellation, expiry or a window, everything in a window ends with it, and the
bytes shown are those of that window. The refinement maps `life` to `state`, `from` to
`result` and `count` to `windows`; `Poll` is a step `Tidy`, `Reserve` is `Open`, and
selection, refusals and legacy requests are stutters.

### PartyEmulator

The thread makes one request at a time, and the user changes setpoint, mode, Party
temperature or the button between any two requests. `mem` and `file` are the state
in memory and on disk, `ctl` the controller. A write can be done without an answer,
a save can fail, the process can die between any two steps. `synthetic` observes
which values the emulation has put on the controller, `chosen` which ones a user
ever chose.

### SplitterLink and ServicePrograms

`SplitterLink` is a queue of requests; `Serve` answers the oldest. Answers carry an
address, a success flag and a value. A helper that gives up (`GiveUp`) leaves its
request in the queue, so the answer may still come and meet the next wait.
`ServicePrograms` is the thread of the service: `pc` says for which answer it waits
(`current`, `write`, `readback`, `restore`, `verify`, `poll`) or what it does next;
the publication of the two switches, the status and `last_mode` are separate steps
because each can fail.

### ScheduleBlocks and ScheduleManager

`ScheduleBlocks` has the block format (a byte of hour and ten minutes, two per
interval, eight per day), the parser's conditions, and the editor's operations on
slots: normalise, number, free interval, default interval. They are comprehensions and
`Without` of `Queues`, so that they can be used in proofs. The slots that are on stand in
a line by their starts (`Occupied`); `Gaps` keeps the empty stretches between them, which
the code skips, and `DefaultInterval` leaves them out (`room`).

`ScheduleManager` has one thread. A command walks through `original`, `target`,
`write`, `settle`, `readback`, then `ok`, or `rollback`, `restore`, `resettle`,
`verify`. Three readbacks are allowed, and a readback without an answer ends the
command at once, as in the code. The editor has the selected day, a draft (a block or
0 for one that does not validate) and its status. A block is a value here; what is in
one is `ScheduleBlocks`. `moved` and `outdated` observe that somebody changed the day
at the boiler since it was read or loaded, `late` that an older request's answer was
taken.

### Maintenance

`Processes` are the service and one command line. `lock` is the file lock, which is
tried and never waited for; `step`, `waits` and `job` are the place of a process, the
answer it waits for, and what it does. The service has the queue of requests and
staged values, the cache of results and the staged values of the two settings;
`Stage`, `Request` and `Deliver` are MQTT. Both processes subscribe to the same answer
topic: `Answer` gives a process any answer with its address, also one that the other
one asked for before it was killed, and `Meanings` says what such an answer means to
`read_raw`, which takes a late write acknowledgement for a value or not. A `Snapshot` is a job like the
others, with the lock held while it reads. `left` observes that a process was killed in
a session, or that the session ended unsafe, and `late` and `moved` what excuses a report.

### CanarySession

A session is `Launch` (with the preflight) and a script of commands in `todo`, one per
step: stop a unit, create an override, fill it, reload, start, look, and so on. The
worker may end at any command (`WorkerDies`, or a command that fails); systemd then
starts the recovery, a script too, whose commands may fail, and each says whether the
script goes on. A file is `none`, `torn` or `full`, because a process can die between
creating and filling it. `dropin` are the overrides of the units, `extra` the one that
lets the splitter switch by itself, `loaded` what systemd has read of them at the last
reload, and `runs` what the processes execute. A unit whose stop has timed out still runs,
but `systemctl` does not call it active (`Active`). The splitter's windows, crashes, ends of
slow stops and latches of the lease happen beside the script (`OpenWindow`, `Crash`,
`StopEnds`, `Latch`).

### PollScheduler, ReadQueue, ReadPhases

`PollScheduler`: `Phase` is what `make_list` computes; `PollItem` passes over what is not
due or reads it with the bits that share its transaction, `EndOfCycle` counts; a
`Command` sets a flag at any item and `TakeForce` and `TakeReload` serve it at the next
turn of the main loop. `pass` observes which items the current cycle has read, `age`
how many cycles ago each was read.

`ReadQueue`: every call of the class holds its lock and is one step. `passed` observes
how often in a row a waiting protocol was passed over.

`ReadPhases`: `SafeOrder` goes through a list of jobs for their order, `Plan` through
that order for times and limits, each as a recursive function. `Execute` starts a batch, `EnterP300`, `LeaveP300`, `ReadJob` and
`FinishBatch` follow the plan, and each step may fail; `EnterManager`, `Bind`,
`OpenGroup`, `StartLegacy` are the bridge's calls, and `active` is who holds
`_active_call`. `MayBind`, `MayExecute` and `MayServe` are the guards of the three calls
that raise. A request of the splitter's is opaque: it may leave the controller in either
protocol (`EndLegacy`), and the coordinator, which did not send it, does not know.
`opaque` observes whether such requests have been served since the controller last proved
a protocol, with a coordinator bound ("bound") or without ("bare"). A controller that is
not where its coordinator believes it does not answer (`ReadJob`, `Unanswered`).
`outdated` observes samples older than a handover, a change of coordinator or a legacy
call: all there are when one happens, less those a verified handshake has just read
(`Handshake`).

## 3. What the runs check

All runs but the two marked ones pass. Bounds are in the cfg files.

**`producer_fence`** (2 writers, 2 faults, unbounded transactions, windows and
recoveries). `LeaseInv`: writers and window exclude each other under the flock
(`Exclusion`); `WriterNeedsVs1` and `WindowNeedsVerifiedWrites` (the two
admissions, up to a torn marker); `LatchHasCause` (clean transactions, timeouts and
rejections leave no latch: FAILED stands for an unverified write, ACTIVE with a free
flock for one or for a marker that could not be synced or put back); `P300MarkerHidesNoLatch` (the recovery that empties a
P300 marker forgets no writer); `ImplementsContract`; `BlocksEnd`: the wait for the
flock ends, and the P300 block is lifted. Two writers suffice for one writer's marker to
be saved and restored by the other, and two faults for a fault during the aftermath of a
fault; the proofs do not depend on either number.

**`torn_marker_forgets_write`** (violation, one fault). See findings.

**`coordinator`** (no bounds: the state space is finite, about 1200 states). Verified modes are true
(`VerifiedIsTrue`), an exit without `RestoreError` leaves VS1 on a clean line
(`CleanExitInVs1`). `CoordinatorInv`: no frame meets the wrong protocol or the rests of
a failed exchange (`FramesFit`), one recovery per P300 session (`OneRecovery`).
`SessionsReturn`: the window never returns in P300, sessions end.

**`hybrid_runtime`** (one `/set` with two readbacks, one other request, TCP queue of
one). `WindowQuiet`: no queue, sleeping worker or running callback exists while the
controller may speak P300. `WindowNeedsReadback`: the last value written has been
read back. `LedgerInv`: the ledger counts what is really outstanding
(`LedgerIsExact`), and one missed readback ends switching (`MissedReadbackIsFinal`).
`FencesLift`: the freeze mutex comes free and readbacks happen. One `/set` makes a
window depend on all four of queue, worker, ledger and gate; two readbacks make one
pending while another is done; a queue of one makes the second TCP request overflow.

**`demand_path`** (2 ids of 2 kinds, batches of one kind, capacity 2, 2 records,
ttl 3). `DemandInv`: an identifier is read at most once (`AtMostOneRead`), shows the
bytes of its own window and has them (`ResultIsItsOwn`), nothing runs outside a window
(`NothingStranded`), P06 is never too old (`P06GapBounded`). `ImplementsContract`: every
step is one of `DemandContract` or invisible to clients. `RequestsMakeProgress`: a
refused tick leaves tickets untouched, and every request ends. The constants are small
numbers in the order the code has them: interval below ttl, ttl below the time a result
is kept. Two requests are enough for one to wait, expire or be pruned while the other is
read.

**`party`** (2 temperatures, 2 modes, 2 faults, 1 change by the user, 2 commands).
`PartyInv` with `SyntheticIsRemembered`; `RestoreTargetIsUsers`; `PartyEnds`: the
emulation ends and the button is heard. Two faults are needed for a failed rollback (one
for the write, one inside the rollback).

**`party_unsaved`** (violation, one fault). See findings.

**`service_programs`** (queue of 1, 2 commands, 1 change by somebody else, 2
faults). `ServiceInv`: a published success is the controller's mode, and a restore
that was read back is really there (`ReportIsTrue`); the switches show the last mode
(`SwitchesShowLastMode`), which makes it safe that the poll publishes changes only.
`OffEndsOnlyItsOwn`. `SwitchesConverge`. They exempt, by name, a command during which
somebody else changed the mode (`moved`), a command that took an older request's answer
(`late`), and a publication cut by the broker (`cut`): in each of these the code makes
no promise, and without the exemption the property fails.

**`schedule_manager`** (2 days, 3 blocks beside an unreadable one, 2 commands, 2
faults; times of a grid with both ends of the day in it). `ApplyInv`: a success or a
restore that is reported is on the controller (`ReportIsTrue`). `EditorInv`: a draft that is
shown as loaded or applied is the controller's block (`EditorShowsController`), and the
editor's arithmetic, evaluated on every schedule and draft of the grid
(`BlockSaysItsSchedule`: encoding and decoding give the schedule back;
`EditedSlotIsAnInterval`: whatever time the user sets, the slot is an interval;
`DefaultIntervalIsFree`: a new interval overlaps no other). `CommandsEnd`. Two days tell
a command's day from the editor's, two commands a load from the apply after it.

**`maintenance`** (2 request ids, cache of 1, queue of 1, 2 requests, 1 call of the
command line, 1 fault). `MaintenanceInv`: one session at a time (`OneSession`), 0x5724 is
at 1 between sessions only after a kill, a report of an unsafe end, a late answer or a
change at the boiler (`NoHalfReset`), the user's staged value is not overwritten by a
snapshot (`StagedValueIsKept`). `OutcomeIsTrue`: what an operation reports is true. `RequestsAreServed`: no request whose
result is remembered is executed again, and the queue empties. A cache of one makes the
second request forget the first; the command line makes one session find the lock
taken, and take the other's late answer.

**`canary_session`** (2 writers, the timer and the splitter; 2 sessions, 5 mishaps).
`CanaryInv`: while a window is open every service runs its wrapped copy
(`WindowOnlyWrapped`), the automatic mode runs only while a session supervises it
(`AutoIsSupervised`). `RecoveryIsRight`: a PASS is true (`PassIsTrue`), and a recovery
whose own calls succeed ends with the original system (`EndsRestored`, unless it was
killed or a file is torn). `SessionsAreWhole`: a launch finds a clean system, the
recovery starts original services only, sessions end. With five mishaps the recovery's stop
of every one of the four units may time out, and one more thing go wrong.

**`reads`** (one of three parts per behaviour). *Polling*: 2 profiles, groups of periods
1, 2, 3 and ONCE, with bits that share a byte, 3 commands. *Queue*: capacity 2, at most
one read of a protocol in a row, 4 tickets, 2 threads. *Batches*: every list of up to
four of six jobs (both protocols, barriers, one that has waited, a long one), P06 of
three ages, 2 coordinators, 2 legacy calls. `PollInv`: no item of a recurring group waits
longer than its period (`NobodyIsForgotten`). `QueueInv`: tickets are accounted for
(`TicketsAreAccounted`), a waiting protocol is passed over at most `max_same_mode` times
(`NobodyStarves`). `PlanInv`: a batch keeps the limits of absence and P06 (`LimitsAreKept`), no read of
it begins too late or ends after its deadline (`ReadsAreInTime`). `OrderInv`: the order
passes no barrier (`OrderIsSafe`) and leaves VS1 no more often than the order given
(`NoExtraWindows`). `BridgeInv`: no batch rests on a proof older than a request served while a coordinator
was bound (`ProofIsFresh`), and up to such requests, which may change the session, a
legacy request meets VS1 (`LegacyInVs1`), samples are of after the last handover
(`LedgerIsCurrent`), what a coordinator says of the controller is so, and P300 is left to
batches and failures (`ModeIsTrue`). The second legacy call comes after a rebind, or
meets what the first one has changed. `CyclesAreWhole`: ONCE is read in the first cycle only, a
refresh is a complete snapshot, the items of a group are spread over its period, bits
stay together. `ReadsEnd`: refreshes, tickets and batches end. Four jobs are the least
that leave VS1, come back and leave again with a barrier between.

### Fairness

* `ProducerFence`: a waiting writer looks at flock and deadline again and again
  (its loop sleeps at most 25 ms), and the stop action of the session's unit runs the
  recovery to its end. Nobody is promised the flock.
* `Coordinator`: every reception has a deadline, callbacks return, and the `with`
  statement runs `__exit__`. `SF` of `Finally` and `Exit` because a callback or
  body may call procedures again and again before it returns.
* `HybridRuntime`: calls return, sleeping workers wake, the steps of `tick` follow
  each other. `SF` of `TakeForced`: the loop looks for forced reads between other
  requests.
* `DemandPath`: the loop turns; time passes while it is in a legacy request.
* `PartyEmulator`, `ServicePrograms`, `ScheduleManager`: the thread goes on, requests
  time out, systemd restarts the failed service (`Restart=on-failure`); the button is
  polled.
* `Maintenance`: the same of the service and of a call of the command line.
* `CanarySession`: the worker ends (its unit has a time limit), the recovery's commands
  return, and an open window closes.
* `MCReads`: the splitter's main loop turns, the queue's consumer takes and finishes,
  and a batch takes its next step or, where the controller does not answer, ends at the
  deadline of the read (`Unanswered`), each in its own part.

No fairness is assumed of users, clients, the broker or the controller.

## 4. What is proved

Every theorem holds for every value of the constants that satisfies the assumption of
the module (the bounds on faults, commands and so on are constants too, so "for any
number of them"). The assumptions say what the code takes for granted of its own
constants: capacities and limits are positive numbers, a value that stands for "none"
is no value, and so on; TLC evaluates each on the runs. Each proof has the same shape:
an inductive invariant, a lemma that the initial states have it, a lemma for each action
or group of actions, and a theorem that draws the property from it.

| Module | Theorems | Properties of the runs they state |
|---|---|---|
| `WindowProofs` | `FenceSafe`, `FenceWriterNeedsVs1`, `FenceWindowNeedsVerifiedWrites`, `FenceLatchHasCause`, `FenceP300MarkerHidesNoLatch`, `FenceImplementsContract` | all of `producer_fence` but `BlocksEnd` |
| | `BridgeSafe`, `PlanSafe`, `OrderSafe` | `BridgeInv`, `PlanInv`, `OrderInv` |
| `RuntimeProofs` | `CoordinatorSafe`, `ModesAreTrue`, `SessionsEndInVs1`, `WindowsLeaveP300` | `CoordinatorInv`, `VerifiedIsTrue`, `CleanExitInVs1`, the half of `SessionsReturn` that is about steps |
| | `WindowsAreQuiet`, `WindowsNeedReadbacks`, `LedgerSafe` | `WindowQuiet`, `WindowNeedsReadback`, `LedgerInv` |
| `ReadsProofs` | `QueueSafe`, `PollSafe`, `PollCycles` | `QueueInv`, `PollInv`, `CyclesAreWhole` |
| | `DemandSafe`, `DemandImplementsContract` | `DemandInv`, `ImplementsContract` |
| `PartyEmulatorProofs` | `PartySafe`, `TargetsAreUsers` | `PartyInv`, `RestoreTargetIsUsers` |
| `ServiceProgramsProofs` | `ServiceSafe`, `OffEndsItsOwn` | `ServiceInv`, `OffEndsOnlyItsOwn` |
| `ScheduleManagerProofs` | `ScheduleSafe`, `EditorIsTrue` | `ApplyInv`, `EditorInv` |
| `MaintenanceProofs` | `MaintenanceSafe`, `OutcomesAreTrue`, `RequestsRunOnce` | `MaintenanceInv`, `OutcomeIsTrue`, the half of `RequestsAreServed` that is about steps |
| | `CanaryIsSupervised`, `CanaryReportIsRight` | `CanaryInv`, `RecoveryIsRight` |
| | `CanaryStartsClean`, `CanaryRecoversOriginals` | `LaunchFindsClean` and `RecoveryStartsOriginals`, the safety in `SessionsAreWhole` |

Hardly any of the properties is inductive alone. What had to be added:

* **Lease** (`FenceInv`). A writer puts back the marker it found, so what the marker
  stands for is, during a transaction, in `prior`; between the two system calls of
  `_marker` it is in `pending`. `HolderInv` ties the place of each actor to the flock,
  `StageInv` ties each place to what marker, `pending`, `prior` and `failed` can be, and
  `WireInv` and `DebtInv` say that P300 on the wire and every unverified write are
  accounted for by one of them, as long as no fault has torn the marker. `HasCause` is
  asked of the free marker and of every `prior`: a writer puts back a latch whose
  cause it does not know, and ACTIVE also stays where a latch could not be written. The refinement
  lemma `FenceStepRefines` maps each action to a step of the contract or a stutter.
* **Coordinator** (`SessionInv`). While a procedure runs, `mode` says nothing of the
  controller; the frames it has left do. `LineInv`: they are the rest of a procedure,
  and the first that is not an EOT expects what the controller speaks, on a clean line.
* **Owner runtime** (`RuntimeInv`). `TicketsInv`: a readback's ticket is asleep in a
  worker, queued as a forced read, or in flight, at one of these at a time, and a new
  ticket is greater than all before. From it the ledger counts exactly (`LedgerKnows`), and a window that finds
  the ledger empty has no worker left to wake. `GateInv`: a write that nobody has read
  back is known to the gate or makes it opaque.
* **On-demand reads** (`LifeInv`). `ReadInv`: the state of a ticket tells in how many
  windows it was read and whether its record may hold bytes; `GapInv`: a window starts
  with a sample young enough for its two ticks. The contract is implemented step by step,
  with lemmas on `Without` for the queues.
* **Queue** (`LineInv`). A ticket is queued when it is in `pending`, once, and running
  when it is `inflight` (`Places`); reads that pass over a waiting one are reads of one
  protocol in a row, which `sameCount` counts (`Turns`).
* **Poll list** (`CycleInv`). `Passed`: the cycle has read exactly what was due up to the
  pointer; `Young`: an item is no older than the number of cycles since the phase of its
  group last came. The bound on the load of a cycle counts the transactions of a group by
  their ordinals, of which one period sees each residue once.
* **Bridge** (`LineOwner`). Outside a batch only a failure or an opaque request takes the
  controller out of VS1 (`Attested`), and after a failure the bridge is closed. `Used`: the
  coordinator that was bound while a request was served is spent, or has been left and
  cannot be bound again, until the next one proves VS1. From it a batch begins with
  no opaque request since its proof but one served while nobody was bound (`ProofIsFresh`).
* **Batch** (`BatchInv`). A plan that is accepted has a timeline: moments from its start
  to its end, at each of which the next step finds what it needs (`Timeline`, `Allows`).
  `PlanSound` shows that the planner makes one; the executor is always at one of its
  moments (`UnderWay`). That VS1 is not away too long *in the middle* of a window follows
  backwards from the return at its end, which is why the plan's end in VS1 is part of it.
* **Order of a batch** (`OrderInv` is inductive; the work is in `PlanInOrder`). `Split`:
  what the planner has placed is done, or in one of two lists of one protocol each, of
  jobs since the last barrier, so whatever is put behind it passes nothing. `Economical`:
  the windows begun so far are no more than the order given needs, and one less where the
  lists are going to begin one; `EntriesOfRun` counts them. `Carries`: the steps planned
  so far read the first jobs of the order, and enter P300 where it begins a window.
* **Party emulation** (`EmulationInv`). `Remembered`: unless a save has failed, memory and
  file agree on whether there is an emulation, and without one nothing of it is on the
  controller. `Undone` says which datapoints a restore has taken back so far. `Targets`:
  the values in memory, in the file and in the hands of an operation are the user's, or
  the recorded Party temperature where a restarted process has still to put it right.
* **Helpers** (`ProgramsInv`, `ScheduleInv`, `UpkeepInv`). The link answers in order. The
  newest request is the one that is waited for, so an answer that finds nothing older is
  one's own; after a readback there are reads under way and nothing else, so what was read
  back stays. The exemptions `late` and `moved` are exactly what breaks this.
  `NoneHalfReset`: nothing on the link sets 0x5724 to 1 unless a process is in a reset.
* **Canary sessions** (`SupervisedInv`). What holds between two commands depends on how far
  the script is, and the scripts are as long as there are writers. Every command belongs to
  a part of its script (`Part`), the parts follow one another (`InOrder`), so a command tells
  which others are behind it (`WorkerGone`, `RecoveryGone`), and what is left in `todo` tells
  what is not yet done: as long as `<<"stop", u>>` is not left, `u` is off, still being
  stopped, or an original (`StopsToCome`); the same of overrides, reload, marker and check.
  `RunsInARow` puts the scripts together from their runs. `ErrorsShow` says that an error is
  never forgotten before the report, and `WrappedProducers` that a copy that crashes comes
  back as a copy, which keeps `WindowOnlyWrapped` during a window.
* **The editor's arithmetic** (`EditorInv`), for every grid of the controller's steps.
  Times are multiples of ten minutes, so what is not empty is ten minutes at least
  (`TensFacts`), and a stretch that has room has room for a slot. `SortedLine` puts a set
  of slots in the order of their starts; `GapsFacts`: each stretch between them starts
  where the slots before it have ended, so a slot in it overlaps none. `FullDay`: if no
  stretch is open, the first one that ends after a time starts after it too, at the end of
  a slot which covers that time.

Induction over data is done without the induction theorems of the library, which the
installed provers cannot instantiate: a set of numbers at which a statement fails has a
least one (`LeastNumber`), and that leads to a contradiction. `Without`, `SafeOrder` and
`Plan` are recursive functions, and that each recursion has a solution is proved in the
same way.

Only model-checked:

* all liveness: `BlocksEnd`, `FencesLift`, `RequestsMakeProgress`, `PartyEnds`,
  `SwitchesConverge`, `CommandsEnd`, `ReadsEnd`, and the liveness in `SessionsReturn`,
  `RequestsAreServed` and `SessionsAreWhole` (liveness under fairness and `ENABLED` are
  outside the prover).

### What proofs and reviews have corrected

* `ErrorKeepsOriginal` of the schedule manager was true of no error the code reports that
  way, and is gone; what the documentation promises there is `MismatchIsRestored`, which
  the code breaks (section 5).
* `LedgerIsCurrent` compared the samples with an observation that nothing set; it is set
  now wherever a sample goes out of date.
* A process of the maintenance that was killed after it had reported an unsafe end left
  no trace in `left`, and `NoHalfReset` was not inductive.
* The jobs of the maintenance lacked the one of the service's start, and nothing kept the
  value for "not staged" from being a value.
* The jobs of a batch had no type: a plan for a list with anything in it could not be
  reasoned about.
* A unit of a canary session counted as active while its stop was still going on. The
  preflight let a session begin over such units, and `LaunchFindsClean` was no consequence
  of the invariant: with four faults instead of three TLC found it violated. `systemctl show`
  says `deactivating` there, and `status` compares with `active` (`shadow_canary.py:45`), so
  `Active` asks for both now, and the run has five mishaps.
* A failing `_marker` always left the file empty. Its fsync raises after the marker is
  written, and its ftruncate before the old one is gone, so that ACTIVE can stay without an
  unverified write: `LatchHasCause` said too much.
* The splitter's requests left the controller's session as it was, and the bridge's guard
  against an old proof (`_legacy_since_bind`) protected nothing in the model.

## 5. Findings

* **A torn marker forgets a write** (`CrashLeavesP300Blocked`). `_marker` truncates
  before it writes; a kill in between leaves an empty file, and the next window is
  admitted over an unverified write. The docstring says that a crash leaves P300
  blocked. The same gap can admit a writer to a P300 wire.
* **Party activation without a file** (`RestartCanAlwaysLeave`). Memory turns active
  before the save; when the save fails the next sync emulates with nothing on disk.

### Deviations

Where the code does not do what its comments or documents suggest, without a run of its
own. Six are stated as properties beside the modules, so that they can be looked at
with TLC:

* **A missed readback ends the main loop** (`FailedReadbackDisablesOnlySwitching` of
  `HybridRuntime`, `HybridRuntimeReadback.cfg`; `runtime_admission.py:216`). The latch
  meant for switching also rejects the next ordinary legacy answer, with an exception
  that leaves the loop.
* **A restart forgets a new target** (`RestartKeepsTargets`, `PartyEmulatorRestart.cfg`;
  `optolink-party-emulator.py:434`). The user's new value is in memory only while two
  verified writes replace it on the controller.
* **A Party value becomes the user's** (`PartyValueIsNoUserChange`,
  `PartyEmulatorOldParty.cfg`; `optolink-party-emulator.py:426`). After a write that
  arrived unverified, the next change records it as the normal setpoint.
* **An acknowledgement taken for a readback** (`ReadbackIsARead`, `ServiceProgramsAck.cfg`;
  `optolink-service-programs.py:261`). The late answer to the write is the answer the
  readback sees.
* **A mismatch without a restore** (`MismatchIsRestored`, `ScheduleManagerReadback.cfg`;
  `optolink-schedule-manager.py:888`). A readback that is not answered after others did
  not match ends the command, and the restore is skipped;
  `docs/wb2a-schedule-blocks.md:415` says that a mismatch restores the original block.
* **An old proof may be bound** (`OnlyFreshIsBound` of `ReadPhases`, `MCReadsOldProof.cfg`;
  `dispatcher_bridge.py:97`). `bind_verified_coordinator` accepts a coordinator that was
  verified before a legacy call made while none was bound; its docstring asks for a fresh
  one, "not used across opaque legacy calls". A batch may then begin over a session that
  the call has changed; `ProofIsFresh` is about requests served while one was bound.

The others came up while modelling:

* A lease file whose fsync or ftruncate raises in `writer_transaction` can be left at
  ACTIVE with nothing unverified behind it. No P300 window opens until somebody empties the
  file, and nothing in the repository empties an ACTIVE marker.
* `max_p06_gap_ms` of the planner does not count the stretches in VS1.
* A torn extra override makes the continuous recovery return 1 with the wrapped services
  left running; a PASS in `recovery.json` can stand beside a torn manifest; after a power
  loss the automatic mode can come up with nobody supervising it. `CanarySession` names
  each of these in its properties.
* The preflight of a canary looks for the unit of the shadow canary only; two launches at
  once are not modelled.
* `_recovery_attempted` of the coordinator is reset by a verified P300 session only, so
  after a successful recovery a second failure makes `__exit__` refuse with the text
  "previous recovery already failed".
* A ticket submitted in the cooldown can pass `max_queue_wait_ms` before the cooldown
  ends and is then never selected before it expires.
* A publication cut half-way can leave a switch wrong until the mode changes.

## 6. Plan

Every part with state of its own is modelled, and every invariant that the runs check of
it is proved. What is left to the model checker is liveness; what is left to model is in
section 7.

## 7. Not modelled

* **Bytes on the line**: frames, checksums and delays. The coordinator's frames are
  names with the protocol they need.
* **Runtime enrollment and release staging**: what they write and what they answer is in
  `CanarySession`; hashes, paths, process maps and the copies an operator stages are not.
* **One-shot boot**: a straight run of one coordinator before the main loop starts. The
  bridge's calls it makes are actions of `ReadPhases`, its protocol is `Coordinator`; the
  rest checks answers and writes a report.
* **Clock synchronisation**: a timer starts one check with at most one write, and nothing
  is kept between runs. Its verified write is the one of the schedule manager without a
  restore, so a model would repeat `ScheduleManager` with less in it.
* **Installers of the patches** (`apply`, rollback of files), **GFA patch, profile,
  installation, probes**: text edits, framing, declarative data and shell I/O without
  concurrent state.
* **Power loss between write and fsync**: files are torn by a process that dies, not by
  a disk that loses what was written.
* **Short writes of the lease marker**: `_marker` checks the length that was written; the
  model writes the few bytes wholly or not at all.
* **Expiry inside a tick of the on-demand reads**: `select` and `reserve` look for expired
  tickets too (`scheduler.py:367`, `413`). No time passes between the poll and the tick in
  `DemandPath`, so a ticket that expires there expires at the next poll.
* **Times that are not HH:MM**: `normalize_editor_time` passes them on unchanged
  (`optolink-schedule-manager.py:298`), so "0:00" as an end misses the rule for midnight.
  The options of the editor's entities do not contain such a text.
* **Groups configured never to be polled** (a negative cycle) and the **forced readbacks**
  that pass over the schedule of the poll list; `HybridRuntime` has the latter.
* **File permissions, owners and peer credentials**: checks that answer yes or no.
* **Late answers in the party emulator** and the traffic of other helpers on the
  same answer topic: `SplitterLink` has them for one helper, `Maintenance` for two processes.
* External and modelled only by how the code uses them: the upstream splitter, the
  controller, the broker, systemd.
