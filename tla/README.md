# Verification of the excavator's control stack

TLA+ models of the programs that read, drive and record the excavator, the TLC
runs that check them on small instances, and TLAPS proofs of the properties that
matter most for every instance. Source paths are relative to `src/`.

## The system

One process, the control service, owns the valves. Everything else is a client
of it, a producer of sensor data for it, or a recorder beside it; the two
collectors drive the PWM themselves while the service is off.

```
 IMU reader (Pico, 2 cores) --USB bytes--> ImuParser --sample--> control service --PWM--> valves, pump
 camera publishers --shared memory frame stores--> recorder, policy runner
 operators, recorder, policy runner --SOCK_SEQPACKET packets--> control service --status--> them
 recorder --takes--> disk        MLP and PID collectors --strips--> disk (these drive PWM themselves)
```

`reference/` is the Python stack the native one replaced, kept unchanged: parity
tests load it, and its own entry point, `simple_drive.py`, is a whole machine in
one process (input, excitation, PWM threads, recording).

| Component | Source | State | Operations | Hard behaviour | What makes it correct |
| --- | --- | --- | --- | --- | --- |
| Safety core | `native_stack/src/core.cpp` 515-655 | safety state, plan, timers of arming, lease and decay | receive, disarm, fault, halt, tick | lease, decay and arming timers interact; numeric edges of a plan | motion only inside a lease, never after a stop without a full arming hold, decay only fades |
| Control service | `native_stack/src/control_main.cpp`, `core.cpp` 362-404 | client table, owner, last sequence, ramps, outputs | one tick: IMU, deadline, lease, accept, serve, ramp and dither, outputs | competing producers, replays, disconnects, late ticks, crash | one owner; output is licensed when it is written and ends in bounded time; a fault is latched |
| Frame store | `native_stack/src/frame_store.cpp` | lock file, mapped file, robust mutex, generations | create, publish, read | processes killed inside the mutex, restarts, torn copies | readers see whole frames in order |
| Camera publisher | `native_stack/src/camera_main.cpp` | frame counters, device | receive, publish or drop | busy mutex, device loss | frames numbered and stamped consistently |
| Recorder, takes | `native_stack/src/record_main.cpp` 90-360 | queue, files, name of the directory | push, finish, abandon | any write fails; kill, power failure | a take is exported whole or not at all |
| Recorder, pairing | `native_stack/src/record_main.cpp` 362-400, 587-681 | last frames and exposures | read stores, pair, record | cameras publish between the reads | pairs are close, matched and new |
| Recorder, loop | `native_stack/src/record_main.cpp` 401-723 | armed, take, buttons | arm, begin, save, discard, re-arm | a fault or a lost IMU in a take, a loop blocked by a save, automatic sessions | a take is one arming hold, each row has its accepted drive packet, automatic sessions end |
| MLP collector | `native_stack/src/mlp_record.cpp`, `mlp_main.cpp` | queue, atomics, strip | start, rotate, finish, push | two threads share only atomics | a committed strip is whole, a saved one is committed |
| PID collector, strips | `native_stack/src/pid_record.cpp`, `pid_main.cpp` | a second queue beside the writer's | push, take | rows and frames travel apart; refused rows leave orphans | a written row has its own telemetry |
| PID collector, loop | `native_stack/src/pid_main.cpp`, `ik_collection.cpp` | mode, recovery, held outputs, pump, recording | tick: feed, buttons, decide, step, guard, write, push | recovery hysteresis, held outputs at rates of their own, a strip that ends or fails in the middle | recovers before it goes on; whatever stops it resets it |
| Policy runner | `native_stack/tools/vla_live.py`, `vla_operator.py` | plan, mode, prompt version, what is open | observe, infer, offer; pass; type; stop, clean up | three threads, hanging inference, failing cleanup | no stale plan; doubt stops; a run ends disarmed |
| Observation, history, back ends | `native_stack/tools/vla_observe.py`, `vla_groot.py`, `vla_pi05.py` | last frames, ring of encodes, latencies | sample, push, pick, infer | sources read one after the other; restarts; late inferences | frames with their own past; a chunk continues its plan |
| Policy probe | `native_stack/tools/policy_runtime/history.py`, `policy_probe.py` | raw frames of each view, memory in use | read the views, push, select, save | views late or restarted, eviction by age and memory | a frame is the one that was asked for, and is there while memory lasts |
| IMU parser | `native_stack/src/core.cpp` 411-513 | buffer, epoch, clock | feed, parse | lost and corrupt bytes, wrapping clock, device restart | no whole frame is lost; epochs do not mix |
| IMU reader | `pico_imu_reader/main.c` | guard counters, two slots | read, publish, copy, send | two cores without a lock; dead sensors; hangs | whole, fresh frames; loss is reported |
| Reference: PWM controller | `reference/modules/pwm/` | configuration, counts, ramps, rate window | update, reset, reload, cleanup; monitor | two locks, a monitor thread, failing I2C writes | the chip has what was decided last; silence centres; no jumps |
| Reference: drive loop | `reference/simple_drive.py`, `modules/gamepad.py`, `modules/drive_log.py` | sticks, excitation, recording | poll, buttons, build, send, log, save | a lost input during a blocking save; columns packed in slices | neutral while busy; a recording is complete and truly labelled |
| Reference: trackers, PID | `reference/modules/perf_tracker.py`, `pid.py` | statistics; integral and limits | ticks, stages, reset; compute, reset, set limits | stamps without the lock; saturation | exact statistics; no windup |

`PROJECT.json` lists the rest (pi0.5 runtime, exports, simulator, vendored
fusion, plots) with the reason why they are left out.

## The modules

| Module | Models | Kind |
| --- | --- | --- |
| `SafetyCore` | `ControlCore` and `decode_packet` as operators on a record | operators |
| `ValveOutput` | `valve_pulse`: from a command to the pulse of a calibrated valve, with its ramp and dither | operators, EXTENDS `SafetyCore` |
| `ControlService` | the loop around them: one action per step of a tick and outcome of a `recv`, shutdown, crash, restart | state machine, EXTENDS `ValveOutput` |
| `FrameStore` | the shared-memory store with its mutex and torn copies | state machine |
| `FrameRegister` | what it promises: one atomic register per store | abstract specification |
| `Recorder` | a whole session: the recorder's loop and connection, with the core and the lease of the control service behind it | state machine, EXTENDS `SafetyCore` |
| `TakeCapture` | how the recorder pairs frames; reads stores as the registers of `FrameRegister` that may be busy | state machine |
| `EpisodeWriter` | one take from the first row to its directory's name | state machine |
| `TakeCommit` | what it promises: a take becomes visible in one step or never | abstract specification |
| `MlpWriter` | producer loop and writer thread of the MLP collector | state machine |
| `PidTelemetry` | the same writer with the PID collector's second queue, and that collector's loop as its producer | state machine, EXTENDS `MlpWriter` |
| `PidCollector` | the PID collector's tick: buttons, pauses, recovery, guard, valves | state machine |
| `LiveRunner` | inference loop, supervisor and prompt reader of the policy runner | state machine |
| `PolicyLoop` | what an inference is made from: observations, the history of encodes (`vla_groot.py`), committed rows, and how its chunk takes over | state machine |
| `FrameHistory` | the probe's history of raw frames (`history.py`) in its capture loop | state machine |
| `PolicySession` | how a run is opened, asked for, armed, stopped and cleaned up, by both threads | state machine |
| `ImuParser` | the byte parser; bytes are small numbers | state machine |
| `ImuReader` | both cores of the firmware | state machine |
| `ValvePulse` | from a command to a pulse, a count and registers; which configurations are accepted | operators |
| `PwmController` | callers, monitor and both locks of the PWM controller, with failing writes | state machine, EXTENDS `ValvePulse` |
| `Gamepad`, `Excitation`, `DriveLog` | the pad's monitor thread; the three excitations; the column buffers | state machine; operators on records |
| `SimpleDrive` | the main loop that joins these three, with a UDP client instead of the pad | state machine |
| `PerfTracker`, `Pid` | the three trackers and the thread that resets them; the PID controller | state machines |
| `MC*` | values of the constants; some join modules that share nothing in one run, each behaviour being one of one module | for TLC |
| `ControlService_proofs`, `SafetyCore_proofs` | who writes the valves: `ControlService`, and `ValvePulse` and `PwmController` of the reference; lemmas about the core, which `Recorder_proofs` uses as well | for TLAPS |
| `Recorder_proofs` | `Recorder` and what it reads, `FrameStore` and `TakeCapture` | for TLAPS |
| `LiveRunner_proofs` | the module of this name | for TLAPS |
| `Recordings_proofs` | what writes recordings: `EpisodeWriter`, `MlpWriter`, `PidTelemetry` | for TLAPS |
| `Reference_proofs` | the drive loop: `SimpleDrive` with `Excitation` and `DriveLog` | for TLAPS |
| `Policy_proofs` | `PolicyLoop` and `PolicySession` | for TLAPS |
| `Joints_proofs` | `ImuParser` and `ImuReader`, which measure the joints; `Pid` and `PidCollector`, which drive them | for TLAPS |

How state and actions correspond to code is in `PROJECT.json` under `map`, one
row a definition; the conventions are these.

- An action is what happens between two points at which another actor can do
  something the action's outcome depends on. A tick of the control service is
  sequential, but messages arrive between its steps, so each served message is
  an action. In `MlpWriter`, `ImuReader` and `PerfTracker`, whose threads share
  memory without a lock, each load and store that matters is an action. In
  `LiveRunner` and `PwmController` a critical section is.
- Data are what the properties tell apart: a frame is its number, a row is its
  place, a sensor value is how many reads old it is, an observation is its time,
  a pose is out of the margin, at its edge or in.
- A clock is a small number. A tick of the control service may take any time up
  to one unit more than the deadline, so that it may be missed. `Recorder` and
  `PwmController`, whose liveness needs states to recur, keep time as ages,
  up to an age beyond every limit.
- History variables are named as such where they are declared. No guard reads one.
- An operator named `Op_Something` next to `Op` is `Op` with a plausible bug. It
  is used by no specification: putting it in place of `Op` must break the property
  that `PROJECT.json` names under `mutants`.
- The type invariants document the variables. They are proved, as theorems or as
  part of an inductive invariant; where a module has none of its own, or one with
  the bounds of its run (`MlpWriter`), the proofs have it (`ControllerTypes`,
  `DriveTypes`, `StripTypes`). `Gamepad` and `PerfTracker` have none.

## The runs

| Run | Properties | Shows |
| --- | --- | --- |
| `one` | `MotionIsLicensed`, `DecayOnlyStops`, `MotionDeadline` | One producer with plans, late plans and pump, a valve that ramps over its dead band and swings, every IMU outcome, late ticks, crash and restart: motion is licensed on the very tick it is written; a decay asks less of each valve with every tick and its ramp follows; and no motion is authorised past lease + deadline + decay when the producer falls silent. |
| `two` | `NoMotionAfterStop`, `FaultAndOwnerHold` | Two producers, slot reuse, replayed and malformed packets, released deadmen, disarm and emergency stop from either, with a hold of two units: nothing moves before a full hold after any stop, the lease keeps one connected holder and a fault is latched. |
| `frames` | `StoreIsSafe`, `RegisterSpec`, `DepthMatches`, `PairsAdvance` | Two cameras and two readers, killed anywhere, over two stores of one path: no torn frame, and the refinement of `FrameRegister`. And two free-running cameras, one with depth, over stores that are busy at any read: pairs advance and carry the depth of their image. |
| `recordings` | `ReadyIsComplete`, `TakeSpec`, `FinishEnds`, `StripsAreSafe`, `ClosingEnds`, `RowsHaveTelemetry` | One take with any failing write, sync or compression, a kill and a power failure at every step: the exporter sees whole takes only, finishing ends, and the refinement of `TakeCommit`. Strips of the MLP collector against a slow writer that may fail, with a full queue: what is committed is whole, what is saved is committed, a save ends. Strips of the PID collector: each written row finds its own telemetry, across refused rows, rotations and orphans of an earlier strip. |
| `recorder` | `OneHold`, `RowsHaveTheirDrive`, `NeverStuck` | A session, automatic or with an operator, against a service that is stopped, disarmed or loses its IMU at any step, lets the lease of a slow recorder run out and may be driven by another producer: the rows of a take belong to one hold and have their accepted drive packet, an automatic session ends, a controller that was stopped is armed again. |
| `live` | `PlanHasItsPrompt`, `OneLineOfPlans`, `DoubtEnds` | Three threads with and without a pad: a chunk has the prompt of its sources and continues the plan it replaces, no plan from before a switch is sent, and doubt ends in a hold or a stop within the limits. |
| `prompt` | `HoldsForNewPrompt` | Violation. A plan of the old prompt can outlive a prompt change. |
| `policy` | `PastIsRight`, `HandoverIsContinuous`, `EndsDisarmed`, `CleanupEnds`, `HistoryIsTrue` | Observations read while cameras and IMU go on and cameras restart, with a history, or with committed rows and inferences of any length: each frame has the past the model was trained on, and a chunk goes on with what the machine does. And runs that fail, are stopped or hang at every step: they end disarmed or say what they left. And two views of the probe, read one after the other while cameras go on and restart, with much memory and with too little: each selected frame is the newest before its target of all ever pushed, and one that is near enough is found while the memory lasts. |
| `imu` | `TickIsSeen`, `NothingIsLost`, `SoundFrames`, `LossIsReported` | Any reads out of whole, corrupt and cut frames and single bytes, device restarts and repeats: no whole frame is lost, the buffer never fills, epochs, validity and the block are what the control loop takes them for. And a sensor that fails, repeats and dies in any order, a hanging loop, every interleaving of the two cores: frames are whole, advance, are never frozen beyond the guard, and a loss is reported. |
| `valves` | `ValvesAsDecided`, `NoValveJumps`, `StaleIsNeutral`, `StaleCentres` | A control loop, a panel that tunes, resets, disables and reloads, the monitor and failing writes: writes reach the chip in the order they were decided, no valve jumps or is driven the other way, and a silence centres the valves. |
| `drive` | `BusyIsNeutral`, `RecordingIsTrue`, `ExcitationIsGentle` | Six short sessions with pad or UDP, lost inputs, failing saves, Ctrl+C and all three excitations. |
| `reference` | `TrackerIsSound`, `PidIsSound`, `CollectorIsSafe` | A tracker that is reset or switched at every step of a tick: its statistics are the exact ones of the intervals recorded since, with a period to be measured against or none. The PID controller under any order of calls. The PID collector with any buttons, poses, joint rates, lost inputs and failures, scripted or with a pad. |

### Bounds, and why they are enough

- `one` runs six units of time with lease, deadline, arming hold and IMU timeout
  of one and a decay of two: long enough to arm, take a plan, lose it at any
  point and fade. A plan has three rows, so first, middle and last row differ. A
  full command is four steps of a curve with a dead zone of one, the ramp needs
  two ticks for the stroke and four across it, the swing is one count and fades.
  `two` has a hold of two units, so that a stop may fall into it; its valve is
  plain, since what it asks is in which order two producers and stops come.
- `frames`: one pixel part besides the sequence and the metadata is the smallest
  frame that can be torn; two stores of one path are a restart. The proofs lift
  all bounds of the store. Cameras run for three units with an age limit of two.
- `recordings`: a queue of two and three rows fill it; two streams can disagree.
  Strips have a queue of three with one slot kept, three records, one failure and
  six transitions (two a strip); four with the PID collector's second queue, where
  what can go wrong is an orphan of the strip before.
- `recorder`: two events (buttons, foreign stops and drives, turns of the IMU) are a loss and
  a return, or a take begun and a stop; the hold is two units, the lease three and
  an iteration at most two, so that a healthy loop keeps its lease (without that
  the controller could never stay armed) while a save or an abandon, which block
  the loop for as long as they like, lose it. Two automatic takes are a first and
  a last one. The proofs of its safety lift all bounds, also the one on an iteration.
- `live`: a clock of five, one switch and one prompt change; a plan of three rows
  with an age limit of one. The proofs of two of its properties lift all bounds.
- `policy`: the unit of time is one row of a plan, positions are rows. A clock of
  five reaches a third plan with committed rows, one of four drops an encode from
  the history; one restart of a camera, one switch; a horizon of four rows with a
  cap of three on the committed ones, a margin of one and a window of two
  latencies; two commands a row. A run may raise in two closing steps. The probe
  has two views and a budget of three frames or one that is never full, an offset, a
  tolerance, a slack and an age limit of one each, a clock of five, so that what is
  too old is dropped by age as well, and one restart.
- `imu`: a base of four makes the clock wrap after four and checksums collide, so
  that noise looks like frames; a capacity of eight is one more than the longest
  frame; three publications reuse a slot while it may be copied; both guards of
  the firmware count to two.
- `valves`: a tick is the monitor's period; the rate window has two, the watchdog
  one. One valve with a ramp moves to another output with the other direction, an
  asymmetric centre and dither at the one reload; a third file is refused. One of
  the events (a failed write, cleanup) besides.
- `drive`: each session has its own small budget of presses, packets, losses,
  frames and failures (`MCSessions`), since all at once is out of reach; a
  recording of three ticks spans two blocks, so one is being packed while the
  next is open.
- `reference`: three intervals over a ring of two and a clock of four; two joints,
  of which either may be due while the other holds its output; measurements and
  limits on both sides of zero. The proofs lift the bounds of the last two.

Deadlock is checked for the control service, which always has a next tick until
the bound of the clock, when it still may stop and restart, for the PWM
controller and for the drive loop, which stutter once they have ended. The other
programs end (a recording session when it is closed), or stand still at their bounds.

### Fairness

Safety needs none. What is stated is what a scheduler gives:

- `EpisodeWriter`: its writer thread, and the loop once it has begun to end a take
  (nothing it waits for depends on the operator). `MlpWriter` and `PidTelemetry`:
  the writer thread only, since the loop is paced by the operator.
- `ImuReader`: each of the two cores. Sensors do what they like.
- `Recorder`: its loop, the service and the passing of time (strong, since a packet
  on the wire is served before time goes on, which is how the waiting of the loop
  for its status is modelled).
- `PwmController`: time and the threads together (`System`), not the callers' wish
  to call. A thread inside a call goes on; none of them waits for anything but the
  two locks, each held for a bounded time.
- `PolicySession`: its cleanup only. Ctrl+C is ignored there and each call in it
  has a time limit; the supervisor and the controller may hang for good.

The sensors, the operator, the disk and the inference are never assumed to do anything.

## What is proved

All theorems hold for every value of the constants that satisfies the named
assumptions (`TimeAssumption`, `LoopAssumption`, `GainAssumption` and so on, next
to the constants; TLC evaluates them in each run). Most state limits, sizes, types
and bounds only; some say something of the code. `SimpleDriveAssumption` and
`ExcitationAssumption` have what the argument parser of `simple_drive.py` lets
through, `FileAssumption` of `PwmController` that the controller was constructed
from a file it accepts. `TypeAssumption` says that the four
types of an IMU frame are different bytes, `TransmissionAssumption` that what
arrives at the parser is bytes, and `StreamAssumption` that a take has a stream
and that none is named like its other files and directories. `CalibrationAssumption`
is what `load_hardware_config` requires of a valve, with any curve from command to
share that starts at nothing and never falls; `ExcitationAssumption` leaves open how
much noise a sine has.

The control service and its core:

| Theorem | Statement | Argument |
| --- | --- | --- |
| `TypeCorrect` | `TypeOK` | Each operator of the core keeps `CoreType` (lemmas of `SafetyCore_proofs`; `RowIndex` bounds the row that interpolation reads). |
| `TimersConsistent` | `LeaseTimers` | Inductive with `TypeOK`. `TickEffect` and `ReceiveDriveEffect` say once what a tick and a drive packet do to the timers; every action is one of these or a stop. |
| `StopsHold` | `NoMotionAfterStop` | `LeaseTimers` orders the last stop, the start of arming and now: output needs an armed or decaying core, whose arming began after the stop and lasted the full hold. |
| `MotionEnds` | `MotionDeadline` | `LeaseTimers` bounds the start of the decay by lease + deadline after the last accepted packet, and what the core authorises by the decay after that; `OutputInTime` says the same of the tick that wrote what the chip still holds, whatever the tick under way has done to the core. |
| `MotionStaysLicensed` | `MotionIsLicensed` | Not inductive: `HealthIsCurrent` says that the verdict on the IMU, taken at the start of a tick, is what its sample earns until the outputs are written. `TickLicence` is about the output of one tick of the core. |
| `DecaysOnlyStop` | `DecayOnlyStops` | `AppliedFollows`: the last command is what the decay began with, at a share that is not less than what is left (`ShareBound`), so what is asked of a valve falls, for a curve never does (`TargetFalls`). `RampApproaches` and `DitherBound` are about `valve_pulse`: a ramp ends between where it was and what is asked, if it was inside the limits (`RampsInRange`), and the dither leaves the pulse by two amplitudes at most. |
| `FaultsAndOwnersHold` | `FaultAndOwnerHold` | `LiveIsOwned`: a live core has an owner in the table whose connection is open. |

The recorder, its stores and its files:

| Theorem | Statement | Argument |
| --- | --- | --- |
| `RecorderTypes` | `TypeOK` | By actions; the operators of the core keep their type as above. |
| `RowsShareOneHold` | `OneHold` | `HoldInv`: a core that was left during a take is not armed by the recorder before the next status, and `LeaseInv`: a core that nobody leases is not live. It can only be arming once this iteration's only drive packet was served (`WireInv`), and a second one, which could complete the hold, follows the status that ends the take. |
| `RowsWereDriven` | `RowsHaveTheirDrive` | `DriveInv` with `ImuInv`: a recorder that sends no drive packet, because its last status had no healthy IMU, faces a core that is not live, or another's, and cannot make it so without one. |
| `StoreTypes`, `StoreSafe` | `TypeOK`, `StoreConsistent` | The invariant says who is inside the mutex, that a store no camera is writing is whole, how far each copy has come, and that the running camera's store is the named one. `NoTornFrame` alone is not inductive: it needs what a copy in progress already holds. |
| `ReadsAreWhole` | `StoreIsSafe` (`StoreConsistent` and `NoTornFrame`), `PublishedIsWhole`, `LiveStoreIsNamed` | Conjuncts and consequences of it. |
| `StoreIsRegister` | `RegisterSpec` | Step by step: a publish takes effect when the copy ends, a read when its copy ends, a kill of a camera inside the mutex empties the store; everything else stutters. |
| `CaptureTypes` | `CaptureTypeOK` | With `Clocks`: no frame is ahead of the clock, and what was read is not ahead of the store. |
| `DepthIsMatched`, `PairsKeepAdvancing` | `DepthMatches`, `PairsAdvance` | `PairInv`: what was seen is not older than the last pair; what was found fresh is newer than it, and its depth is of the same exposure. |
| `TakeTypes` | `TakeTypeOK` | By actions. |
| `ReadyTakesAreComplete` | `ReadyIsComplete` | `StageInv` ties the stages of loop, thread and directory; `QueueInv` says that what is written and what is queued are together what was pushed, image by image; `CommitInv` that a take is whole before it is synced and synced before it is renamed. |
| `TakeIsAtomic` | `TakeSpec` | Step by step from the same invariant: the rename, and a power failure that keeps or loses it, are the commit of `TakeCommit`; what is offered is what was pushed; the rest stutters. |
| `CallsAgree` | `Control` | Types; `ThreadShape`, what the writer thread holds where it stands; `CallInv`, what the loop knows in the middle of a call. |
| `StripsStaySafe` | `StripsAreSafe` | `Line` is the strip in work, the record in hand and the queue, in this order. `LineInv` says of each strip in it what its files will have when the line is worked off, `FreshInv` that those that wait have nothing yet, `LedgerInv` that refusals are counted, `EndInv` that a strip is in the line until it is committed, and that only whole ones are renamed. |
| `RowsGetTheirFrames` | `RowsHaveTelemetry`, and that a captured strip has a live writer | `Telemetry`: rows and frames are two lines. `FrameInv` orders the frames, up to the tick of the loop; `StartsRise` and `RowsRise` order the strips and the rows of each; `RowsFramed` says that each row that waits has its frame among those that wait, `HeldInv` that the row in hand still has one and is older than those behind it. What the thread drops is older than the row it asks for: orphans of refused rows, and nothing else. |

The policy runner:

| Theorem | Statement | Argument |
| --- | --- | --- |
| `RunnerTypes` | `TypeOK` | With `Inferring`: the loop holds a chunk exactly from the observation to the offer. |
| `PlansHaveTheirPrompt` | `PlanHasItsPrompt` | `PromptInv`: what is offered has the prompt version of its sources, because versions only grow and the second look compares equal. |
| `OldPlansStayDropped` | `NeverResumes` | `SwitchInv`: the plan and the supervisor's copy are newer than the last change, although the copy is sent after the lock was released. |
| `ChunksContinue` | `ContinuesRunning` | `ChainInv`: a chunk observed after the last change still continues the plan of this moment. |
| `PlansAreOneLine` | `OneLineOfPlans` | The last two together. |
| `DoubtAlwaysEnds` | `DoubtEnds` | `HandsInv` says in whose hands a plan is that is no longer fresh (sent, or in the copy being sent), `PassInv` that time moves at most once within a pass, `DoubtInv` how far each limit can be passed at each step of one. |
| `PastStaysRight` | `PastIsRight` | `HistoryInv`: the history is in order, has every image that is not too old for it, and none is newer than what an observation can bring next. `ClosestIs` (the search finds the entry closest to the lag) and `PushKeeps` (what is dropped is too old for all later ones) are about the operators. |
| `HandoversContinue` | `HandoverIsContinuous` | `HandInv`: a chunk that may still be offered has the first rows of the plan that is executed when it is, so a plan that waits goes on with the one that was sent. |
| `RunsEndDisarmed` | `EndsDisarmed` | `SessionInv`: which step of one thread goes with which of the other, that no "arm" stays last on the connection once its supervisor shuts down, that one thread at a time does so unless the main thread has given up waiting, that the reason outlives the thread, and what each closing step has given back. The order of the setup is turned into numbers first (`Place`, `FromIsSound`), for every choice of what it skips. |

The joints:

| Theorem | Statement | Argument |
| --- | --- | --- |
| `TicksAreSeen` | `TickIsSeen` | `Window`: the buffer and what is not fed yet are the end of what was sent. Epochs grow because each sample is of the current clock, which only a counted reset starts again. |
| `NothingGetsLost` | `NothingIsLost` | `LossInv`: each place the buffer has passed is in a frame that was taken, or what was sent from there on is no frame, whatever follows. |
| `FramesAreSound` | `SoundFrames` | `FramesInv`: what each step of a publication has written; that the slot not shown is of another publication, so a copy is whole if the number still holds after it; and that an age is at most repeats times the limit of failures plus failures (`CountsAfterRead`, `YoungValue`). |
| `PidStaysInLimits` | `[]InLimits` | Inductive once the limits are known to lie around zero, where a reset puts the integral; `Clamp` lies between its bounds. |
| `PidNeverWindsUp`, `PidStaysSound` | `NeverWindsUp`, `PidIsSound` | A saturated call keeps the integral, or it moves by the sign of the error, against the limit (`StepSign`, `ClampDown`, `ClampUp`). |
| `CollectorTypes` | `CollectorTypeOK` | By actions, in three parts: flags, steps, outputs. |
| `CollectorStaysSafe` | `CollectorIsSafe` | Not inductive: `CollectorInv` adds that a running PID has had what it needs since `Decide` looked, that the controller recovers exactly while the pose has not been back inside, that held outputs are of its mode, and that the frame of the tick carries those. |

The reference:

| Theorem | Statement | Argument |
| --- | --- | --- |
| `StaleStaysNeutral` | `StaleIsNeutral` | `PwmInv`. `LockInv` says who holds which of the two locks; `DecidedInv` where the last decision on a valve is: with the holder of `_lock`, else with the one of `_io_lock`, else with the writer, whose counts are on the chip unless a write failed. `CentreInv` says that nothing moves in a section that began with a reset, `MonitorInv` that after the monitor has noted its reset the valves are centred or a command has come that it will see. |
| `ValvesStayAsDecided` | `ValvesAsDecided` | The same, and `SideInv`: what a ramp remembers is never inside the dead band, from which each way of `_apply_ramp` keeps the side of the command (`RampSide`, `DitherSide` and others are about the operators). |
| `SwapsAreNeutral` | `SwapIsNeutral`, the second half of `NoValveJumps` | `CentreInv`, at the step that reads the file. |
| `ValvesNeverJump` | `NoValveJumps` | `SwapsAreNeutral`, and for each write `StepInv`: the ramp remembers the last pulse decided, up to the dither, unless that was a direct one (`ByDirect`), and every count that waits for its write is one step from the count written before it, be that on the writer, in a write under way, or zero in a writer just swapped in. `RampReach`, `DitherReach` and `CountGrows` bound a step of the ramp, of the dither and of the rounding; `CentreIsSmall` says that a reset is a small step from anywhere. |
| `DriveStaysNeutral` | `BusyIsNeutral` | `DriveInv`: types, and by phase of the loop what was sent last (`BusyInv`). |
| `RecordingsAreTrue` | `RecordingIsTrue` | `RecordInv`: at which phases the log holds what is not written yet, and that all columns are equally long although they are packed in slices (`Even`); `LabelInv`: which rows of the column `block` have the number of the block in work. |
| `ExcitationStaysGentle` | `ExcitationIsGentle` | `ExciteInv`: a joint has been driven for as long as its taper has gone on, and its signal, the noise included, is clipped to what the taper leaves; a stroke aims between the margins of a joint inside its limits; what is sent is the excitation as observed. `Stays`, `Begins` and `Moves` say once what an operation does to an excitation. |

The four theorems about the PWM controller have hypotheses that the run's files
satisfy (`MCAssumption`), and so does the repository's `servo_config.yaml`.
`PumpStays` says that no output is a pump's in one configuration and a valve's in
another: a setter of the pump computes its count under `_lock` and asks for
`_io_lock` later, so that such a reload would let a late pump pulse land on a
valve. `AllCalibrated` is about the values of a channel: room for its dither on both
sides, and for a ramp no dead zone of commands and a dead band on either side.
`PulsesFit`, which only `ValvesNeverJump` needs, says that the shortest pulse of a
valve is at least one count long, for a count of zero is no pulse at all. The
validator asks for none of the three. The proof also showed what `direct` has to
remember: a write of `update_named_us` that failed leaves its counts in the writer,
and the next write of any output sends them.

Only model-checked:

- the liveness properties (`FinishEnds`, `ClosingEnds`, `LossIsReported`,
  `NeverStuck`, `StaleCentres`, `CleanupEnds`), since the prover does
  not do liveness under fairness or ENABLED;
- `HistoryIsTrue`: its search is a fold over sequences that are filtered by sums, of
  which a theorem for all sizes is still to be done;
- `TrackerIsSound`: what a fold over the intervals computes would need induction
  over data. The sum of an IMU frame is a fold too, but nothing depends on what it
  computes.

No module declares a RECURSIVE operator, so every module can be proved about.

## Where the code and what is said of it disagree

Shown by a run (paths below `native_stack/`): a plan that outlives its prompt
(`prompt`, `tools/vla_live.py:16-18`).

Disagreements without a run, met with the same models. In the native stack:

- `core.cpp` `receive` returns at once while the core decays, so a drive packet
  without the deadman does not centre the outputs; `notes/ARCHITECTURE.md:46` says
  that releasing the deadman centres at once.
- `record_main.cpp` `finish` joins the writer thread and waits for its syncs in the
  loop, which sends nothing meanwhile: when that outlasts the lease, the core
  decays into a fault, and the recorder arms anew by itself.
  `notes/RECORDING.md:135` says that saving or discarding leaves the controller
  armed, and so does the comment in front of `finish`.
- an automatic session still reads `save` and `discard` from stdin; either clears
  `pending_start`, after which no take follows and nothing ends the session.
  `Recorder` gives automatic sessions no operator.
- `control_main.cpp:343` refuses drive packets while another producer is the owner,
  and a lease only expires once it was armed: a producer that sends one drive packet
  and falls silent before it arms keeps all others out until it closes or someone
  sends DISARM. `Rearms` names the case.
- `core.cpp:374` ramps what a decaying core asks, so a slow ramp may still open a
  valve towards the falling command for some ticks; `DecayOnlyStops` says how far.
  Between two ticks the chip holds its last pulse: a missed deadline is noticed by
  the next tick, whenever that comes (`MotionDeadline`).
- `policy_probe.py` accepts any `--max-age-ms`; `history.py:36` keeps frames half a
  second longer than they are asked for, so a view that may be later than that may
  miss its past though it was read (`HistoryIsTrue` therefore says `MaxAge <= Slack`).
  A push that finds the memory full may empty the queue of another view, whose
  restart then goes unnoticed (`history.py:56` compares with the newest it has).
- `control_main.cpp:346` takes `last_command` from drive packets the decaying or
  faulted core ignores; `notes/PROTOCOL.md:53` says the reported sequence
  identifies the applied command.
- `record_main.cpp:595` marks no frame as old when a store is busy as a take
  begins, so a frame from before the take may be its first; the comment at 593
  says otherwise.
- `mlp_record.cpp:534` (`finish`) overwrites a `Failed` that the writer thread
  stored in between; `notes/PID_COLLECTION.md:98` says failure exits.
- `mlp_record.cpp:500` (`start` on a full queue) restores the state but not the
  transition number, so an earlier save never leaves `Closing`; `ClosingEnds`
  therefore names this case.
- `mlp_record.cpp:507` refuses a record in state `Failed` and counts it nowhere: a
  strip queued behind a failed close may be committed without those rows, where
  `notes/MLP_RECORDING.md:116` says that overflow or disk failure leaves an
  incomplete strip. `CommittedIsWhole` therefore says that no record is missing
  before the last one written.
- `pid_main.cpp`: a `begin` or `finish` between the failure of the writer and the
  next look at it leaves orphans in the telemetry queue; `take` skips them, and a
  queue full of them ends the program, so the strip is safe. A pause during a
  recovery forgets it (`RandomCollection::reset`): Start at the margin's edge then
  begins random motion at once, short of the half degree inside that
  `notes/PID_COLLECTION.md:39` asks for. `RecoveryHolds` is about one run of the PID.
- `vla_operator.py` `shutdown` always sends DISARM: a run that was refused because
  another producer is armed, or because a fault is latched, disarms that producer
  or clears the fault in its cleanup.
- Smaller ones in `tools/`: `Client.sequence` is incremented by two threads without
  a lock; `stop` checks and sets its reason without one, so that "finished" may hide
  a controller fault; `model_since` starts at construction, before `arm`, so the
  window for the first plan is up to two seconds short; Ctrl+C between `Popen` and
  `procs.append` leaks a service; a second kill that times out in `stop_services`
  leaves the remaining ones. Committed rows cover one row less than the expected
  delay; the margin hides it.

In the frozen reference:

- `simple_drive.py`: a sine is clipped at its amplitude after the taper (380-382), so
  during the taper its noise may take it beyond the tapered amplitude; a UDP packet
  between the poll and the look at its age sends old
  sticks for one tick (1185-1253); the stroke runs on angles that are not fresh
  (docstring at 478, check at 1257); an exception in the last save skips the
  emergency stop (1333); Ctrl+C between a save and `_clear` writes the recording
  twice (comment at 721); late ticks jump the waveform; a stroke overlay turns
  around without a taper, so `ExcitationIsGentle` is about what enters, not about turns.
- `pwm/controller.py`: refused commands refresh `_last_command_ts`, so a stream of
  them never goes stale (470-475); a pump setter may write after a later reset
  (832-843); the monitor may set the safe state after a reset (436-443); a failed
  write in the stale reset ends the monitor; `update_named_us` does not tell the
  ramp; `disable_channels` keeps the last pulse of a channel; the validator allows
  a centre whose dead band lies beyond the limits; a reload forgets the
  constructor's frequency; a reload to a file without a pump keeps the old pump's
  channel in the range that is written, with a count of zero (376); `pwm/README.md:37` says that the watchdog only advances
  in `update_named`, but it has a thread.
- `perf_tracker.py`: the docstring at 42 says "Thread-safe with a single lock", but
  stamps are read and written without it, so a reset inside a call may raise in it
  (`RaisesOnlyOnReset` says when), or record an interval from before the reset;
  switching on again records the pause as an interval; the share of missed
  deadlines can exceed 100 after a reset of the ring.
- `pid.py`: the anti-windup compares signs, which takes a positive `Ki` and an
  output range around zero; limits that do not contain zero leave the integral
  outside them; giving one of `Imin` and `Imax` overwrites both.

## Not modelled

- Real-number functions without state: attitude correction, kinematics, inverse
  kinematics, waveform values, the choice of the PID collector's segments and its
  coverage statistics, the policies' arithmetic.
- Register programming and device set-up, the text of status replies and logs,
  options and previews, offline tools that read finished takes, the recorder's
  manifest.
- `PolicyLoop` looks at plans at row times only (between two rows an interpolation
  of the old and of the new plan may differ) with an action offset of zero.
- `PolicySession` folds the supervisor's reasons to doubt and the errors of the loop
  to one failure each, and the readers to one resource.
- `SimpleDrive` has no second Ctrl+C, no Ctrl+C inside a step, and leaves out track
  and slew options, status text and columns that are not about the excitation.
- `PwmController` leaves out calls that return at once because their own time stamp
  is stale, getters and logging. `PerfTracker` leaves out `record_interval` and
  `record_stage` and `set_target_hz`, which nothing in `src/` calls, and rates. The
  one caller, the PWM controller, tells `tick_end` no period, so its headroom and
  violations stay empty; both cases are modelled.
- `ValveOutput` has whole pulses, and curves instead of the power of a gamma; a dither
  may stand anywhere in its swing, and one of zero amplitude or frequency is none.
- In `Recorder` all other connections are one, which drives, releases, closes, sends
  DISARM or a bad packet; it has no plans. In `ControlService` each has its slot.
- `FrameHistory` leaves out the image checks of a frame, the time limit of the probe's
  sources, its duration and its rate: it may end or skip a sample at any pass. The
  files of an observation and the other commands of `policy_probe.py` are not modelled.
- `PidTelemetry` keeps the four outputs of `MlpWriter`: the two sidecar files are
  closed and renamed with them.

The hazards in `PROJECT.json` without a property say why.

## Plan

What is left, in the order of its worth:

1. `ImuLink` composed: the firmware's messages as what `ImuParser` is fed, and the
   parser's `TickIsSeen` as the assumption of `ControlService` (`ParserMayTurn`).
2. Larger instances: two valves in `valves`, two cameras' restarts in `policy`.
3. The smaller programs left over: what `export_episodes.py` and the manifest make of
   takes, the publisher's counters in `camera_main.cpp`, and the pi0.5 runtime.
