---------------------------- MODULE PwmController ----------------------------
(***************************************************************************)
(* The PWM controller of the frozen Python reference                       *)
(* (reference/modules/pwm/controller.py, writer.py): several threads call  *)
(* it, and a monitor thread of its own watches how often commands come and *)
(* how old the last one is.  A call computes its counts under _lock, takes *)
(* _io_lock before it lets _lock go, and writes the chip.  Only the pump's *)
(* own setters let _lock go first.  Every write to the chip may fail.      *)
(*                                                                         *)
(* A call whose time stamp is older than the stale timeout returns at once *)
(* and is not modelled.  One tick is the monitor's period (50 ms), which   *)
(* is longer than any critical section; the two seconds for which a reload *)
(* waits for the monitor are not exceeded.  How calls are timed is the     *)
(* subject of PerfTracker.                                                 *)
(***************************************************************************)
EXTENDS ValvePulse, FiniteSetsExt

CONSTANTS
    Callers,       \* the threads that call the controller
    MainThread,    \* the one that leaves the process
    Calls,         \* the methods each of them calls
    Commands,      \* arguments of update_named
    DirectCommands, \* arguments of update_named_us
    Speeds, Gains, \* arguments of set_pump_speed_us and set_pump_activity_gain_us
    Files, FirstFile, \* configuration files, and the one the controller starts with
    RateThreshold, \* commands per tick that keep the gate open; 0: no gate
    TimeWindow,    \* the window in which they are counted (0.5 s)
    StaleTimeout,  \* 0: no watchdog
    UnsetToZero,   \* default_unset_to_zero
    CleanupDisableOsc,
    MaxReloads, MaxEvents \* bounds: reloads; failed writes, direct pulses, calls for the pump
                          \* and the channels

ASSUME CallersAssumption ==
    /\ MainThread \in Callers /\ DOMAIN Calls = Callers
    /\ Callers \cap {"monitor", "free"} = {}
ASSUME CommandAssumption ==
    /\ \A cmd \in Commands \cup DirectCommands : \A n \in DOMAIN cmd : cmd[n] \in Int
    /\ Gains \subseteq Int
ASSUME FileAssumption ==
    /\ FirstFile \in Files /\ Accepted(FirstFile)
    /\ \A file \in Files : file.typed => Typed(file.config)
ASSUME MonitorAssumption ==
    /\ RateThreshold \in Nat /\ TimeWindow \in Nat \ {0} /\ StaleTimeout \in Nat
    /\ MaxReloads \in Nat /\ MaxEvents \in Nat

VARIABLES
    config,        \* channel_configs, pump_config
    writer,        \* DirectPWMWriter: its channel range, frequency and _counts
    chip, osc,     \* the PCA9685: its registers, and whether the oscillator runs
    values, pulse, ramp, \* values, _current_pulse_us, _channel_ramp_state
    pump, toggle,  \* the pump's settings, toggle_channels
    safe, counter, window, \* is_safe_state, _cmd_counter, age of rate_window_start
    stale,         \* age of _last_command_ts
    lock, io,      \* who holds _lock and _io_lock
    thread,        \* what every caller and the monitor is doing
    running, sent, verdict, due, \* the monitor: running, _stale_reset_sent, rate, end of sleep
    reloads, events, \* so far
    failed, direct \* history: the last write failed; outputs the writer has from update_named_us

outputs == <<writer, chip, osc>>
believed == <<values, pulse, ramp, pump>>
gate == <<safe, counter, window, stale>>
monitor == <<running, sent, verdict, due>>
bounds == <<reloads, events>>
history == <<failed, direct>>
pwmVars == <<config, outputs, believed, toggle, gate, lock, io, thread, monitor, bounds, history>>

Monitor == "monitor"
Free == "free"
Threads == Callers \cup {Monitor}
Watches == RateThreshold > 0 \/ StaleTimeout > 0

ChannelsOf(c) == {c.channels[n] : n \in DOMAIN c.channels}
WiresOf(c) == {cfg.output_channel : cfg \in ChannelsOf(c) \cup c.pumps}
Wires == UNION {WiresOf(file.config) : file \in Files}
\* A function changed on some of its domain.
Over(f, g) == [x \in DOMAIN f |-> IF x \in DOMAIN g THEN g[x] ELSE f[x]]

\* A writer for configuration c; without a pump of its own, its range still reaches to the
\* pumps the controller has so far.
FreshWriter(c, pumps) ==
    LET kept == IF c.pumps = {} THEN pumps ELSE {}
        wires == WiresOf(c) \cup {cfg.output_channel : cfg \in kept}
    IN [low |-> Min(wires), high |-> Max(wires), frequency |-> c.frequency,
        counts |-> [w \in Wires |-> 0]]
CountOf(p) == Count(p, writer.frequency)
Idle == [at |-> "idle", job |-> "none", updates |-> <<>>, was |-> FALSE]
Doing(t, at, job, updates) == [thread EXCEPT ![t] = [@ EXCEPT !.at = at, !.job = job,
                                                             !.updates = updates]]
-----------------------------------------------------------------------------
(* What a call computes under the lock. *)

\* The outputs of the valves, the name of the valve on an output, and its settings.
Valves(c) == {c.channels[n].output_channel : n \in DOMAIN c.channels}
NameOf(c, w) == CHOOSE n \in DOMAIN c.channels : c.channels[n].output_channel = w
On(c, w) == c.channels[NameOf(c, w)]
Centres(c) == [w \in Valves(c) |-> On(c, w).center]
Driven == {w \in Valves(config) : toggle \/ ~On(config, w).toggleable}
PumpWires(c) == {cfg.output_channel : cfg \in c.pumps}
PumpFloor(c) == [w \in PumpWires(c) |-> (CHOOSE cfg \in c.pumps : TRUE).pulse_min]
AffectsPump == {cfg \in ChannelsOf(config) : cfg.affects_pump}
\* pump_activity_sum after a call of commands, and after one of pulses.
Asked(commands) ==
    MapThenSumSet(LAMBDA cfg : Size(commands[cfg.output_channel]), AffectsPump)
Opened(pulses) ==
    MapThenSumSet(LAMBDA cfg : Activity(cfg, pulses[cfg.output_channel]), AffectsPump)

\* Sets the pump's activity and pulse for this call and adds its count to the updates.
WithPump(activity, pulses, updates, t, job) ==
    LET settings == [pump EXCEPT !.activity_sum = activity,
                                 !.activity_count = Cardinality(AffectsPump)]
        own == [w \in PumpWires(config) |->
                  PumpPulse(CHOOSE cfg \in config.pumps : TRUE, settings)]
    IN /\ pump' = settings
       /\ pulse' = Over(pulses, own)
       /\ thread' = Doing(t, "staged", job,
             [w \in DOMAIN updates \cup DOMAIN own |->
                CountOf(IF w \in DOMAIN own THEN own[w] ELSE updates[w])])

\* Mutant: reset forgets the ramp.
Reset_KeepsRamp(c, frequency, with_pump, t, job) ==
    LET pulses == Over(Over(pulse, Centres(c)),
                       IF with_pump THEN PumpFloor(c) ELSE <<>>)
        written == DOMAIN Centres(c) \cup (IF with_pump THEN PumpWires(c) ELSE {})
    IN /\ values' = [w \in Wires |-> 0]
       /\ pulse' = pulses
       /\ pump' = [pump EXCEPT !.activity_sum = 0, !.activity_count = 0, !.direct = {}]
       /\ safe' = FALSE
       /\ thread' = Doing(t, "staged", job, [w \in written |-> Count(pulses[w], frequency)])
       /\ UNCHANGED ramp
\* reset, for the controller's present or next configuration.
Reset(c, frequency, with_pump, t, job) ==
    LET pulses == Over(Over(pulse, Centres(c)),
                       IF with_pump THEN PumpFloor(c) ELSE <<>>)
        written == DOMAIN Centres(c) \cup (IF with_pump THEN PumpWires(c) ELSE {})
    IN /\ values' = [w \in Wires |-> 0]
       /\ pulse' = pulses
       /\ ramp' = Over(ramp, [w \in DOMAIN Centres(c) |-> [pulse |-> Centres(c)[w], age |-> 0]])
       /\ pump' = [pump EXCEPT !.activity_sum = 0, !.activity_count = 0, !.direct = {}]
       /\ safe' = FALSE
       /\ thread' = Doing(t, "staged", job, [w \in written |-> Count(pulses[w], frequency)])
-----------------------------------------------------------------------------
(* The calls. *)

May(t, call) == thread[t].at = "idle" /\ call \in Calls[t]
MayTune(t, call) == May(t, call) /\ events < MaxEvents /\ events' = events + 1

Counted ==
    /\ stale' = 0
    /\ counter' = IF RateThreshold = 0 THEN counter
                  ELSE Smaller(counter + 1, RateThreshold * TimeWindow)
Refused(t) ==
    /\ RateThreshold > 0 /\ ~safe
    /\ Counted
    /\ UNCHANGED <<config, outputs, believed, toggle, safe, window, lock, io, thread, monitor,
                   bounds, history>>

UpdateNamed(t, cmd) ==
    LET new == [w \in Wires |->
                  IF w \in Valves(config) /\ NameOf(config, w) \in DOMAIN cmd
                  THEN Clip(cmd[NameOf(config, w)], -Unit, Unit)
                  ELSE IF UnsetToZero /\ w \in Valves(config) THEN 0 ELSE values[w]]
        bases == [w \in Driven |->
                    Undithered(On(config, w), new[w], ramp[w].pulse, ramp[w].age)]
        swings == [w \in Driven |-> Dithered(On(config, w), bases[w])]
    IN /\ May(t, "update_named") /\ lock = Free
       /\ \/ Refused(t)
          \/ /\ RateThreshold = 0 \/ safe
             /\ Counted
             /\ values' = new
             /\ ramp' = [w \in Wires |->
                          IF w \in Driven /\ On(config, w).ramp_enable
                          THEN [pulse |-> bases[w], age |-> 0] ELSE ramp[w]]
             /\ \E out \in [Driven -> UNION {swings[w] : w \in Driven}] :
                   /\ \A w \in Driven : out[w] \in swings[w]
                   /\ WithPump(Asked(new), Over(pulse, out), out, t, "update")
             /\ lock' = t
             /\ UNCHANGED <<config, outputs, toggle, safe, window, io, monitor, bounds, history>>

\* The ramp is not told.
UpdateNamedUs(t, cmd) ==
    LET asked == {w \in Driven : NameOf(config, w) \in DOMAIN cmd}
        selected == [w \in IF UnsetToZero THEN Driven ELSE asked |->
                       IF w \in asked
                       THEN Clip(cmd[NameOf(config, w)], On(config, w).pulse_min,
                                                         On(config, w).pulse_max)
                       ELSE On(config, w).center]
        pulses == Over(pulse, selected)
    IN /\ May(t, "update_named_us") /\ lock = Free /\ events < MaxEvents
       /\ \/ Refused(t)
          \/ /\ RateThreshold = 0 \/ safe
             /\ Counted
             /\ values' = [w \in Wires |-> IF w \in DOMAIN selected THEN 0 ELSE values[w]]
             /\ WithPump(Opened(pulses), pulses, selected, t, "direct")
             /\ lock' = t /\ events' = events + 1
             /\ UNCHANGED <<config, outputs, ramp, toggle, safe, window, io, monitor, reloads,
                            history>>

\* Mutant: reset lets _lock go before it asks for _io_lock.
CallReset_Unlocked(t) ==
    /\ May(t, "reset") /\ lock = Free
    /\ Reset(config, writer.frequency, TRUE, t, "reset")
    /\ UNCHANGED <<config, outputs, toggle, counter, window, stale, lock, io, monitor, bounds,
                   history>>
CallReset(t) ==
    /\ May(t, "reset") /\ lock = Free
    /\ Reset(config, writer.frequency, TRUE, t, "reset")
    /\ lock' = t
    /\ UNCHANGED <<config, outputs, toggle, counter, window, stale, io, monitor, bounds, history>>

SetPump(t) ==
    /\ MayTune(t, "set_pump") /\ lock = Free
    /\ \/ \E enabled \in BOOLEAN :
             /\ pump' = [pump EXCEPT !.enabled = enabled]
             /\ thread' = Doing(t, "pump", "pump", <<>>)
       \/ \E speed \in {{}} \cup {{s} : s \in Speeds} :
             /\ pump' = [pump EXCEPT !.direct =
                           {IF config.pumps = {} THEN s
                            ELSE LET cfg == CHOOSE c \in config.pumps : TRUE
                                 IN Clip(s, cfg.pulse_min, cfg.pulse_max) : s \in speed}]
             /\ thread' = Doing(t, "pump", "pump", <<>>)
       \/ \E auto \in BOOLEAN : pump' = [pump EXCEPT !.auto = auto] /\ UNCHANGED thread
    /\ UNCHANGED <<config, outputs, values, pulse, ramp, toggle, gate, lock, io, monitor, reloads,
                   history>>

\* set_pump_activity_gain_us writes into the configuration.
SetGain(t) ==
    /\ MayTune(t, "set_pump") /\ lock = Free
    /\ \E gain \in Gains :
          config' = [config EXCEPT !.pumps =
                       {[cfg EXCEPT !.activity_gain_us =
                            Clip(gain, 0, cfg.pulse_max - cfg.pulse_min)] : cfg \in @}]
    /\ UNCHANGED <<outputs, believed, toggle, gate, lock, io, thread, monitor, reloads, history>>

\* _update_pump: the count is computed under _lock, and _io_lock is asked for later.
ComputePump(t) ==
    LET own == [w \in PumpWires(config) |->
                  PumpPulse(CHOOSE cfg \in config.pumps : TRUE, pump)]
    IN /\ thread[t].at = "pump" /\ lock = Free
       /\ pulse' = Over(pulse, own)
       /\ thread' = IF own = <<>> THEN [thread EXCEPT ![t] = Idle]
                    ELSE Doing(t, "unlocked", "pump", [w \in DOMAIN own |-> CountOf(own[w])])
       /\ UNCHANGED <<config, outputs, values, ramp, pump, toggle, gate, lock, io, monitor, bounds,
                      history>>

DisableChannels(t) ==
    /\ MayTune(t, "disable_channels")
    /\ toggle' = ~toggle
    /\ UNCHANGED <<config, outputs, believed, gate, lock, io, thread, monitor, reloads, history>>
-----------------------------------------------------------------------------
(* Writing to the chip. *)

\* A reset inside another critical section leaves that section's lock held.
Nested(job) == job \in {"reload", "swapped", "cleanup", "stale"}

TakeIo(t) ==
    /\ thread[t].at \in {"staged", "unlocked"} /\ io = Free
    /\ io' = t
    /\ lock' = IF thread[t].at = "staged" /\ ~Nested(thread[t].job) THEN Free ELSE lock
    /\ thread' = [thread EXCEPT ![t].at = "writing"]
    /\ UNCHANGED <<config, outputs, believed, toggle, gate, monitor, bounds, history>>

StartMonitoring(was) ==
    IF was
    THEN /\ running' = TRUE /\ sent' = FALSE /\ due' = FALSE
         /\ verdict' = verdict
    ELSE UNCHANGED monitor
Restarted(t, was) ==
    [thread EXCEPT ![t] = Idle, ![Monitor] = IF was THEN [@ EXCEPT !.at = "asleep"] ELSE @]
EndPass == due' = FALSE /\ thread' = [thread EXCEPT ![Monitor] =
                                [Idle EXCEPT !.at = IF running THEN "asleep" ELSE "ended"]]

\* With nothing to write, the chip is left alone.
Sent(counts, last) ==
    [w \in Wires |-> IF w \in writer.low..last THEN Registers(counts[w]) ELSE chip[w]]
Flushed(t) ==
    LET counts == Over(writer.counts, thread[t].updates)
    IN IF DOMAIN thread[t].updates = {} THEN UNCHANGED <<writer, chip, failed>> ELSE
       /\ writer' = [writer EXCEPT !.counts = counts]
       /\ chip' = Sent(counts, writer.high)
       /\ failed' = FALSE

Noted(t) ==
    direct' = IF thread[t].job = "direct" THEN direct \cup DOMAIN thread[t].updates
              ELSE direct \ DOMAIN thread[t].updates

Write(t) ==
    LET job == thread[t].job
    IN /\ thread[t].at = "writing"
       /\ Flushed(t)
       /\ io' = Free
       /\ lock' = IF job \in {"swapped", "cleanup", "stale"} THEN Free ELSE lock
       /\ osc' = IF job = "cleanup" THEN osc /\ ~CleanupDisableOsc ELSE osc
       /\ CASE job = "stale" -> EndPass /\ sent' = TRUE /\ UNCHANGED <<running, verdict>>
            [] job = "swapped" -> /\ thread' = Restarted(t, thread[t].was)
                                  /\ StartMonitoring(thread[t].was)
            [] OTHER -> /\ thread' = [thread EXCEPT ![t] =
                              CASE job = "reload" -> [@ EXCEPT !.at = "parsing"]
                                [] job = "cleanup" -> [@ EXCEPT !.at = "exited"]
                                [] OTHER -> Idle]
                        /\ UNCHANGED monitor
       /\ Noted(t)
       /\ UNCHANGED <<config, believed, toggle, gate, bounds>>

\* An exception in flush, with some outputs already sent: the caller gets it, reload_config
\* and _simple_cleanup catch it, and in the monitor it ends the thread.
WriteFails(t) ==
    LET job == thread[t].job
        counts == Over(writer.counts, thread[t].updates)
    IN /\ thread[t].at = "writing" /\ DOMAIN thread[t].updates # {} /\ events < MaxEvents
       /\ writer' = [writer EXCEPT !.counts = counts]
       /\ \E last \in writer.low - 1..writer.high : chip' = Sent(counts, last)
       /\ failed' = TRUE
       /\ events' = events + 1
       /\ io' = Free
       /\ lock' = IF Nested(job) THEN Free ELSE lock
       /\ CASE job \in {"reload", "swapped"} -> /\ thread' = Restarted(t, thread[t].was)
                                                /\ StartMonitoring(thread[t].was)
            [] OTHER -> /\ thread' = [thread EXCEPT ![t] =
                              CASE job = "stale" -> [Idle EXCEPT !.at = "dead"]
                                [] job = "cleanup" -> [@ EXCEPT !.at = "exited"]
                                [] OTHER -> Idle]
                        /\ UNCHANGED monitor
       /\ Noted(t)
       /\ UNCHANGED <<config, osc, believed, toggle, gate, reloads>>
-----------------------------------------------------------------------------
(* reload_config and _simple_cleanup. *)

StopMonitoring(t, job) ==
    /\ running' = FALSE
    /\ thread' = [thread EXCEPT ![t] = [@ EXCEPT !.at = "stopping", !.job = job, !.was = running]]
    /\ UNCHANGED <<sent, verdict, due>>

StartReload(t) ==
    /\ May(t, "reload_config") /\ reloads < MaxReloads
    /\ reloads' = reloads + 1
    /\ StopMonitoring(t, "reload")
    /\ UNCHANGED <<config, outputs, believed, toggle, gate, lock, io, events, history>>

\* atexit: the other threads have ended their calls.
StartCleanup ==
    /\ \A t \in Callers : thread[t].at = "idle"
    /\ StopMonitoring(MainThread, "cleanup")
    /\ UNCHANGED <<config, outputs, believed, toggle, gate, lock, io, bounds, history>>

\* The monitor is joined, and the outputs are centred with the lock held from here on.
Neutralise(t) ==
    /\ thread[t].at = "stopping" /\ lock = Free
    /\ ~thread[t].was \/ thread[Monitor].at \in {"ended", "dead"}
    /\ Reset(config, writer.frequency, TRUE, t, thread[t].job)
    /\ lock' = t
    /\ UNCHANGED <<config, outputs, toggle, counter, window, stale, io, monitor, bounds, history>>

\* The file is rejected, or the new writer cannot set up the chip, which may then sleep.
GivesUp(t) ==
    /\ lock' = Free
    /\ thread' = Restarted(t, thread[t].was)
    /\ StartMonitoring(thread[t].was)
    /\ UNCHANGED <<config, writer, chip, believed, toggle, gate, io, reloads, history>>
ReadConfig(t, file) ==
    /\ thread[t].at = "parsing"
    /\ \/ /\ ~Accepted(file)
          /\ GivesUp(t)
          /\ UNCHANGED <<osc, events>>
       \/ /\ Accepted(file) /\ events < MaxEvents
          /\ events' = events + 1
          /\ osc' \in {osc, FALSE}
          /\ GivesUp(t)
       \/ /\ Accepted(file)
          /\ config' = file.config
          /\ writer' = FreshWriter(file.config, config.pumps)
          /\ osc' = TRUE
          /\ Reset(file.config, file.config.frequency, TRUE, t, "swapped")
          /\ UNCHANGED <<chip, toggle, counter, window, stale, lock, io, monitor, bounds, history>>
-----------------------------------------------------------------------------
(* _monitor_loop. *)

At(m) == thread[Monitor].at = m
Goes(m) == thread' = [thread EXCEPT ![Monitor].at = m]

\* The commands are counted in one critical section ...
Wake ==
    /\ At("asleep") /\ due
    /\ \/ /\ RateThreshold > 0 /\ window >= TimeWindow /\ lock = Free
          /\ verdict' = (counter >= RateThreshold * window)
          /\ counter' = 0
          /\ Goes("rating")
       \/ /\ RateThreshold = 0 \/ window < TimeWindow
          /\ Goes("checking")
          /\ UNCHANGED <<verdict, counter>>
    /\ UNCHANGED <<config, outputs, believed, toggle, safe, window, stale, lock, io, running, sent,
                   due, bounds, history>>
\* ... and judged in another.
Rate ==
    /\ At("rating") /\ lock = Free
    /\ safe' = verdict
    /\ window' = 0
    /\ verdict' = FALSE
    /\ Goes("checking")
    /\ UNCHANGED <<config, outputs, believed, toggle, counter, stale, lock, io, running, sent, due,
                   bounds, history>>

IsStale == StaleTimeout > 0 /\ stale > StaleTimeout
\* Mutant: the reset is noted before it is made.
CheckStale_NotedFirst ==
    /\ At("checking")
    /\ \/ /\ IsStale /\ ~sent
          /\ Goes("stale")
          /\ sent' = TRUE
          /\ UNCHANGED due
       \/ /\ ~IsStale \/ sent
          /\ sent' = (sent /\ (StaleTimeout = 0 \/ IsStale))
          /\ EndPass
    /\ UNCHANGED <<config, outputs, believed, toggle, gate, lock, io, running, verdict, bounds,
                   history>>
\* Mutant: the outputs are reset only while the gate is open.
CheckStale_WhileOpen ==
    /\ At("checking")
    /\ \/ IsStale /\ ~sent /\ safe /\ Goes("stale") /\ UNCHANGED <<sent, due>>
       \/ /\ ~IsStale \/ sent \/ ~safe
          /\ sent' = (sent /\ (StaleTimeout = 0 \/ IsStale))
          /\ EndPass
    /\ UNCHANGED <<config, outputs, believed, toggle, gate, lock, io, running, verdict, bounds,
                   history>>
\* The age is read without a lock.
CheckStale ==
    /\ At("checking")
    /\ \/ /\ IsStale /\ ~sent
          /\ Goes("stale")
          /\ UNCHANGED <<sent, due>>
       \/ /\ ~IsStale \/ sent
          /\ sent' = (sent /\ (StaleTimeout = 0 \/ IsStale))
          /\ EndPass
    /\ UNCHANGED <<config, outputs, believed, toggle, gate, lock, io, running, verdict, bounds,
                   history>>
StaleReset ==
    /\ At("stale") /\ lock = Free
    /\ Reset(config, writer.frequency, FALSE, Monitor, "stale")
    /\ lock' = Monitor
    /\ UNCHANGED <<config, outputs, toggle, counter, window, stale, io, monitor, bounds, history>>

\* A period passes, with no call in its critical section; the monitor has had its turn.
PeriodPasses ==
    /\ thread[MainThread].at # "exited"
    /\ \A t \in Callers : thread[t].at \notin {"staged", "writing"}
    /\ thread[Monitor].at \in {"asleep", "ended", "dead"} /\ ~due
    /\ due' = At("asleep")
    /\ stale' = Smaller(stale + 1, StaleTimeout + 1)
    /\ window' = Smaller(window + 1, TimeWindow)
    /\ ramp' = [w \in DOMAIN ramp |-> [ramp[w] EXCEPT !.age = Smaller(@ + 1, RampDtMax)]]
    /\ UNCHANGED <<config, outputs, values, pulse, pump, toggle, safe, counter, lock, io, thread,
                   running, sent, verdict, bounds, history>>
Exited == thread[MainThread].at = "exited" /\ UNCHANGED pwmVars
-----------------------------------------------------------------------------
\* The controller as its constructor leaves it.
PwmInit ==
    LET c == FirstFile.config
        pulses == [w \in Wires |-> IF w \in DOMAIN Centres(c) THEN Centres(c)[w]
                                   ELSE IF w \in PumpWires(c) THEN PumpFloor(c)[w] ELSE 0]
        counts == [w \in Wires |-> Count(pulses[w], c.frequency)]
    IN /\ config = c
       /\ writer = [FreshWriter(c, c.pumps) EXCEPT !.counts = counts]
       /\ chip = [w \in Wires |-> Registers(counts[w])] /\ osc = TRUE
       /\ values = [w \in Wires |-> 0] /\ pulse = pulses
       /\ ramp = [w \in Wires |-> [pulse |-> pulses[w], age |-> 0]]
       /\ pump = [enabled |-> TRUE, direct |-> {}, auto |-> FALSE,
                  activity_sum |-> 0, activity_count |-> 0]
       /\ toggle = TRUE
       /\ safe = FALSE /\ counter = 0 /\ window = 0 /\ stale = 0
       /\ lock = Free /\ io = Free
       /\ thread = [t \in Threads |-> IF t = Monitor /\ Watches THEN [Idle EXCEPT !.at = "asleep"]
                                      ELSE IF t = Monitor THEN [Idle EXCEPT !.at = "ended"]
                                      ELSE Idle]
       /\ running = Watches /\ sent = FALSE /\ verdict = FALSE /\ due = FALSE
       /\ reloads = 0 /\ events = 0
       /\ failed = FALSE /\ direct = {}

Call(t) ==
    \/ \E cmd \in Commands : UpdateNamed(t, cmd)
    \/ \E cmd \in DirectCommands : UpdateNamedUs(t, cmd)
    \/ CallReset(t) \/ SetPump(t) \/ SetGain(t) \/ DisableChannels(t) \/ StartReload(t)
Proceed(t) ==
    \/ ComputePump(t) \/ TakeIo(t) \/ Write(t) \/ WriteFails(t) \/ Neutralise(t)
    \/ \E file \in Files : ReadConfig(t, file)
MonitorStep == Wake \/ Rate \/ CheckStale \/ StaleReset

PwmNext ==
    \/ \E t \in Callers : Call(t)
    \/ \E t \in Threads : Proceed(t)
    \/ MonitorStep
    \/ StartCleanup
    \/ PeriodPasses
    \/ Exited

\* Time passes and the threads run, whichever is next.
System == (\E t \in Threads : Proceed(t)) \/ MonitorStep \/ PeriodPasses
Fairness == WF_pwmVars(System)
PwmSpec == PwmInit /\ [][PwmNext]_pwmVars /\ Fairness
-----------------------------------------------------------------------------
(* What the locks and the watchdog are for. *)

CentredOn(c, w) == chip[w] = Registers(Count(Centres(c)[w], c.frequency))
AllCentred == \A w \in DOMAIN Centres(config) : CentredOn(config, w)
\* No call is between its decision and its write.
Quiet == \A t \in Threads : thread[t].at \notin {"staged", "writing"}

\* No output drives a valve by one configuration and the pump by another: a write of the
\* pump's that waits for _io_lock while reload_config swaps them would land on the valve.
PumpStays ==
    \A a, b \in {file \in Files : Accepted(file)} :
        PumpWires(a.config) \cap Valves(b.config) = {}

\* Whenever no call is between its decision and its write, and the last write went through,
\* the chip has the pulse the controller reports for every valve (get_current_pulses_us):
\* the writes reach the chip in the order in which the calls decided.
BelievedIsWritten ==
    (Quiet /\ ~failed) =>
        \A w \in DOMAIN Centres(config) : chip[w] = Registers(CountOf(pulse[w]))

\* Settings as the repository's servo_config.yaml has them: the dead band lies within the
\* pulse limits and is at least as wide as the dither, which has room on both sides of the
\* centre; a ramped valve has a dead band and no dead zone.
Calibrated(cfg) ==
    /\ OpenEdge(cfg) <= cfg.pulse_max /\ cfg.pulse_min <= CloseEdge(cfg)
    /\ cfg.dither_enable =>
          /\ cfg.dither_amp_us <= cfg.deadband_us_pos /\ cfg.dither_amp_us <= cfg.deadband_us_neg
          /\ cfg.center + 2 * cfg.dither_amp_us <= cfg.pulse_max
          /\ cfg.pulse_min + 2 * cfg.dither_amp_us <= cfg.center
    /\ cfg.ramp_enable =>
          /\ cfg.deadzone <= 0
          /\ cfg.deadband_us_pos > 0 /\ cfg.deadband_us_neg > 0

AllCalibrated ==
    \A file \in {f \in Files : Accepted(f)} : \A cfg \in ChannelsOf(file.config) : Calibrated(cfg)

\* A valve that is asked to move one way is never driven the other way, whatever the ramp, the
\* dither, resets and reloads left behind (_apply_ramp snaps through the dead band).
NeverOpposite ==
    \A cfg \in ChannelsOf(config) :
        LET w == cfg.output_channel
        IN (~cfg.toggleable /\ (cfg.ramp_skip_deadband \/ ~cfg.ramp_enable)) =>
               Sign(values[w] * cfg.direction) * Sign(pulse[w] - cfg.center) # -1

\* Every pulse of a valve is at least one count long: the chip has pulses to give.
PulsesFit ==
    \A file \in {f \in Files : Accepted(f)} : \A cfg \in ChannelsOf(file.config) :
        Count(cfg.pulse_min, file.config.frequency) > 0

\* The count that registers stand for, and how far it opens a valve beyond its dead band,
\* towards one side; a valve without pulses is not driven.
Held(regs) == IF regs[1] > 0 THEN CountMax ELSE IF regs[2] \in 0..CountMax THEN regs[2] ELSE 0
Beyond(c, cfg, side, count) ==
    IF count = 0 THEN 0
    ELSE IF side > 0 THEN Larger(0, count - Count(OpenEdge(cfg), c.frequency))
    ELSE Larger(0, Count(CloseEdge(cfg), c.frequency) - count)
StepLimit(c, cfg) ==
    1 + Count(cfg.ramp_limit * RampDtMax + (IF cfg.dither_enable THEN 2 * cfg.dither_amp_us ELSE 0),
              c.frequency)
Ramped(cfg) == cfg.ramp_enable /\ cfg.ramp_skip_deadband /\ ~cfg.toggleable
\* A ramped valve opens in steps however long the calls stayed away ("a stalled loop cannot
\* create a giant one-shot jump"), across resets, stale resets and reloads; the step after a
\* failed write or a direct pulse is excepted, for the ramp hears of neither.
NoGiantStep ==
    [][(~failed /\ chip' # chip) =>
          \A cfg \in ChannelsOf(config), side \in {-1, 1} :
              LET w == cfg.output_channel
              IN (Ramped(cfg) /\ w \notin direct \cup direct') =>
                    Beyond(config, cfg, side, Held(chip'[w]))
                        <= Beyond(config, cfg, side, Held(chip[w])) + StepLimit(config, cfg)]_pwmVars

\* Once the monitor has reset the outputs of a stale period, they stay centred until a new
\* command, whatever the calls that were under way when it did so.
StaleIsNeutral == (Quiet /\ sent /\ running /\ IsStale /\ ~failed) => AllCentred

\* When commands stop, the valves are centred, unless the monitor has died of a failed write.
StaleCentres ==
    (IsStale /\ running) ~> (AllCentred \/ ~IsStale \/ ~running \/ At("dead"))

\* A configuration is replaced only while every valve of the old one is centred on the chip,
\* so that no pulse of the old configuration outlives it.
SwapIsNeutral ==
    [][config'.channels # config.channels => AllCentred]_pwmVars

\* What the chip has is what was decided, and what was decided goes the way that was asked.
ValvesAsDecided == BelievedIsWritten /\ NeverOpposite

\* No valve jumps, neither by a late call nor by a new configuration.
NoValveJumps == NoGiantStep /\ SwapIsNeutral
=============================================================================
