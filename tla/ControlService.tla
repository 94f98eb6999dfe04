--------------------------- MODULE ControlService ---------------------------
(***************************************************************************)
(* The loop of native_stack/src/control_main.cpp around SafetyCore.  One   *)
(* tick reads the IMU, checks the deadline and the lease, accepts and      *)
(* serves the connected producers in table order, and writes the outputs.  *)
(* A message, a close or a new connection may arrive between any two steps *)
(* of a tick; the tick itself keeps the time it started at.                *)
(*                                                                         *)
(* What the environment supplies is chosen freely: when the next tick      *)
(* starts, however late, what the serial parser made of the bytes (any     *)
(* outcome ParserMayTurn allows), the packets of the producers             *)
(* (PacketShapes, with any sequence number that repeats or follows the     *)
(* last one), and where the sine of a dither stands.                       *)
(***************************************************************************)
EXTENDS ValveOutput, FiniteSets

CONSTANTS
    NumClients,    \* slots of the client table (8 in the code)
    MessageLimit,  \* messages served per client and tick (8 in the code)
    ImuTimeout,    \* imu_timeout
    Deadline,      \* deadline: longest allowed time between two ticks
    PacketShapes,  \* the packets producers may send
    MaxSequence,   \* bound: sequence numbers of one connection
    StartTime,     \* the clock when the process starts, far enough from 0
    MaxTime        \* bound: the last tick starts no later than this

ASSUME LoopAssumption ==
    /\ NumClients \in Nat \ {0} /\ MessageLimit \in Nat \ {0}
    /\ ImuTimeout \in Nat /\ Deadline \in Nat \ {0}
    /\ MaxSequence \in Nat /\ StartTime \in Nat \ {0} /\ MaxTime \in Nat
ASSUME PacketAssumption == PacketShapes \subseteq Shape

VARIABLES
    now,          \* start of the current tick; between ticks, of the last one
    pc,           \* "tick", "accept", "serve", "apply" or "exited"
    turn,         \* the client being served
    budget,       \* messages the client being served may still send this tick
    clients,      \* the client table
    owner,        \* the client that holds the drive lease, or NoOwner
    last_command, \* sequence of the owner's last drive packet
    core,         \* the ControlCore
    imu,          \* what ImuParser exposes to the loop
    healthy,      \* t.healthy
    applied,      \* applied_command and applied_sequence, as status reports them
    ramps,        \* the ramps of the valves
    pwm,          \* the outputs the hardware holds: the pulses of the valves, the pump
    stop_at,      \* history: time of the last event that must stop the machine
    output_at     \* history: start of the tick that wrote the outputs

vars == <<now, pc, turn, budget, clients, owner, last_command, core, imu, healthy,
          applied, ramps, pwm, stop_at, output_at>>

Clients == 1 .. NumClients
NoOwner == 0
Client == [open : BOOLEAN, seen : BOOLEAN, sequence : Nat]
NoClient == [open |-> FALSE, seen |-> FALSE, sequence |-> 0]
Imu == [received : Nat, valid : BOOLEAN, blocked : BOOLEAN]
NoSample == [received |-> 0, valid |-> FALSE, blocked |-> FALSE]
Output == [valves : [ValveNames -> Int], pump : BOOLEAN]
Neutral == [valves |-> [n \in ValveNames |-> Calibration[n].center], pump |-> FALSE]

TypeOK ==
    /\ now \in Nat /\ stop_at \in Nat /\ output_at \in Nat
    /\ pc \in {"tick", "accept", "serve", "apply", "exited"}
    /\ turn \in 1 .. NumClients + 1 /\ (pc = "serve" => turn \in Clients)
    /\ budget \in 0 .. MessageLimit
    /\ clients \in [Clients -> Client]
    /\ owner \in Clients \cup {NoOwner}
    /\ last_command \in Nat
    /\ core \in CoreType
    /\ imu \in Imu /\ healthy \in BOOLEAN
    /\ applied \in [command : Row, sequence : Nat]
    /\ ramps \in [ValveNames -> RampState] /\ pwm \in Output

\* The memory of a process that has not run yet.
Init ==
    /\ now = StartTime /\ stop_at = StartTime /\ output_at = StartTime
    /\ pc = "tick" /\ turn = 1 /\ budget = MessageLimit
    /\ clients = [ci \in Clients |-> NoClient]
    /\ owner = NoOwner /\ last_command = 0
    /\ core = CoreInit
    /\ imu = NoSample /\ healthy = FALSE
    /\ applied = [command |-> Zero, sequence |-> 0]
    /\ ramps = [n \in ValveNames |-> NoRamp] /\ pwm = Neutral

-----------------------------------------------------------------------------
(* The start of a tick.                                                    *)

\* What one tick's serial bytes can make of the parser.  Only frames that bump
\* resets or invalid_frames (disturbed) can take validity away or touch the
\* firmware block; validity comes only from a sample, stamped with this tick.
ParserMayTurn(old, new, disturbed, t) ==
    /\ ~disturbed => new = old \/ new = [old EXCEPT !.valid = TRUE, !.received = t]
    /\ new.valid /\ ~old.valid => new.received = t

ImuHealthy(i, t) == ~i.blocked /\ i.valid /\ t - i.received <= ImuTimeout

\* The faults the loop itself raises before the core looks at the clock.
\* Mutant of LoopFaults: an IMU reset is noticed only by an armed core.
LoopFaults_IgnoresArming(c, gap, io_error, disturbed) ==
    LET late == IF gap > Deadline THEN Fault(c) ELSE c
        serial == IF io_error THEN Fault(late) ELSE late
    IN  IF disturbed /\ serial.state = "armed" THEN Fault(serial) ELSE serial
LoopFaults(c, gap, io_error, disturbed) ==
    LET late == IF gap > Deadline THEN Fault(c) ELSE c
        serial == IF io_error THEN Fault(late) ELSE late
    IN  IF disturbed /\ serial.state # "disarmed"
        THEN Fault(serial) ELSE serial

BeginTick(t) ==
    /\ pc = "tick"
    /\ \E received \in {imu.received, t}, valid, blocked, disturbed, io_error \in BOOLEAN :
         LET new == [received |-> received, valid |-> valid, blocked |-> blocked]
         IN  /\ ParserMayTurn(imu, new, disturbed, t)
             /\ imu' = new
             /\ healthy' = ImuHealthy(new, t)
             /\ core' = Tick(LoopFaults(core, t - now, io_error, disturbed), t, healthy')
             /\ stop_at' = IF t - now > Deadline \/ io_error \/ disturbed \/ ~healthy'
                           THEN t ELSE stop_at
    /\ now' = t /\ pc' = "accept"
    /\ UNCHANGED <<turn, budget, clients, owner, last_command, applied, ramps, pwm, output_at>>

\* accept4 until the listen queue is empty: each connection takes the lowest free slot.
AcceptClients ==
    /\ pc = "accept"
    /\ \E k \in 0 .. NumClients :
         LET free == {ci \in Clients : ~clients[ci].open}
             taken == {ci \in free : Cardinality({f \in free : f <= ci}) <= k}
         IN  clients' = [ci \in Clients |->
                            IF ci \in taken THEN [NoClient EXCEPT !.open = TRUE] ELSE clients[ci]]
    /\ pc' = "serve" /\ turn' = 1 /\ budget' = MessageLimit
    /\ UNCHANGED <<now, owner, last_command, core, imu, healthy, applied, ramps, pwm,
                   stop_at, output_at>>

-----------------------------------------------------------------------------
(* serve: one action per outcome of one recv.                              *)

Serving(ci) == pc = "serve" /\ turn = ci /\ clients[ci].open
ServeUnchanged == UNCHANGED <<now, pc, turn, imu, healthy, applied, ramps, pwm, output_at>>

\* On to the next client, or to the outputs after the last one.
NextTurn ==
    /\ turn' = turn + 1 /\ budget' = MessageLimit
    /\ pc' = IF turn = NumClients THEN "apply" ELSE "serve"

\* Nothing to read, the message limit, or an empty slot.
EndTurn ==
    /\ pc = "serve" /\ NextTurn
    /\ UNCHANGED <<now, clients, owner, last_command, core, imu, healthy, applied, ramps, pwm,
                   stop_at, output_at>>

\* close_client: the owner's disconnect faults the core.
CloseClient(ci) ==
    /\ Serving(ci) /\ budget > 0
    /\ core' = IF owner = ci THEN Fault(core) ELSE core
    /\ owner' = IF owner = ci THEN NoOwner ELSE owner
    /\ stop_at' = IF owner = ci THEN now ELSE stop_at
    /\ clients' = [clients EXCEPT ![ci] = NoClient]
    /\ NextTurn
    /\ UNCHANGED <<now, last_command, imu, healthy, applied, ramps, pwm, output_at>>

Replayed(ci, sequence) == clients[ci].seen /\ sequence <= clients[ci].sequence

\* A packet the decoder or the sequence check refuses; only the owner's faults.
RejectPacket(ci, s, sequence) ==
    /\ Serving(ci) /\ budget > 0
    /\ ~Decodes(s, now) \/ Replayed(ci, sequence)
    /\ core' = IF owner = ci THEN Fault(core) ELSE core
    /\ stop_at' = IF owner = ci THEN now ELSE stop_at
    /\ budget' = budget - 1
    /\ UNCHANGED <<clients, owner, last_command>> /\ ServeUnchanged

\* The common part of serving a packet that is neither malformed nor replayed.
Receives(ci, s, sequence) ==
    /\ Serving(ci) /\ budget > 0
    /\ Decodes(s, now) /\ ~Replayed(ci, sequence)
    /\ clients' = [clients EXCEPT ![ci].seen = TRUE, ![ci].sequence = sequence]
    /\ budget' = budget - 1
    /\ ServeUnchanged

ServeStatus(ci, s, sequence) ==
    /\ Receives(ci, s, sequence) /\ s.op = "status"
    /\ UNCHANGED <<owner, last_command, core, stop_at>>

\* Another producer owns the lease: its command is skipped.
SkipDrive(ci, s, sequence) ==
    /\ Receives(ci, s, sequence) /\ s.op = "drive"
    /\ owner # NoOwner /\ owner # ci
    /\ UNCHANGED <<owner, last_command, core, stop_at>>

ServeDrive(ci, s, sequence) ==
    /\ Receives(ci, s, sequence) /\ s.op = "drive"
    /\ owner \in {NoOwner, ci}
    /\ owner' = ci /\ last_command' = sequence
    /\ core' = ReceiveDrive(core, s, now, healthy)
    /\ stop_at' = IF ~s.deadman /\ core.state \notin {"fault", "decaying"} THEN now ELSE stop_at

ServeDisarm(ci, s, sequence) ==
    /\ Receives(ci, s, sequence) /\ s.op = "disarm"
    /\ core' = Disarm(core) /\ owner' = NoOwner /\ stop_at' = now
    /\ UNCHANGED last_command

ServeEstop(ci, s, sequence) ==
    /\ Receives(ci, s, sequence) /\ s.op = "estop"
    /\ core' = Fault(core) /\ stop_at' = now
    /\ UNCHANGED <<owner, last_command>>

ServePacket(ci) ==
    \E s \in PacketShapes, sequence \in {clients[ci].sequence, clients[ci].sequence + 1} :
        /\ sequence <= MaxSequence
        /\ \/ RejectPacket(ci, s, sequence)
           \/ ServeStatus(ci, s, sequence)
           \/ SkipDrive(ci, s, sequence)
           \/ ServeDrive(ci, s, sequence)
           \/ ServeDisarm(ci, s, sequence)
           \/ ServeEstop(ci, s, sequence)

-----------------------------------------------------------------------------
(* The end of a tick, and of the process.                                  *)

Active(c) == c.state \in {"armed", "decaying"}

\* A valve whose name is no axis is commanded nothing.
ValveCommand(command, n) == IF n \in Axes THEN command[n] ELSE 0

\* An inactive core puts the ramps back to the centre.
Ramps(c, command) ==
    [n \in ValveNames |->
        LET v == Calibration[n]
        IN  [initialized |-> TRUE, time |-> now,
             pulse |-> IF Active(c)
                       THEN RampPulse(v, TargetPulse(v, ValveCommand(command, n)), now, ramps[n])
                       ELSE v.center]]

Pulses(c, state, sine) ==
    [n \in ValveNames |-> IF Active(c) THEN Dither(Calibration[n], state[n].pulse, sine[n])
                                      ELSE Calibration[n].center]

Apply ==
    /\ pc = "apply"
    /\ core' = Tick(core, now, healthy)
    /\ ramps' = Ramps(core', Command(core', now))
    /\ \E sine \in [ValveNames -> -SineUnit .. SineUnit] :
          pwm' = [valves |-> Pulses(core', ramps', sine), pump |-> PumpOn(core')]
    /\ applied' = [command |-> Command(core', now), sequence |-> last_command]
    /\ output_at' = now
    /\ pc' = "tick" /\ turn' = 1 /\ budget' = MessageLimit
    /\ UNCHANGED <<now, clients, owner, last_command, imu, healthy, stop_at>>

\* The process ends: its memory and its connections are gone, the chip holds output.
Exit(output) ==
    /\ pc' = "exited" /\ pwm' = output
    /\ turn' = 1 /\ budget' = MessageLimit
    /\ clients' = [ci \in Clients |-> NoClient]
    /\ owner' = NoOwner /\ last_command' = 0
    /\ core' = CoreInit /\ imu' = NoSample /\ healthy' = FALSE
    /\ applied' = [command |-> Zero, sequence |-> 0]
    /\ ramps' = [n \in ValveNames |-> NoRamp]
    /\ UNCHANGED <<now, stop_at, output_at>>

\* SIGINT, SIGTERM, the run's duration, or a PWM write that throws: neutral is
\* written if the chip still answers, and retried by ~Pwm.
Shutdown == pc \in {"tick", "apply"} /\ \E output \in {pwm, Neutral} : Exit(output)

\* SIGKILL, OOM: the chip retains its outputs.
Crash == pc # "exited" /\ Exit(pwm)

\* The PWM constructor centres the outputs before the new loop starts.
Restart ==
    /\ pc = "exited"
    /\ pc' = "tick" /\ pwm' = Neutral /\ stop_at' = now /\ output_at' = now
    /\ UNCHANGED <<now, turn, budget, clients, owner, last_command, core, imu, healthy, applied,
                   ramps>>

Next ==
    \/ \E t \in now + 1 .. MaxTime : BeginTick(t)
    \/ AcceptClients
    \/ \E ci \in Clients : CloseClient(ci) \/ ServePacket(ci)
    \/ EndTurn
    \/ Apply
    \/ Shutdown \/ Crash \/ Restart

Spec == Init /\ [][Next]_vars

-----------------------------------------------------------------------------
(* Properties.                                                             *)

Live == {"arming", "armed", "decaying"}

\* After any event the safety table answers with a stop (emergency stop, a bad,
\* replayed or closed owner, a disarm, a released deadman, IMU trouble, a missed
\* deadline, a serial error, a restart), whatever packets follow it, no output leaves
\* neutral before at least a full arming hold has passed (ControlCore, control_main).
\* A decay already stops: a deadman released during it changes nothing.
NoMotionAfterStop == pc = "tick" /\ pwm # Neutral => now - stop_at >= ArmDuration

\* Once the owner's accepted drive packets cease, motion ends within lease + deadline +
\* decay: in the middle of a tick that starts later the core authorises none, and an
\* output off neutral was written by a tick that started earlier, between ticks by the
\* last one.  So renewals, chunk ends and the two tick calls of one loop never add up to
\* more.  The chip itself holds what that tick wrote until the next one writes, however
\* late that is; a process that is killed holds it until it is started again.
MotionDeadline ==
    /\ Active(core) => now - core.updated < Lease + Deadline + Decay
    /\ pwm # Neutral /\ pc # "exited" =>
          /\ output_at - core.updated < Lease + Deadline + Decay
          /\ pc = "tick" => output_at = now

\* The inductive invariant behind the two bounds above: how the timers of the
\* core stand to each other and to the last stop between any two steps, in the
\* middle of a tick as well as between ticks (ControlCore's *_started_, updated_).
LeaseTimers ==
    /\ stop_at <= now
    /\ core.state \in Live => stop_at <= core.arm_started /\ core.arm_started <= now
    /\ core.state \in {"armed", "decaying"} => now - core.arm_started >= ArmDuration
    /\ core.state = "armed" => core.updated <= now /\ now - core.updated <= Lease
    /\ core.state = "decaying" =>
          /\ core.decay_started <= now /\ now - core.decay_started < Decay
          /\ core.decay_started - core.updated <= Lease + Deadline
    /\ pc = "tick" /\ pwm # Neutral => core.state \in {"armed", "decaying"}
    /\ pc = "exited" => core.state \notin Live

\* Output off neutral is licensed on the tick that writes it: the IMU is
\* healthy, the pump runs only inside the lease of an armed core, and a running
\* plan is neither past its last row nor planned from too old an observation,
\* for a packet accepted earlier as for one accepted on this very tick.
MotionIsLicensed ==
    pc = "tick" /\ pwm # Neutral =>
        /\ ~imu.blocked /\ imu.valid /\ now - imu.received <= ImuTimeout
        /\ core.state \in {"armed", "decaying"}
        /\ pwm.pump => core.state = "armed" /\ now - core.updated <= Lease
        /\ core.state = "armed" =>
              /\ Len(core.plan.rows) > 1 => now <= core.plan.t0 + (Len(core.plan.rows) - 1) * RowTime
              /\ core.plan.observation > 0 => now - core.plan.observation <= MaxObservationAge

\* x lies between a and b.
Amid(x, a, b) == (a <= x /\ x <= b) \/ (b <= x /\ x <= a)
\* The pulse the last tick asked of a valve.
Asks(n) == TargetPulse(Calibration[n], ValveCommand(applied.command, n))

\* A producer that returns while the core decays cannot resume: the decay ends in a stop.
\* Each tick that finds the core decaying asks less of every valve, with the pump off; a
\* valve's ramp goes from where it stands to what is asked now, never beyond either, so
\* it opens no further than it was opened or asked to open when the producer fell silent
\* (a slow ramp may still be on its way there); and the chip gets that pulse but for the
\* dither, at most two amplitudes from it if the limits leave room for the swing.
DecayOnlyStops ==
    [][core.state = "decaying" =>
          /\ core'.state \in {"decaying", "fault", "disarmed"}
          /\ pc = "apply" /\ pc' = "tick" =>
                /\ ~pwm'.pump
                /\ \A n \in ValveNames :
                      LET v == Calibration[n]
                      IN  /\ Amid(Asks(n)', v.center, Asks(n))
                          /\ Amid(ramps'[n].pulse, ramps[n].pulse, Asks(n)')
                          /\ v.min + 2 * v.dither_amp <= v.max =>
                                Abs(pwm'.valves[n] - ramps'[n].pulse) <= 2 * v.dither_amp]_vars

\* What one producer stopped or holds, another cannot take back.  A latched fault ends
\* with a disarm packet or with the process, never with a drive packet, a released
\* deadman or the passing of time.  A live core keeps its owner, who is connected,
\* whatever order disconnects, disarms of other producers and slot reuse come in
\* (receive, tick, serve, close_client).
FaultAndOwnerHold ==
    [][/\ core.state = "fault" /\ core'.state # "fault" =>
             \/ \E ci \in Clients, s \in PacketShapes, sequence \in 0 .. MaxSequence :
                    ServeDisarm(ci, s, sequence)
             \/ pc' = "exited"
       /\ core'.state \in Live => owner' \in Clients /\ clients'[owner'].open
       /\ core.state \in Live /\ core'.state \in Live => owner' = owner]_vars
=============================================================================
